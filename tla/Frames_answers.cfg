SPECIFICATION Spec
CONSTANTS
    Keys = {3, 6}
    Ivs <- MCIvs
    Texts <- MCTexts
    Answers <- MCAnswers
    Mtus <- MCMtus
    Styles = {"padded", "bare", "lines"}
    Styled <- MCStyled
    Encrypt <- MCEncrypt
    Decrypt <- MCDecrypt
    NoKey = 0
    Credentials = 50
INVARIANTS Understood InBuffers
