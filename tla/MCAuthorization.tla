--------------------------- MODULE MCAuthorization ---------------------------
(* Instances of Authorization.                                             *)
EXTENDS Authorization

Tenant(f, u) == [Full(tenant) EXCEPT !.from = f, !.until = u]
OneDay(d)    == [Full(one_time_user) EXCEPT !.day = d]

Periodic(f, u, ds) == [Tenant(f, u) EXCEPT !.type = periodic_user, !.days = ds]

(* The highest rights there are, a tenant and a periodic user who only     *)
(* stay one day (the window the code lets in), and a guest for a day.      *)
MCRequests == {Full(admin), Tenant(1, 1), Periodic(1, 1, {1}), OneDay(0)}

(* A tenant for two days, a periodic user, and a type there is not.        *)
MCStays == {Tenant(0, 1), Periodic(1, 1, {1}), Full(15)}
=============================================================================
