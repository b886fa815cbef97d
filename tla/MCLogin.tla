-------------------------------- MODULE MCLogin --------------------------------
(***************************************************************************)
(* An instance of Login: two flows of one browser or of two, one person    *)
(* with two email addresses and another who has taken over the first, a    *)
(* customer user for each address and an administrator.                    *)
(***************************************************************************)
EXTENDS Login

CONSTANTS f1, f2, anna, ben, adam, acme, q1, n1, e1, e2, s1, s2

MCAccount == [u \in Users |-> IF u = adam THEN None ELSE acme]
MCUserRealm == [u \in Users |-> IF u = adam THEN "admin" ELSE "customer"]
MCUserProvider == [u \in Users |-> IF u = adam THEN "entra" ELSE "google"]
MCUserEmail == [u \in Users |-> IF u = ben THEN e2 ELSE e1]
MCPinned == [u \in Users |-> IF u = adam THEN None ELSE n1]
Raw(s, e) == [nonce |-> TRUE, namespace |-> n1, subject |-> s, issuer |-> TRUE,
              email |-> e, verified |-> "true"]
MCRawClaims ==
  [google |-> {Raw(s1, e1), Raw(s1, e2), Raw(s2, e1), Raw(None, e2)},
   entra |-> {[Raw(s1, e1) EXCEPT !.verified = "absent"], Raw(s2, None)}]
MCRoutes == {[realm |-> "customer", provider |-> "google"],
             [realm |-> "admin", provider |-> "entra"]}
=============================================================================
