-------------------------------- MODULE MCIam --------------------------------
(* The instance of Iam for TLC. *)
EXTENDS Iam, TLC

CONSTANTS f1, f2, e1, e2, e3, s1, s2, s3, n1, n2, n3, p1, p2

TwoFounders == f1 :> [email |-> e1, slug |-> s1, nui |-> n1]
            @@ f2 :> [email |-> e2, slug |-> s2, nui |-> n2]

\* What a behaviour is about: companies and users that are created, users
\* that change, users that change as soon as they can log in, or numbers
\* that change.
Scenes ==
    {[ops |-> {"register", "createUser", "login", "findUser"}, pods |-> {p1}, founders |-> {f1},
      values |-> {e1, e2, s1, s2, n1, n2}],
     [ops |-> {"reset", "password", "profile", "listUsers", "findUser"}, pods |-> {p1, p2},
      founders |-> {f1}, values |-> {e1, e2}],
     [ops |-> {"createUser", "login", "profile"}, pods |-> {p1}, founders |-> {f1},
      values |-> {e1, e2, e3}],
     [ops |-> {"business", "listTenants", "findTenant"}, pods |-> {p1, p2},
      founders |-> {f1, f2}, values |-> {n1, n2, n3}]}

RequestSymmetry == Permutations(Request)
=============================================================================
