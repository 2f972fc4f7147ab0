------------------------------ MODULE MCLogins ------------------------------
(* One run of the life of sessions and of what comes before one: throttle,  *)
(* discovery and failover.  Sessions takes the outcome of a sign-in as      *)
(* given, so a behaviour is of one of the two, chosen at the start.         *)
EXTENDS MCSessions, MCSignIn

VARIABLE focus

\* All threads but one: the fewer permutations, the faster each state is compared.
OneThread == CHOOSE w \in Thread : TRUE
LoginSymmetry == Permutations(Thread \ {OneThread}) \cup Permutations(Attempt)

LoginsInit == Init /\ SignInInit /\ focus \in {"sessions", "sign-in"}
\* The sign-ins come to rest at their bound, the sessions must not.
LoginsNext ==
  /\ UNCHANGED focus
  /\ \/ focus = "sessions" /\ Next /\ UNCHANGED signInVars
     \/ focus = "sign-in" /\ (SignInNext \/ UNCHANGED signInVars) /\ UNCHANGED vars
LoginsSpec == LoginsInit /\ [][LoginsNext]_<<vars, signInVars, focus>>
=============================================================================
