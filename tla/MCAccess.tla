------------------------------ MODULE MCAccess ------------------------------
(***************************************************************************)
(* The modules about who may come in and what they may do, each on a small *)
(* instance.  They share no state, so the run explores one of them at a    *)
(* time: part names it, and the others stay as they began.                 *)
(***************************************************************************)
EXTENDS SignIn, Registration, Usernames, RateLimit, Staff, Assistant, Authority, TLC

VARIABLE part

\* Whatever can be in flight; and rows that are alike.
CONSTANTS x1, x2, y1, y2

MCThresholds == {[failures |-> 1, lock |-> 1], [failures |-> 2, lock |-> 2]}

\* Zero and the letter of the other script read like "o".
MCLeet == "0" :> "o" @@ "x" :> "o"
MCFragments == {<<"k", "o", "b">>, <<"k", " ", "b", "b", "o">>}
MCImpersonation == {<<"b", "o", "k">>}
MCReserved == {<<"o", "k", "o">>}
MCExactWords == {<<"b", "b">>, <<"o", "o", "k">>}

MCHoldings == {{"ai", "reinstall", "console.write", "power"}, {"ai"}}

\* An administrator has what a viewer has, and more.
MCRolePermissions == [admin |-> {"members", "files"}, viewer |-> {"files"}]

Only(p) == part = p /\ UNCHANGED part

Keep1 == UNCHANGED signInVars
Keep2 == UNCHANGED registrationVars
Keep3 == UNCHANGED usernamesVars
Keep4 == UNCHANGED rateLimitVars
Keep5 == UNCHANGED staff
Keep6 == UNCHANGED assistantVars
Keep7 == UNCHANGED authorityVars

\* One module's initial states at a time: the others begin in a chosen one.
MCInit ==
  /\ part \in {"signIn", "screening", "discord", "usernames", "rateLimit", "staff", "assistant",
              "authority"}
  /\ SignInInit /\ (part # "signIn" => account = Idle.row)
  /\ RegistrationInit
  /\ UsernamesInit /\ (part # "usernames" => wanted = <<"k">>)
  /\ RateLimitInit /\ StaffInit
  /\ AssistantInit /\ (part # "assistant" => held = {"ai"})
  /\ AuthorityInit

\* Registration is looked at twice: with names that are screened and refused, and
\* with Discord, since both at once are more states than the two one by one.
MCNext ==
  \/ Only("signIn") /\ SignInNext /\ Keep2 /\ Keep3 /\ Keep4 /\ Keep5 /\ Keep6 /\ Keep7
  \/ /\ \/ Only("screening") /\ RegistrationNext /\ \A t \in Tokens : token'[t].kind # "state"
        \/ Only("discord") /\ RegistrationNext /\ warning' = {}
     /\ Keep1 /\ Keep3 /\ Keep4 /\ Keep5 /\ Keep6 /\ Keep7
  \/ Only("usernames") /\ UsernamesNext /\ Keep1 /\ Keep2 /\ Keep4 /\ Keep5 /\ Keep6 /\ Keep7
  \/ Only("rateLimit") /\ RateLimitNext /\ Keep1 /\ Keep2 /\ Keep3 /\ Keep5 /\ Keep6 /\ Keep7
  \/ Only("staff") /\ StaffNext /\ Keep1 /\ Keep2 /\ Keep3 /\ Keep4 /\ Keep6 /\ Keep7
  \/ Only("assistant") /\ AssistantNext /\ Keep1 /\ Keep2 /\ Keep3 /\ Keep4 /\ Keep5 /\ Keep7
  \/ Only("authority") /\ AuthorityNext /\ Keep1 /\ Keep2 /\ Keep3 /\ Keep4 /\ Keep5 /\ Keep6

Symmetry == Permutations({x1, x2}) \cup Permutations({y1, y2})
=============================================================================
