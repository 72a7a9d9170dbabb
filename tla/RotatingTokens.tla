--------------------------- MODULE RotatingTokens ---------------------------
(***************************************************************************)
(* What sessions and rotating refresh tokens promise, without a database,  *)
(* users, passwords or faults: AuthSessions is shown to implement this.    *)
(*                                                                         *)
(* A token is born once, is live, and dies once.  A request presents a     *)
(* live token, is admitted while the token's session is open, and must     *)
(* kill the token before it is granted one new token of that session.  A   *)
(* login is granted a token of the session it opens.  Between these steps  *)
(* anything may happen to the token and the session - there is no lock -   *)
(* and a request may be dropped at any time.                               *)
(***************************************************************************)
CONSTANTS Threads, Sessions, Tokens, Null

VARIABLES
    session,  \* "none", then "open", then "closed"
    token,    \* state: "none", then "live", then "dead"; and its session
    request   \* of each thread: how far its request for a token has come

vars == <<session, token, request>>

NoRequest == [stage |-> "none", token |-> Null, session |-> Null]

At(h, stage) == request[h].stage = stage

Becomes(h, rec) == request' = [request EXCEPT ![h] = rec]

Granted(s) == [stage |-> "granted", token |-> Null, session |-> s]

-----------------------------------------------------------------------------
\* A login opens a session; it may not live to get a token of it.
Open(h, s) ==
    /\ At(h, "none")
    /\ session[s] = "none"
    /\ session' = [session EXCEPT ![s] = "open"]
    /\ Becomes(h, Granted(s)) \/ UNCHANGED request
    /\ UNCHANGED token

Present(h, t) ==
    /\ At(h, "none")
    /\ token[t].state = "live"
    /\ Becomes(h, [stage |-> "presented", token |-> t, session |-> token[t].session])
    /\ UNCHANGED <<session, token>>

Admit(h) ==
    /\ At(h, "presented")
    /\ session[request[h].session] = "open"
    /\ Becomes(h, [request[h] EXCEPT !.stage = "admitted"])
    /\ UNCHANGED <<session, token>>

\* The price of a new token; a request dropped here may have paid for nothing.
Spend(h) ==
    /\ At(h, "admitted")
    /\ token' = [token EXCEPT ![request[h].token].state = "dead"]
    /\ Becomes(h, Granted(request[h].session)) \/ Becomes(h, NoRequest)
    /\ UNCHANGED session

Mint(h, t) ==
    /\ At(h, "granted")
    /\ token[t].state = "none"
    /\ token' = [token EXCEPT ![t] = [state |-> "live", session |-> request[h].session]]
    /\ Becomes(h, NoRequest)
    /\ UNCHANGED session

Drop(h) ==
    /\ Becomes(h, NoRequest)
    /\ UNCHANGED <<session, token>>

DropAll ==
    /\ request' = [h \in Threads |-> NoRequest]
    /\ UNCHANGED <<session, token>>

-----------------------------------------------------------------------------
(* Revocation.                                                             *)

Close(s) ==
    /\ session[s] = "open"
    /\ session' = [session EXCEPT ![s] = "closed"]
    /\ UNCHANGED <<token, request>>

\* Live tokens are killed, none of them, some or all.
Kill ==
    /\ UNCHANGED <<session, request>>
    /\ \E ts \in SUBSET {t \in Tokens : token[t].state = "live"} :
          token' = [t \in Tokens |-> IF t \in ts THEN [token[t] EXCEPT !.state = "dead"]
                                                ELSE token[t]]

Init ==
    /\ session = [s \in Sessions |-> "none"]
    /\ token = [t \in Tokens |-> [state |-> "none", session |-> Null]]
    /\ request = [h \in Threads |-> NoRequest]

Next ==
    \/ Kill
    \/ \E s \in Sessions : Close(s)
    \/ \E h \in Threads :
          \/ Admit(h) \/ Spend(h) \/ Drop(h)
          \/ \E t \in Tokens : Present(h, t) \/ Mint(h, t)
          \/ \E s \in Sessions : Open(h, s)
    \/ DropAll

Spec == Init /\ [][Next]_vars

=============================================================================
