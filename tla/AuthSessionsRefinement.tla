----------------------- MODULE AuthSessionsRefinement -----------------------
(***************************************************************************)
(* AuthSessions implements RotatingTokens.  The abstract state is read off *)
(* the records: created or not, revoked or active; and how far a request   *)
(* has come off the handler's program counter.                             *)
(***************************************************************************)
EXTENDS AuthSessions

SessionState(s) == IF session[s].user = Null THEN "none"
                   ELSE IF session[s].revoked THEN "closed" ELSE "open"

TokenState(t) == IF token[t].user = Null THEN "none"
                 ELSE IF token[t].active THEN "live" ELSE "dead"

\* A refresh has presented its token, then passed its session check; a login,
\* and a refresh that has rotated, are owed the token that IssueToken creates.
Stage(pc) ==
    CASE pc = "refresh.session"                   -> "presented"
      [] pc \in {"refresh.user", "refresh.rotate"} -> "admitted"
      [] pc \in {"issue.touch", "issue.token"}    -> "granted"
      [] OTHER                                    -> "none"

RequestOf(rec) ==
    [stage   |-> Stage(rec.pc),
     token   |-> IF Stage(rec.pc) \in {"presented", "admitted"} THEN rec.tok ELSE Null,
     session |-> IF Stage(rec.pc) # "none" THEN rec.sess ELSE Null]

AbsSession == [s \in Sessions |-> SessionState(s)]

AbsToken == [t \in Tokens |-> [state |-> TokenState(t), session |-> token[t].session]]

AbsRequest == [h \in Threads |-> RequestOf(thread[h])]

RT == INSTANCE RotatingTokens
        WITH session <- AbsSession, token <- AbsToken, request <- AbsRequest

\* Whatever is lost, unanswered or interrupted, each step of a handler is one of
\* the abstract steps or none: no new token without the death of one that was
\* live when presented, in a session that was open when asked (refresh,
\* issueTokens); a dead token and a revoked session stay so (logout,
\* resetPassword).  A statement refused in silence may break it.
ImplementsRotatingTokens == RT!Spec

=============================================================================
