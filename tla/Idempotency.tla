---------------------------- MODULE Idempotency ----------------------------
(***************************************************************************)
(* withIdempotency of server/api/idempotency.ts, around one key of one     *)
(* user and operation: the requests that carry the key share one row of    *)
(* idempotency_records.  Every statement on the row is a step; they are    *)
(* not in a transaction, and fn runs between them.                         *)
(***************************************************************************)
EXTENDS Naturals, FiniteSets

CONSTANTS
  Requests,   \* requests that carry the key: first attempts and retries
  Payloads,   \* bodies they may send, told apart by their hash
  Pollers,    \* requests whose caller gives a lockTimeoutMs
  MaxActive,  \* bound: requests in progress at the same time
  None

ASSUME IdempotencyAssumption ==
  /\ Pollers \subseteq Requests
  /\ MaxActive \in Nat \ {0}
  /\ None \notin Requests \cup Payloads

VARIABLES
  rec,        \* the row: status, has it not expired, whose response it caches
  pc, body,   \* each request: where it is and what it sends
  answer,     \* each request: the request whose response it was given
  started,    \* history: requests that began to execute fn
  succeeded,  \* history: requests whose fn returned
  failed,     \* history: has the row ever been FAILED?
  expired     \* history: has it ever expired?

vars == <<rec, pc, body, answer, started, succeeded, failed, expired>>

Running    == {"run", "returned", "threw"}  \* from the PENDING row to the last update
Polling    == {"poll", "poll-old"}  \* old: the row that was read has expired
Terminated == {"answered", "conflict", "error", "dead"}
Active(r)  == pc[r] \notin {"idle"} \cup Terminated

Init ==
  /\ rec = [status |-> "NONE", live |-> FALSE, by |-> None]
  /\ pc = [r \in Requests |-> "idle"]
  /\ body = [r \in Requests |-> None]
  /\ answer = [r \in Requests |-> None]
  /\ started = {} /\ succeeded = {}
  /\ failed = FALSE /\ expired = FALSE

Go(r, where) == pc' = [pc EXCEPT ![r] = where]

\* Mutant: the payload hash is not compared.
ResolveAnyBody(r, b) ==
  Go(r, "answered") /\ answer' = [answer EXCEPT ![r] = rec.by]

\* resolveCompletedRecord, on the row as it is: the cached response, or a
\* conflict if it answers another body (b is the body of r).
Resolve(r, b) ==
  IF body[rec.by] = b
    THEN Go(r, "answered") /\ answer' = [answer EXCEPT ![r] = rec.by]
    ELSE Go(r, "conflict") /\ UNCHANGED answer

Live(st) == rec.status = st /\ rec.live

\* Mutant: expiresAt is not moved.
ExpiredRow == [status |-> "PENDING", live |-> FALSE, by |-> None]

\* The row as step 3 leaves it, created or overwritten.
PendingRow == [status |-> "PENDING", live |-> TRUE, by |-> None]

-----------------------------------------------------------------------------
\* Step 1 and 2: the first look at the row.
Lookup(r, b) ==
  /\ pc[r] = "idle"
  /\ Cardinality({q \in Requests : Active(q)}) < MaxActive
  /\ body' = [body EXCEPT ![r] = b]
  /\ \/ Live("COMPLETED") /\ Resolve(r, b)
     \/ Live("PENDING") /\ Go(r, IF r \in Pollers THEN "poll" ELSE "conflict")
          /\ UNCHANGED answer
     \/ rec.status = "NONE" /\ Go(r, "create") /\ UNCHANGED answer
     \/ rec.status # "NONE" /\ (~rec.live \/ rec.status = "FAILED")
          /\ Go(r, "reset") /\ UNCHANGED answer
  /\ UNCHANGED <<rec, started, succeeded, failed, expired>>

\* The waiting loop: another look, or the timeout, which only asks whether the row
\* that was read before the loop has expired, whatever the row is by now.
Poll(r) ==
  /\ pc[r] \in Polling
  /\ \/ Live("COMPLETED") /\ Resolve(r, body[r])
     \/ pc[r] = "poll" /\ Go(r, "conflict") /\ UNCHANGED answer
     \/ (~rec.live \/ rec.status = "FAILED" \/ pc[r] = "poll-old")
          /\ Go(r, "reset") /\ UNCHANGED answer
  /\ UNCHANGED <<rec, body, started, succeeded, failed, expired>>

\* Step 3, the row exists: an update by id, whatever the row is by now.
Reset(r) ==
  /\ pc[r] = "reset"
  /\ rec' = PendingRow
  /\ started' = started \cup {r}
  /\ Go(r, "run")
  /\ UNCHANGED <<body, answer, succeeded, failed, expired>>

\* Step 3, no row was seen: the unique index lets one insert win.
Create(r) ==
  /\ pc[r] = "create"
  /\ IF rec.status = "NONE"
       THEN /\ rec' = PendingRow
            /\ started' = started \cup {r}
            /\ Go(r, "run")
       ELSE Go(r, "lost") /\ UNCHANGED <<rec, started>>
  /\ UNCHANGED <<body, answer, succeeded, failed, expired>>

\* The loser of the insert looks at the winner's row.
InspectWinner(r) ==
  /\ pc[r] = "lost"
  /\ \/ Live("COMPLETED") /\ Resolve(r, body[r])
     \/ Live("PENDING") /\ Go(r, IF r \in Pollers THEN "poll-winner" ELSE "conflict")
          /\ UNCHANGED answer
     \/ (~rec.live \/ rec.status = "FAILED") /\ Go(r, "error") /\ UNCHANGED answer
  /\ UNCHANGED <<rec, body, started, succeeded, failed, expired>>

\* Its own waiting loop ends with the winner's response or a conflict.
PollWinner(r) ==
  /\ pc[r] = "poll-winner"
  /\ \/ Live("COMPLETED") /\ Resolve(r, body[r])
     \/ Go(r, "conflict") /\ UNCHANGED answer
  /\ UNCHANGED <<rec, body, started, succeeded, failed, expired>>

-----------------------------------------------------------------------------
\* Step 4: fn commits its work and returns, or rolls back and throws.
FnReturns(r) ==
  /\ pc[r] = "run"
  /\ succeeded' = succeeded \cup {r}
  /\ Go(r, "returned")
  /\ UNCHANGED <<rec, body, answer, started, failed, expired>>

FnThrows(r) ==
  /\ pc[r] = "run"
  /\ Go(r, "threw")
  /\ UNCHANGED <<rec, body, answer, started, succeeded, failed, expired>>

\* Updates by id; expiresAt stays.
MarkFailed(r) ==
  /\ pc[r] = "threw"
  /\ rec' = [rec EXCEPT !.status = "FAILED", !.by = None]
  /\ failed' = TRUE
  /\ Go(r, "error")
  /\ UNCHANGED <<body, answer, started, succeeded, expired>>

\* Step 5: updates by id; expiresAt stays.
MarkCompleted(r) ==
  /\ pc[r] = "returned"
  /\ rec' = [rec EXCEPT !.status = "COMPLETED", !.by = r]
  /\ answer' = [answer EXCEPT ![r] = r]
  /\ Go(r, "answered")
  /\ UNCHANGED <<body, started, succeeded, failed, expired>>

\* The last update throws: the error is swallowed and the row stays PENDING.
UpdateIsLost(r) ==
  \/ /\ pc[r] = "returned"
     /\ answer' = [answer EXCEPT ![r] = r]
     /\ Go(r, "answered")
     /\ UNCHANGED <<rec, body, started, succeeded, failed, expired>>
  \/ /\ pc[r] = "threw"
     /\ Go(r, "error")
     /\ UNCHANGED <<rec, body, answer, started, succeeded, failed, expired>>

\* The process dies, before or after the work of fn was committed.
Crash(r) ==
  /\ Active(r)
  /\ Go(r, "dead")
  /\ UNCHANGED <<rec, body, answer, started, succeeded, failed, expired>>

\* ttlMinutes pass; nothing keeps fn from running longer.
Expire ==
  /\ rec.live
  /\ rec' = [rec EXCEPT !.live = FALSE]
  /\ expired' = TRUE
  /\ pc' = [r \in Requests |-> IF pc[r] = "poll" THEN "poll-old" ELSE pc[r]]
  /\ UNCHANGED <<body, answer, started, succeeded, failed>>

Step(r) ==
  \/ \E b \in Payloads : Lookup(r, b)
  \/ Poll(r) \/ Reset(r) \/ Create(r) \/ InspectWinner(r) \/ PollWinner(r)
  \/ FnReturns(r) \/ FnThrows(r) \/ MarkFailed(r) \/ MarkCompleted(r)
  \/ UpdateIsLost(r) \/ Crash(r)

Next == Expire \/ \E r \in Requests : Step(r)

Spec == Init /\ [][Next]_vars

-----------------------------------------------------------------------------
(* Properties.                                                             *)

\* The row and the requests keep their types; only executions that began succeed.
TypeOK ==
  /\ rec \in [status : {"NONE", "PENDING", "COMPLETED", "FAILED"}, live : BOOLEAN,
              by : Requests \cup {None}]
  /\ pc \in [Requests -> {"idle", "reset", "create", "lost", "poll-winner"}
                           \cup Polling \cup Running \cup Terminated]
  /\ body \in [Requests -> Payloads \cup {None}]
  /\ answer \in [Requests -> Requests \cup {None}]
  /\ started \subseteq Requests /\ succeeded \subseteq started
  /\ failed \in BOOLEAN /\ expired \in BOOLEAN

\* Requests that race on a new key execute fn once: as long as the row has neither
\* failed nor expired, only the winner of the insert has started, crashed or not.
OneWinner == ~failed /\ ~expired => \A q, r \in started : q = r

\* A response taken from the row answers the same body and comes from an
\* execution that really succeeded, whichever executions overwrote each other.
ReplayIsFaithful ==
  \A r \in Requests : answer[r] # None =>
    answer[r] \in succeeded /\ body[answer[r]] = body[r]

\* "At-most-once execution semantics" (idempotency.ts:166): while the row does not
\* expire, fn takes effect at most once.  True of retries that wait for the answer
\* to the previous attempt, not of overlapping ones.
AtMostOnce == ~expired => \A q, r \in succeeded : q = r

\* A client that retries waits for the answer to its previous attempt (or for
\* the death of the process that worked on it).
RequestsInTurn == \A q, r \in Requests : Active(q) /\ Active(r) => q = r

-----------------------------------------------------------------------------
(* The inductive strengthening; IdempotencyProofs proves it.               *)

\* A cached response is that of a request that succeeded.
CacheIsReal == rec.status = "COMPLETED" => rec.by \in succeeded

RunningHaveStarted ==
  \A r \in Requests : /\ pc[r] \in Running => r \in started
                      /\ pc[r] = "returned" => r \in succeeded

\* Only a request that found a row waits for it.
RowIsThere == \A r \in Requests : pc[r] \in Polling => rec.status # "NONE"

\* Only a request that has not arrived still changes its body.
IdleIsUnanswered == \A r \in Requests : pc[r] = "idle" => answer[r] = None

StartedHaveBodies == \A r \in started : pc[r] # "idle"

\* An undisturbed row exists as soon as somebody has started, and is live: nobody
\* sees a reason to reset it.
NobodyResets ==
  ~failed /\ ~expired =>
    /\ \A r \in Requests : pc[r] # "poll-old"
    /\ rec.status = "NONE" => started = {}
    /\ rec.status # "NONE" => rec.live /\ rec.status # "FAILED"
    /\ \A r \in Requests : pc[r] # "reset"

IdempotencyInv ==
  /\ TypeOK /\ CacheIsReal /\ RunningHaveStarted /\ RowIsThere
  /\ StartedHaveBodies /\ IdleIsUnanswered /\ NobodyResets
  /\ OneWinner /\ ReplayIsFaithful

\* Of requests in turn: whoever executes fn works on a PENDING row, and once an
\* execution has succeeded nobody sees a reason to start another one, be the
\* last update of the row lost or its author dead.
OnceInv ==
  ~expired =>
    /\ \A r \in Requests : pc[r] # "poll-old"
    /\ rec.status # "NONE" => rec.live
    /\ \A r \in Requests : pc[r] \in Running => rec.status = "PENDING"
    /\ succeeded # {} =>
         /\ rec.status \in {"PENDING", "COMPLETED"}
         /\ \A r \in Requests : pc[r] \notin {"reset", "run", "threw"}
    /\ AtMostOnce
=============================================================================
