------------------------------ MODULE Pending ------------------------------
(***************************************************************************)
(* The consumer's backlog as the stats line and /metrics show it: a cache  *)
(* of two atomics, fed by the fetch path for free and by ConsumerInfo when *)
(* the cache is old.  Readers and writers take no lock, so the count and   *)
(* its stamp are loaded and stored one after the other.                    *)
(*                                                                         *)
(* A count is represented by the instant at which it was the backlog.      *)
(***************************************************************************)
EXTENDS Integers, FiniteSetsExt

CONSTANTS
  Readers,       \* the goroutines that call ConsumerPending
  MaxAge,        \* pendingMaxAge
  RpcTimeout,    \* pendingScrapeTimeout
  BatchWait,     \* BatchTimeout: a message may wait that long in a pull
  MaxNow         \* bound on the clock

ASSUME PendingAssumption ==
  /\ MaxAge \in Nat \ {0} /\ RpcTimeout \in Nat \ {0}
  /\ BatchWait \in Nat /\ MaxNow \in Nat \ {0}

VARIABLES
  now,           \* the clock
  pendingCount,  \* atomic.Uint64, -1 while it was never stored
  pendingAt,     \* atomic.Int64, 0 while it was never stored
  fetched,       \* toMessageInfos: its next store
  reader,        \* reader -> where it is in PendingMessages
  servedAge      \* the age of the oldest count that was served: history

pendingVars == <<now, pendingCount, pendingAt, fetched, reader, servedAge>>

Never == -1
NoCall == [step |-> "idle", asOf |-> Never, since |-> 0]

PendingInit ==
  /\ now = 1
  /\ pendingCount = Never
  /\ pendingAt = 0
  /\ fetched = NoCall
  /\ reader = [r \in Readers |-> NoCall]
  /\ servedAge = 0

-----------------------------------------------------------------------------
(* toMessageInfos: the batch came with a count that is up to BatchWait old;  *)
(* the time was taken before the messages were looked at.                    *)
FetchReturns ==
  /\ fetched.step = "idle"
  /\ \E asOf \in {t \in 0..now : now - t <= BatchWait} :
       fetched' = [step |-> "count", asOf |-> asOf, since |-> now]
  /\ UNCHANGED <<now, pendingCount, pendingAt, reader, servedAge>>

FetchStores ==
  \/ /\ fetched.step = "count"
     /\ pendingCount' = fetched.asOf
     /\ fetched' = [fetched EXCEPT !.step = "stamp"]
     /\ UNCHANGED <<now, pendingAt, reader, servedAge>>
  \/ /\ fetched.step = "stamp"
     /\ pendingAt' = fetched.since
     /\ fetched' = NoCall
     /\ UNCHANGED <<now, pendingCount, reader, servedAge>>

-----------------------------------------------------------------------------
Move(r, call) == reader' = [reader EXCEPT ![r] = call]
Serve(r, asOf) ==
  /\ Move(r, NoCall)
  /\ servedAge' = Max({servedAge, now - asOf})

(* PendingMessages: a young stamp, or a request to the server. *)
LoadStamp(r) ==
  /\ reader[r].step = "idle"
  /\ Move(r, [step |-> IF pendingAt # 0 /\ now - pendingAt < MaxAge THEN "cached" ELSE "asked",
              asOf |-> Never, since |-> now])
  /\ UNCHANGED <<now, pendingCount, pendingAt, fetched, servedAge>>

LoadCount(r) ==
  /\ reader[r].step = "cached"
  /\ Serve(r, pendingCount)
  /\ UNCHANGED <<now, pendingCount, pendingAt, fetched>>

(* The server looks the count up. *)
ServerAnswers(r) ==
  /\ reader[r].step = "asked"
  /\ Move(r, [reader[r] EXCEPT !.step = "count", !.asOf = now])
  /\ UNCHANGED <<now, pendingCount, pendingAt, fetched, servedAge>>

(* Fault: the stamp is stored before the count. *)
RefreshStampFirst(r) ==
  \/ /\ reader[r].step = "count"
     /\ pendingAt' = now
     /\ Move(r, [reader[r] EXCEPT !.step = "stamp"])
     /\ UNCHANGED <<now, pendingCount, fetched, servedAge>>
  \/ /\ reader[r].step = "stamp"
     /\ pendingCount' = reader[r].asOf
     /\ Serve(r, reader[r].asOf)
     /\ UNCHANGED <<now, pendingAt, fetched>>

(* refreshPending: the answer is stored, whatever was stored since it was    *)
(* asked for.                                                                *)
RefreshStores(r) ==
  \/ /\ reader[r].step = "count"
     /\ pendingCount' = reader[r].asOf
     /\ Move(r, [reader[r] EXCEPT !.step = "stamp"])
     /\ UNCHANGED <<now, pendingAt, fetched, servedAge>>
  \/ /\ reader[r].step = "stamp"
     /\ pendingAt' = now
     /\ Serve(r, reader[r].asOf)
     /\ UNCHANGED <<now, pendingCount, fetched>>

(* No answer in time, or an error: the last count comes back with the error. *)
RefreshFails(r) ==
  /\ reader[r].step \in {"asked", "count"}
  /\ Move(r, NoCall)
  /\ UNCHANGED <<now, pendingCount, pendingAt, fetched, servedAge>>

(* Time passes, but not between the loads and stores of a call, and a        *)
(* request ends within its timeout.                                          *)
PendingClock ==
  /\ now < MaxNow
  /\ fetched.step = "idle"
  /\ \A r \in Readers :
       /\ reader[r].step \notin {"cached", "stamp"}
       /\ reader[r].step \in {"asked", "count"} => now - reader[r].since < RpcTimeout
  /\ now' = now + 1
  /\ UNCHANGED <<pendingCount, pendingAt, fetched, reader, servedAge>>

-----------------------------------------------------------------------------
(* A backlog that is reported without an error was the real one less than     *)
(* MaxAge plus one request or one pull ago, although a late answer may         *)
(* overwrite a fresher count and the two atomics are not stored as one.        *)
PendingFresh ==
  servedAge < MaxAge + Max({RpcTimeout, BatchWait})
=============================================================================
