----------------------------- MODULE RateLimiter -----------------------------
(***************************************************************************)
(* The sliding window of one kind of limit and one address: the sorted set *)
(* in Redis, the script that reads and writes it, and the requests that go *)
(* through the middleware.  A request takes its time stamp in the API      *)
(* server and runs the script later, so that scripts run out of order; an  *)
(* answer may be lost, and then the client library runs the script again,  *)
(* MaxRetries + 1 times in all.                                            *)
(*                                                                         *)
(* The fixed window and Reset are called by nobody and are left out.       *)
(* Names of Permissions are avoided here: GuardProofs extends both.        *)
(***************************************************************************)
EXTENDS Integers, FiniteSets

CONSTANTS
  Call,        \* requests, each made once
  Draw,        \* what the script's math.random() may return
  Limit,       \* requests a window allows (config.Requests)
  Window,      \* its length in milliseconds
  MaxRetries,  \* how often a script is run again
  MaxDelay,    \* bound: a script runs this long after its stamp at the latest
  MaxTime      \* bound: the clock stops there

ASSUME LimiterAssumption ==
  /\ IsFiniteSet(Call)
  /\ Limit \in Nat \ {0} /\ Window \in Nat \ {0}
  /\ MaxRetries \in Nat /\ MaxDelay \in Nat /\ MaxTime \in Nat

VARIABLES
  clock,     \* the time, for the server and for Redis
  entries,   \* the sorted set; an entry is its member, at is its score as well
  expires,   \* when Redis drops the key
  calls      \* the requests; lost counts the runs whose answer was lost

limiterVars == <<clock, entries, expires, calls>>

Time == 0..MaxTime

Entry == [at: Time, draw: Draw]

New == [pc |-> "new"]

Result ==
  [pc: {"admitted"}, stamp: Time, lost: 0..MaxRetries, draw: Draw, remaining: 0..Limit - 1]
    \cup
  [pc: {"refused"}, stamp: Time, lost: 0..MaxRetries, reset: Nat]
    \cup
  [pc: {"unchecked"}, stamp: Time, lost: 0..MaxRetries + 1]

LimiterTypeOK ==
  /\ clock \in Time
  /\ entries \in SUBSET Entry
  /\ Cardinality(entries) <= Limit
  /\ expires \in 0..MaxTime + Window
  /\ calls \in [Call -> Result \cup {New} \cup [pc: {"stamped"}, stamp: Time, lost: 0..MaxRetries + 1]]

LimiterInit ==
  /\ clock = 0
  /\ entries = {}
  /\ expires = 0
  /\ calls = [r \in Call |-> New]

-----------------------------------------------------------------------------
(* The script *)

Stored == IF clock < expires THEN entries ELSE {}

\* Mutant: an entry is dropped one millisecond early.
KeptShort(stamp) == {e \in Stored : e.at > stamp - Window + 1}

\* ZREMRANGEBYSCORE from 0 to stamp - Window.
Kept(stamp) == {e \in Stored : e.at > stamp - Window}

HasRoom(stamp) == Cardinality(Kept(stamp)) < Limit

\* ZADD of a member that is there adds nothing.
Record(stamp, d) ==
  /\ entries' = Kept(stamp) \cup {[at |-> stamp, draw |-> d]}
  /\ expires' = clock + Window

\* Mutant: the refused request is recorded as well.
TurnAwayRecorded(stamp) ==
  /\ \E d \in Draw : entries' = Kept(stamp) \cup {[at |-> stamp, draw |-> d]}
  /\ UNCHANGED expires

TurnAway(stamp) ==
  /\ entries' = Kept(stamp)
  /\ UNCHANGED expires

Oldest(stamp) == CHOOSE e \in Kept(stamp) : \A d \in Kept(stamp) : e.at <= d.at

-----------------------------------------------------------------------------
(* The requests *)

Proceed(r, state) == calls' = [calls EXCEPT ![r] = state]

\* The client library has a run left.
MayRun(r) == calls[r].pc = "stamped" /\ calls[r].lost <= MaxRetries

Tick ==
  /\ clock < MaxTime
  /\ \A r \in Call : calls[r].pc = "stamped" => clock < calls[r].stamp + MaxDelay
  /\ clock' = clock + 1
  /\ UNCHANGED <<entries, expires, calls>>

\* RateLimiter.Allow takes the time.
Stamp(r) ==
  /\ calls[r] = New
  /\ Proceed(r, [pc |-> "stamped", stamp |-> clock, lost |-> 0])
  /\ UNCHANGED <<clock, entries, expires>>

Admit(r) ==
  LET stamp == calls[r].stamp IN
  /\ MayRun(r)
  /\ HasRoom(stamp)
  /\ \E d \in Draw :
       /\ Record(stamp, d)
       /\ Proceed(r, [pc |-> "admitted", stamp |-> stamp, lost |-> calls[r].lost, draw |-> d,
                      remaining |-> Limit - Cardinality(Kept(stamp)) - 1])
  /\ UNCHANGED clock

Deny(r) ==
  LET stamp == calls[r].stamp IN
  /\ MayRun(r)
  /\ ~HasRoom(stamp)
  /\ TurnAway(stamp)
  /\ Proceed(r, [pc |-> "refused", stamp |-> stamp, lost |-> calls[r].lost,
                 reset |-> Oldest(stamp).at + Window])
  /\ UNCHANGED clock

\* The script has run and its answer does not arrive in time.
Lose(r) ==
  LET stamp == calls[r].stamp IN
  /\ MayRun(r)
  /\ IF HasRoom(stamp) THEN \E d \in Draw : Record(stamp, d) ELSE TurnAway(stamp)
  /\ Proceed(r, [calls[r] EXCEPT !.lost = @ + 1])
  /\ UNCHANGED clock

\* Redis does not answer, or the answer of the last run was lost as well: the
\* middleware lets the request through, with whatever its runs have recorded.
Unchecked(r) ==
  /\ calls[r].pc = "stamped"
  /\ Proceed(r, [pc |-> "unchecked", stamp |-> calls[r].stamp, lost |-> calls[r].lost])
  /\ UNCHANGED <<clock, entries, expires>>

\* RateLimitMiddleware.ByIP
ByIP(r) == Stamp(r) \/ Admit(r) \/ Deny(r) \/ Lose(r) \/ Unchecked(r)

LimiterNext == Tick \/ \E r \in Call : ByIP(r)

LimiterSpec == LimiterInit /\ [][LimiterNext]_limiterVars

-----------------------------------------------------------------------------
(* Properties *)

EntryOf(r) == [at |-> calls[r].stamp, draw |-> calls[r].draw]

Admitted(from, to) == {r \in Call : calls[r].pc = "admitted" /\ calls[r].stamp \in from + 1..to}

\* No window admits more than the limit, in whatever order the scripts run and
\* run again, if it is shorter by the time a script may be late: a later stamp
\* may have dropped what an earlier one should still see.  Requests of one
\* millisecond for which the script draws the same number count as one.
WindowLimit ==
  \A t \in -Window..MaxTime :
    Cardinality({EntryOf(r) : r \in Admitted(t, t + Window - MaxDelay)}) <= Limit

\* Run n of the script for r: its answer was lost, or it admitted the request.
\* No other run adds an entry.
MayRecord(r, n) == n < calls[r].lost \/ (n = calls[r].lost /\ calls[r].pc = "admitted")

\* A request is refused only if the limit was used up by requests stamped less
\* than a window before it, or after it: by their admissions, and by runs of the
\* script whose answer was lost, its own among them.  Refusals count for nothing.
RefusedForReason ==
  \A r \in Call : calls[r].pc = "refused" =>
    LET near == {q \in Call : calls[q] # New /\ calls[q].stamp > calls[r].stamp - Window} IN
    Limit <= Cardinality({run \in near \X (0..MaxRetries) : MayRecord(run[1], run[2])})
=============================================================================
