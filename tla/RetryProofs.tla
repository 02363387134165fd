---------------------------- MODULE RetryProofs ----------------------------
(***************************************************************************)
(* What holds of retry_with_backoff for every policy and every lateness of *)
(* the timers, and of a relay for every number of descriptors: it starts   *)
(* with its own end of the pair and nothing else, and connecting is that   *)
(* loop, so that what is shown of the loop holds of the relay.             *)
(***************************************************************************)
EXTENDS FdPass, FiniteSets, FiniteSetTheorems, FunctionTheorems, TLAPS

----------------------------------------------------------------------------
(* The documented backoff                                                  *)

\* The subsets of 1 .. n + 1 are those of 1 .. n, and as many again with n + 1.
LEMMA PowerDoubles ==
    ASSUME NEW n \in Nat
    PROVE  /\ 2 ^ n \in Nat
           /\ 2 ^ (n + 1) = 2 * 2 ^ n
<1> DEFINE S == SUBSET (1 .. n)
           T == {X \cup {n + 1} : X \in S}
           f == [X \in S |-> X \cup {n + 1}]
<1>1. /\ IsFiniteSet(1 .. n) /\ Cardinality(1 .. n) = n
      /\ IsFiniteSet(1 .. n + 1) /\ Cardinality(1 .. n + 1) = n + 1
  BY FS_Interval
<1>2. IsFiniteSet(S) /\ Cardinality(S) = 2 ^ n
  BY <1>1, FS_SUBSET
<1>3. Cardinality(SUBSET (1 .. n + 1)) = 2 ^ (n + 1)
  BY <1>1, FS_SUBSET
<1>4. ExistsBijection(S, T)
  <2>1. ASSUME NEW X \in S, NEW Y \in S, f[X] = f[Y] PROVE X = Y
    <3>1. n + 1 \notin X /\ n + 1 \notin Y
      OBVIOUS
    <3>2. X \cup {n + 1} = Y \cup {n + 1}
      BY <2>1
    <3> QED
      BY <3>1, <3>2
  <2>2. f \in [S -> T]
    OBVIOUS
  <2>3. \A t \in T : \E X \in S : f[X] = t
    OBVIOUS
  <2> HIDE DEF f, S, T
  <2>4. f \in Bijection(S, T)
    BY <2>1, <2>2, <2>3, Fun_IsBij
  <2> QED
    BY <2>4 DEF ExistsBijection
<1>5. IsFiniteSet(T) /\ Cardinality(T) = Cardinality(S)
  BY <1>2, <1>4, FS_Bijection
<1>6. S \cap T = {}
  OBVIOUS
<1>7. SUBSET (1 .. n + 1) = S \cup T
  <2>1. ASSUME NEW X \in SUBSET (1 .. n + 1) PROVE X \in S \cup T
    <3>1. CASE n + 1 \in X
      <4>1. X \ {n + 1} \in S
        OBVIOUS
      <4>2. X = (X \ {n + 1}) \cup {n + 1}
        BY <3>1
      <4> QED
        BY <4>1, <4>2
    <3>2. CASE n + 1 \notin X
      BY <3>2
    <3> QED
      BY <3>1, <3>2
  <2>2. \A X \in S : X \subseteq 1 .. n + 1
    OBVIOUS
  <2>3. \A X \in T : X \subseteq 1 .. n + 1
    OBVIOUS
  <2> HIDE DEF S, T
  <2> QED
    BY <2>1, <2>2, <2>3
<1> HIDE DEF S, T
<1>8. Cardinality(S \cup T) = Cardinality(S) + Cardinality(T) - 0
  BY <1>2, <1>5, <1>6, FS_Union, FS_EmptySet
<1>9. Cardinality(S) \in Nat
  BY <1>2, FS_CardinalityType
<1>10. Cardinality(S \cup T) = 2 * Cardinality(S)
  BY <1>5, <1>8, <1>9
<1> QED
  BY <1>2, <1>3, <1>7, <1>9, <1>10
LEMMA PowerZero == 2 ^ 0 = 1
<1>1. IsFiniteSet(1 .. 0) /\ Cardinality(1 .. 0) = 0
  BY FS_Interval
<1>2. Cardinality(SUBSET (1 .. 0)) = 2 ^ 0
  BY <1>1, FS_SUBSET
<1>3. SUBSET (1 .. 0) = {{}}
  OBVIOUS
<1> QED
  BY <1>2, <1>3, FS_Singleton

\* What the loop computes from one documented backoff is the next: doubling and
\* capping it each time is the same as doubling the first and capping once.
LEMMA BackoffFollows ==
    ASSUME NEW n \in Nat \ {0}
    PROVE  /\ DocumentedBackoff(n) \in Nat
           /\ NextBackoff(DocumentedBackoff(n)) = DocumentedBackoff(n + 1)
<1> DEFINE p == 2 ^ (n - 1)
<1>1. p \in Nat /\ 2 ^ n = 2 * p
  BY PowerDoubles
<1>2. n = 1 => p = 1
  BY PowerZero
<1>3. DocumentedBackoff(n) = IF n = 1 THEN InitialBackoff ELSE Least(InitialBackoff * p, MaxBackoff)
  BY DEF DocumentedBackoff
<1>4. DocumentedBackoff(n + 1) = Least(InitialBackoff * (2 * p), MaxBackoff)
  BY <1>1 DEF DocumentedBackoff
<1> HIDE DEF p
<1> DEFINE q == InitialBackoff * p
<1>5. q \in Nat /\ InitialBackoff * (2 * p) = 2 * q /\ (n = 1 => q = InitialBackoff)
  BY <1>1, <1>2, PolicyAssumption
<1> HIDE DEF q
<1> QED
  BY <1>3, <1>4, <1>5, PolicyAssumption DEF NextBackoff, Least, q

----------------------------------------------------------------------------
(* The loop                                                                *)

\* The strengthening: where a sleep was cut short it ends exactly at the
\* deadline, and the clock never runs further past the timer under way than the
\* timer may be late.
RetryInv ==
    /\ TypeOK
    /\ attempt <= Attempts
    /\ pc = "done" <=> result # "none"
    /\ now <= TotalTimeout + MaxLag
    /\ pc = "sleeping" =>
         /\ attempt < Attempts
         /\ wake <= TotalTimeout
         /\ wake = failedAt + sleepFor
         /\ now <= wake + MaxLag
         /\ sleepFor <= backoff
         /\ sleepFor < backoff => wake = TotalTimeout
    /\ VerdictJustified

LEMMA AttemptsType == Attempts \in Nat /\ Attempts >= 1
BY PolicyAssumption DEF Attempts

\* The initial state satisfies the strengthening.
LEMMA RetryInit == Init => RetryInv
BY PolicyAssumption, AttemptsType
   DEF Init, RetryInv, TypeOK, Results, VerdictJustified

\* Every step of the loop preserves it.
LEMMA RetryStep == RetryInv /\ [Next]_vars => RetryInv'
<1> USE PolicyAssumption, AttemptsType DEF RetryInv, TypeOK, Results, VerdictJustified
<1> SUFFICES ASSUME RetryInv, [Next]_vars PROVE RetryInv'
  OBVIOUS
<1>1. CASE Tick
  BY <1>1 DEF Tick
<1>2. CASE AttemptOk
  BY <1>2 DEF AttemptOk, Return
<1>3. CASE AttemptPermanent
  BY <1>3 DEF AttemptPermanent, Return
<1>4. CASE AttemptTransient
  <2>1. CASE now >= TotalTimeout
    BY <1>4, <2>1 DEF AttemptTransient, Return
  <2>2. CASE now < TotalTimeout
    <3>1. /\ SleepFor \in Nat
          /\ SleepFor <= backoff
          /\ now + SleepFor <= TotalTimeout
          /\ SleepFor < backoff => now + SleepFor = TotalTimeout
      BY <2>2 DEF SleepFor, Least
    <3> QED
      BY <1>4, <2>2, <3>1 DEF AttemptTransient
  <2> QED
    BY <2>1, <2>2
<1>5. CASE AttemptLast
  <2>1. attempt = Attempts
    BY <1>5 DEF AttemptLast
  <2>2. attempt > 1 => Attempts = MaxAttempts
    BY <2>1 DEF Attempts
  <2> QED
    BY <1>5, <2>1, <2>2 DEF AttemptLast, Return
<1>6. CASE AttemptTimeout
  BY <1>6 DEF AttemptTimeout, Return
<1>7. CASE Wake
  <2>1. CASE sleepFor < backoff
    BY <1>7, <2>1 DEF Wake, Return
  <2>2. CASE ~ (sleepFor < backoff)
    <3>1. NextBackoff(backoff) \in Nat
      BY DEF NextBackoff, Least
    <3> QED
      BY <1>7, <2>2, <3>1 DEF Wake
  <2> QED
    BY <2>1, <2>2
<1>8. CASE Done
  BY <1>8 DEF Done, vars
<1>9. CASE UNCHANGED vars
  BY <1>9 DEF vars
<1> QED
  BY <1>1, <1>2, <1>3, <1>4, <1>5, <1>6, <1>7, <1>8, <1>9 DEF Next, Loop

LEMMA RetryInvariant == Spec => []RetryInv
BY RetryInit, RetryStep, PTL DEF Spec

\* The loop's backoff is the documented one, so that the sleep before a retry, which
\* was not cut short, is as long as documented.
BackoffInv ==
    /\ backoff = DocumentedBackoff(attempt)
    /\ BackoffRespected

LEMMA BackoffStep == RetryInv /\ BackoffInv /\ [Next]_vars => BackoffInv'
<1> SUFFICES ASSUME RetryInv, BackoffInv, [Next]_vars PROVE BackoffInv'
  OBVIOUS
<1>1. ASSUME UNCHANGED <<attempt, backoff>>,
             \/ pc' # "attempting"
             \/ pc = "attempting" /\ failedAt' = failedAt /\ now' >= now
      PROVE  BackoffInv'
  <2>1. attempt \in Nat \ {0} /\ now \in Nat /\ failedAt \in Nat
    BY DEF RetryInv, TypeOK
  <2>2. attempt > 1 => DocumentedBackoff(attempt - 1) \in Nat
    BY <2>1, BackoffFollows
  <2>3. DocumentedBackoff(attempt') = DocumentedBackoff(attempt)
        /\ DocumentedBackoff(attempt' - 1) = DocumentedBackoff(attempt - 1)
    BY <1>1
  <2>4. now' \in Nat
    BY RetryStep DEF RetryInv, TypeOK
  <2> QED
    BY <1>1, <2>1, <2>2, <2>3, <2>4 DEF BackoffInv, BackoffRespected
<1>2. CASE Tick
  <2>1. now' >= now
    BY <1>2 DEF Tick, RetryInv, TypeOK
  <2> QED
    BY <1>1, <1>2, <2>1 DEF Tick
<1>3. CASE AttemptOk \/ AttemptPermanent \/ AttemptTransient \/ AttemptLast \/ AttemptTimeout
  BY <1>1, <1>3 DEF AttemptOk, AttemptPermanent, AttemptTransient, AttemptLast,
                    AttemptTimeout, Return
<1>4. CASE Wake
  <2>1. CASE sleepFor < backoff
    BY <1>1, <1>4, <2>1 DEF Wake, Return
  <2>2. CASE ~(sleepFor < backoff)
    <3>1. /\ attempt \in Nat \ {0} /\ backoff \in Nat /\ sleepFor \in Nat
          /\ now >= failedAt + backoff
      BY <1>4, <2>2 DEF Wake, RetryInv, TypeOK
    <3>2. attempt' = attempt + 1 /\ backoff' = NextBackoff(backoff) /\ UNCHANGED <<now, failedAt>>
      BY <1>4, <2>2 DEF Wake
    <3>3. attempt' - 1 = attempt
      BY <3>1, <3>2
    <3>4. backoff' = DocumentedBackoff(attempt')
      BY <3>1, <3>2, BackoffFollows DEF BackoffInv
    <3> QED
      BY <3>1, <3>2, <3>3, <3>4 DEF BackoffInv, BackoffRespected
  <2> QED
    BY <2>1, <2>2
<1>5. CASE Done \/ UNCHANGED vars
  <2>1. now' >= now
    BY <1>5 DEF Done, vars, RetryInv, TypeOK
  <2> QED
    BY <1>1, <1>5, <2>1 DEF Done, vars, BackoffInv, BackoffRespected
<1> QED
  BY <1>2, <1>3, <1>4, <1>5 DEF Next, Loop

LEMMA BackoffInit == Init => BackoffInv
BY DEF Init, BackoffInv, BackoffRespected, DocumentedBackoff

\* The loop's variables always have their types (proxy.rs:161-224).
THEOREM TypeCorrect == Spec => []TypeOK
<1>1. RetryInv => TypeOK
  BY DEF RetryInv
<1> QED
  BY <1>1, RetryInvariant, PTL

\* For every policy, the call runs past its deadline by at most the lateness of
\* one timer (proxy.rs:114, "Deadline covering connection attempts and sleeps
\* between them").
THEOREM DeadlineTheorem == Spec => []DeadlineHonoured
<1>1. RetryInv => DeadlineHonoured
  BY DEF RetryInv, DeadlineHonoured
<1> QED
  BY <1>1, RetryInvariant, PTL

\* For every policy, the call gives up for the reason it reports.
THEOREM VerdictTheorem == Spec => []VerdictJustified
<1>1. RetryInv => VerdictJustified
  BY DEF RetryInv
<1> QED
  BY <1>1, RetryInvariant, PTL

\* For every policy, no more attempts are started than it allows.
THEOREM AttemptsTheorem == Spec => []AttemptsBounded
<1>1. RetryInv => AttemptsBounded
  BY DEF RetryInv, AttemptsBounded
<1> QED
  BY <1>1, RetryInvariant, PTL

\* For every policy, an attempt after the first starts no sooner than the whole
\* backoff documented for it after the failure before: the initial one, doubled
\* from retry to retry, and capped (proxy.rs:110, 131-133,
\* 191-216).
THEOREM BackoffTheorem == Spec => []BackoffRespected
<1>1. BackoffInv => BackoffRespected
  BY DEF BackoffInv
<1> QED
  BY <1>1, BackoffInit, BackoffStep, RetryInit, RetryStep, PTL DEF Spec

----------------------------------------------------------------------------
(* The relay                                                               *)

\* Until the relay is started, whatever the parent has open besides its standard
\* descriptors closes on exec; the pair is made so.
TableInv ==
    /\ fds \in [Fds -> Contents]
    /\ mode = "fdpass" /\ parent \in {"started", "paired"} =>
         \A fd \in Fds \ Std : fds[fd] # "free" => fd \in cloexec
    /\ mode = "stdio" => parent = "none"
    /\ RelayHoldsItsEndOnly

LEMMA RelayFdIsOne == RelayFd \in Fds \ Std
BY FdAssumption DEF RelayFd, Fds, Std

LEMMA TableInit == FdPassInit => TableInv
<1> SUFFICES ASSUME FdPassInit PROVE TableInv
  OBVIOUS
<1>1. CASE mode = "fdpass"
  <2>1. relay = "none"
    BY <1>1 DEF FdPassInit
  <2>2. PICK busy \in SUBSET (3 .. TopFd - 2) :
           /\ fds = [fd \in Fds |-> IF fd \in Std \cup busy THEN "other" ELSE "free"]
           /\ cloexec = busy
    BY <1>1 DEF FdPassInit
  <2> QED
    BY <1>1, <2>1, <2>2 DEF TableInv, RelayHoldsItsEndOnly, Contents
<1>2. CASE mode = "stdio"
  BY <1>2 DEF FdPassInit, TableInv, RelayHoldsItsEndOnly, NoFds, Contents
<1> QED
  BY <1>1, <1>2 DEF FdPassInit

\* The exec is where the two flags matter: everything but the relay's end closes.
LEMMA SpawnRelayStep == TableInv /\ SpawnRelay => TableInv'
<1> SUFFICES ASSUME TableInv, SpawnRelay PROVE TableInv'
  OBVIOUS
<1>1. /\ parent = "paired" /\ parent' = "spawned" /\ mode' = mode
      /\ relayFds' = Execs /\ fds' = fds
  BY DEF SpawnRelay
<1>2. ASSUME mode = "fdpass", NEW fd \in Fds \ Std
      PROVE  Execs[fd] # "free" <=> fd = RelayFd
  BY <1>1, <1>2 DEF Execs, TableInv
<1>3. mode = "fdpass" => {fd \in Fds \ Std : Execs[fd] # "free"} = {RelayFd}
  BY <1>2, RelayFdIsOne
<1> QED
  BY <1>1, <1>3 DEF TableInv, RelayHoldsItsEndOnly

\* A relay's table changes in no other way, but to be emptied when it ends.
LEMMA TableStep == TableInv /\ [FdPassNext]_fdPassVars => TableInv'
<1> USE DEF TableInv, RelayHoldsItsEndOnly
<1> SUFFICES ASSUME TableInv, [FdPassNext]_fdPassVars PROVE TableInv'
  OBVIOUS
<1>1. CASE Socketpair
  <2> DEFINE forSsh == Lowest(fds)
             rest == [fds EXCEPT ![forSsh] = "sshEnd"]
             forChild == Lowest(rest)
  <2>1. /\ parent = "started" /\ mode' = mode /\ relay' = relay /\ relayFds' = relayFds
        /\ fds' = [rest EXCEPT ![forChild] = "relayEnd"]
        /\ cloexec' = cloexec \cup {forSsh, forChild}
    BY <1>1 DEF Socketpair
  <2>2. ASSUME NEW fd \in Fds \ Std, mode = "fdpass", fds'[fd] # "free"
        PROVE  fd \in cloexec'
    <3>1. fd = forSsh \/ fd = forChild \/ fds'[fd] = fds[fd]
      BY <2>1 DEF Contents
    <3> QED
      BY <2>1, <2>2, <3>1
  <2>3. fds' \in [Fds -> Contents]
    BY <2>1 DEF Contents
  <2>4. RelayHoldsItsEndOnly'
    BY <2>1
  <2>5. mode' # "stdio"
    BY <2>1
  <2>6. mode' = "fdpass" => \A fd \in Fds \ Std : fds'[fd] # "free" => fd \in cloexec'
    BY <2>1, <2>2
  <2> HIDE DEF RelayHoldsItsEndOnly, forSsh, rest, forChild
  <2> QED
    BY <2>3, <2>4, <2>5, <2>6
<1>2. CASE SpawnRelay
  BY <1>2, SpawnRelayStep
<1>3. CASE DropForChild
  BY <1>3 DEF DropForChild, Contents
<1>4. CASE SendFd
  BY <1>4 DEF SendFd, tableVars
<1>5. CASE ParentExits
  BY <1>5 DEF ParentExits, NoFds, Contents
<1>6. CASE SshCloses
  BY <1>6 DEF SshCloses, tableVars
<1>7. CASE Relay
  BY <1>7 DEF Relay, Loads, LoadFails, Connects, ConnectStep, ConnectEnds, UpEof,
              UpFails, StdinEnds, PumpEnds, RelayExits, RelayRest
<1>8. CASE ConnLost \/ RemoteEnds
  BY <1>8 DEF ConnLost, RemoteEnds, RelayRest
<1>9. CASE RelayKilled
  BY <1>9 DEF RelayKilled, RelayExits, RelayRest
<1>10. CASE UNCHANGED fdPassVars
  BY <1>10 DEF fdPassVars, processVars, tableVars
<1> QED
  BY <1>1, <1>2, <1>3, <1>4, <1>5, <1>6, <1>7, <1>8, <1>9, <1>10 DEF FdPassNext, Parent

\* The relay of an fdpass starts with its end of the pair on descriptor 3 and no
\* other but the standard ones, whatever descriptors the parent had in use and
\* wherever the pair landed (fdpass.rs:60-86, 115-120).
THEOREM RelayEndTheorem == FdPassSpec => []RelayHoldsItsEndOnly
<1>1. TableInv => RelayHoldsItsEndOnly
  BY DEF TableInv
<1> QED
  BY <1>1, TableInit, TableStep, PTL DEF FdPassSpec

\* No step is one that Retry does not take.
LEMMA ConnectStepIsRetrys == [FdPassNext]_fdPassVars => [Next]_vars
<1> SUFFICES ASSUME FdPassNext \/ UNCHANGED fdPassVars PROVE Next \/ UNCHANGED vars
  OBVIOUS
<1>1. CASE Parent
  BY <1>1 DEF Parent, Socketpair, SpawnRelay, DropForChild, SendFd, ParentExits
<1>2. CASE SshCloses
  BY <1>2 DEF SshCloses
<1>3. CASE Connects
  BY <1>3 DEF Connects, ConnectStep, Next
<1>4. CASE Relay /\ ~Connects
  BY <1>4 DEF Relay, Loads, LoadFails, ConnectEnds, UpEof, UpFails, StdinEnds, PumpEnds
<1>5. CASE ConnLost \/ RemoteEnds \/ RelayKilled
  BY <1>5 DEF ConnLost, RemoteEnds, RelayKilled
<1>6. CASE UNCHANGED fdPassVars
  BY <1>6 DEF fdPassVars
<1> QED
  BY <1>1, <1>2, <1>3, <1>4, <1>5, <1>6 DEF FdPassNext

\* Whatever ssh, the parent and the relay do, connecting takes the steps of
\* retry_with_backoff and no others (fdpass.rs:104, forward.rs:26).
THEOREM ConnectIsRetry == FdPassSpec => Init /\ [][Next]_vars
<1>1. FdPassInit => Init
  BY DEF FdPassInit
<1>2. [FdPassNext]_fdPassVars => [Next]_vars
  BY ConnectStepIsRetrys
<1> QED
  BY <1>1, <1>2, PTL DEF FdPassSpec

\* The relay's loop is under Retry's invariant, whatever is around it.
LEMMA ConnectInv == FdPassSpec => [](RetryInv /\ BackoffInv)
<1>1. RetryInv /\ BackoffInv /\ [Next]_vars => RetryInv' /\ BackoffInv'
  BY RetryStep, BackoffStep
<1> QED
  BY <1>1, RetryInit, BackoffInit, ConnectIsRetry, PTL

\* A relay connects within its deadline, in the rhythm documented for it, and fails for
\* the reason it reports, whatever ssh and its parent do (proxy.rs:229-247).
THEOREM RelayConnects ==
    FdPassSpec => [](DeadlineHonoured /\ BackoffRespected /\ VerdictJustified)
<1>1. RetryInv /\ BackoffInv => DeadlineHonoured /\ BackoffRespected /\ VerdictJustified
  BY DEF RetryInv, DeadlineHonoured, BackoffInv
<1> QED
  BY <1>1, ConnectInv, PTL

\* There is a lowest descriptor that is free when one is.
LEMMA LowestIsFree ==
    ASSUME NEW table, NEW top \in Fds, table[top] = "free"
    PROVE  Lowest(table) \in Fds /\ table[Lowest(table)] = "free" /\ Lowest(table) <= top
<1> DEFINE free == {fd \in Fds : table[fd] = "free"}
<1>1. free \subseteq Nat /\ free # {} /\ top \in free
  BY FdAssumption DEF Fds
<1>2. PICK fd \in free : \A e \in free : ~ (<<e, fd>> \in OpToRel(<, Nat))
  <2> HIDE DEF free
  <2> QED
    BY <1>1, WFMin, NatLessThanWellFounded, Zenon
<1>3. ASSUME NEW e \in Fds, e < fd PROVE table[e] # "free"
  <2>1. e \in Nat /\ fd \in Nat
    BY <1>1, FdAssumption DEF Fds
  <2>2. <<e, fd>> \in OpToRel(<, Nat)
    BY <1>3, <2>1 DEF OpToRel
  <2> QED
    BY <1>2, <2>2
<1>4. fd \in Fds /\ table[fd] = "free"
  OBVIOUS
<1>5. Lowest(table) \in Fds /\ table[Lowest(table)] = "free"
      /\ \A e \in Fds : e < Lowest(table) => table[e] # "free"
  BY <1>3, <1>4 DEF Lowest
<1> QED
  BY <1>5, FdAssumption DEF Fds

\* The types, and room in the table for both ends of the pair.
RoomInv ==
    /\ FdPassTypeOK
    /\ parent = "started" => fds[TopFd - 1] = "free" /\ fds[TopFd] = "free"

LEMMA RoomInit == FdPassInit => RoomInv
<1> SUFFICES ASSUME FdPassInit PROVE RoomInv
  OBVIOUS
<1>1. RetryInv
  BY RetryInit DEF FdPassInit
<1>2. NoFds \in [Fds -> Contents]
  BY DEF NoFds, Contents
<1>3. relayFds \in [Fds -> Contents]
  BY <1>2 DEF FdPassInit, Contents
<1>4. PICK busy \in SUBSET (3 .. TopFd - 2) :
        /\ fds = IF mode = "stdio" THEN NoFds
                 ELSE [fd \in Fds |-> IF fd \in Std \cup busy THEN "other" ELSE "free"]
        /\ cloexec = IF mode = "stdio" THEN {} ELSE busy
  BY DEF FdPassInit
<1>5. fds \in [Fds -> Contents] /\ cloexec \subseteq Fds
  <2>1. [fd \in Fds |-> IF fd \in Std \cup busy THEN "other" ELSE "free"] \in [Fds -> Contents]
    BY DEF Contents
  <2>2. busy \subseteq Fds
    BY FdAssumption DEF Fds
  <2>3. CASE mode = "stdio"
    BY <1>2, <1>4, <2>3
  <2>4. CASE mode # "stdio"
    BY <1>4, <2>1, <2>2, <2>4
  <2> QED
    BY <2>3, <2>4
<1>6. parent = "started" => fds[TopFd - 1] = "free" /\ fds[TopFd] = "free"
  BY <1>4, FdAssumption DEF FdPassInit, Fds, Std
<1> QED
  BY <1>1, <1>3, <1>5, <1>6
     DEF RoomInv, FdPassTypeOK, FdPassInit, RetryInv, SshStates, ParentStates, RelayStates

LEMMA ParentTypes ==
    ASSUME RoomInv, TypeOK', Parent PROVE RoomInv'
<1> USE DEF RoomInv, FdPassTypeOK, SshStates, ParentStates, RelayStates
<1>1. CASE Socketpair
  <2> DEFINE forSsh == Lowest(fds)
             rest == [fds EXCEPT ![forSsh] = "sshEnd"]
             forChild == Lowest(rest)
  <2>1. TopFd - 1 \in Fds /\ TopFd \in Fds
    BY FdAssumption DEF Fds
  <2>2. fds[TopFd - 1] = "free" /\ fds[TopFd] = "free"
    BY <1>1 DEF Socketpair
  <2>3. forSsh \in Fds /\ forSsh <= TopFd - 1
    BY <2>1, <2>2, LowestIsFree
  <2>4. rest \in [Fds -> Contents] /\ rest[TopFd] = "free"
    BY <2>1, <2>2, <2>3, FdAssumption DEF Contents, Fds
  <2> HIDE DEF rest
  <2>5. forChild \in Fds
    BY <2>1, <2>4, LowestIsFree
  <2> HIDE DEF forSsh, forChild
  <2>6. fds' = [rest EXCEPT ![forChild] = "relayEnd"] /\ cloexec' = cloexec \cup {forSsh, forChild}
    BY <1>1 DEF Socketpair, rest, forSsh, forChild
  <2>7. fds' \in [Fds -> Contents] /\ cloexec' \subseteq Fds
    BY <2>3, <2>4, <2>5, <2>6 DEF Contents
  <2> QED
    BY <1>1, <2>7 DEF Socketpair, pumpVars
<1>2. CASE SpawnRelay
  <2>1. Execs \in [Fds -> Contents]
    BY DEF Execs, Contents
  <2> QED
    BY <1>2, <2>1 DEF SpawnRelay, pumpVars
<1>3. CASE DropForChild
  BY <1>3 DEF DropForChild, Contents, pumpVars
<1>4. CASE SendFd
  BY <1>4 DEF SendFd, tableVars, pumpVars
<1>5. CASE ParentExits
  <2>1. NoFds \in [Fds -> Contents]
    BY DEF NoFds, Contents
  <2> QED
    BY <1>5, <2>1 DEF ParentExits, pumpVars
<1> QED
  BY <1>1, <1>2, <1>3, <1>4, <1>5 DEF Parent

LEMMA RoomStep == RetryInv /\ RoomInv /\ [FdPassNext]_fdPassVars => RoomInv'
<1> SUFFICES ASSUME RetryInv, RoomInv, [FdPassNext]_fdPassVars PROVE RoomInv'
  OBVIOUS
<1> USE DEF RoomInv, FdPassTypeOK, SshStates, ParentStates, RelayStates
<1>1. TypeOK'
  BY ConnectStepIsRetrys, RetryStep DEF RetryInv
<1>2. NoFds \in [Fds -> Contents]
  BY DEF NoFds, Contents
<1>3. CASE Parent
  BY <1>1, <1>3, ParentTypes
<1>4. CASE SshCloses
  BY <1>1, <1>4 DEF SshCloses, tableVars, pumpVars
<1>5. CASE Relay \/ ConnLost \/ RemoteEnds \/ RelayKilled
  BY <1>1, <1>2, <1>5
     DEF Relay, Loads, LoadFails, Connects, ConnectStep, ConnectEnds, UpEof, UpFails,
         StdinEnds, PumpEnds, ConnLost, RemoteEnds, RelayKilled, RelayExits, RelayRest, pumpVars
<1>6. CASE UNCHANGED fdPassVars
  BY <1>1, <1>6 DEF fdPassVars, processVars, tableVars, pumpVars
<1> QED
  BY <1>3, <1>4, <1>5, <1>6 DEF FdPassNext

\* Processes, descriptor tables and copies keep their types, for any number of
\* descriptors; the table always has room for the pair (fdpass.rs:30-120).
THEOREM FdPassTypeCorrect == FdPassSpec => []FdPassTypeOK
<1>1. RoomInv => FdPassTypeOK
  BY DEF RoomInv
<1>2. RetryInv /\ RoomInv /\ [FdPassNext]_fdPassVars => RetryInv' /\ RoomInv'
  BY RoomStep, ConnectStepIsRetrys, RetryStep
<1>3. FdPassInit => RetryInv /\ RoomInv
  BY RoomInit, RetryInit DEF FdPassInit
<1> QED
  BY <1>1, <1>2, <1>3, PTL DEF FdPassSpec
============================================================================
