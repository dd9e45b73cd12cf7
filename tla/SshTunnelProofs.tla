-------------------------- MODULE SshTunnelProofs --------------------------
(***************************************************************************)
(* What SshTunnel guarantees for any number of invocations, keys and       *)
(* dials: nothing stays open behind a run, no connection is closed while   *)
(* pgx works on it, and the trust store trusts on first use.               *)
(***************************************************************************)
EXTENDS SshTunnel, FiniteSetTheorems, TLAPS

LEMMA AttemptsAreNumbers ==
  ASSUME NEW p \in Proc
  PROVE  Attempts(p) \subseteq Nat \ {0} /\ \A n \in Attempts(p) : n <= MaxAttempts[p]
  BY SshTunnelAssumption DEF Attempts

-----------------------------------------------------------------------------
(* The invariant, invocation by invocation *)

PcTypes == {"idle", "tcp", "handshake", "reload", "auth", "connect", "select",
            "startup", "session", "close", "done", "failed"}

DialTypes == {"none", "dialing", "conn", "err", "held", "done"}

\* The type of what an invocation keeps for itself.
OwnTypes(p) ==
  /\ pc[p] \in PcTypes
  /\ tunnel[p] \in {"none", "tcp", "open", "closed"}
  /\ attempt[p] \in 0..MaxAttempts[p]
  /\ dial[p] \in [Attempts(p) -> DialTypes]
  /\ abandoned[p] \subseteq Attempts(p)

Functions ==
  /\ pc \in [Proc -> PcTypes]
  /\ tunnel \in [Proc -> {"none", "tcp", "open", "closed"}]
  /\ DOMAIN attempt = Proc /\ DOMAIN dial = Proc /\ DOMAIN abandoned = Proc

\* A tunnel is opened by the steps before "auth" has passed, and no later one
\* leaves the run without closing it.
TunnelInv(p) ==
  /\ pc[p] \in {"idle", "tcp"} => tunnel[p] = "none"
  /\ pc[p] \in {"handshake", "reload", "auth"} => tunnel[p] = "tcp"
  /\ pc[p] \in {"done", "failed"} => tunnel[p] \in {"none", "closed"}

Held(p) == {a \in Attempts(p) : dial[p][a] = "held"}

\* pgx holds at most the connection of the last dial, and the dials that were
\* left to a goroutine are earlier ones as long as the last one is waited for
\* or in use.
DialInv(p) ==
  /\ abandoned[p] \subseteq 1..attempt[p]
  /\ pc[p] \in {"select", "startup", "session"} =>
       attempt[p] \in Attempts(p) /\ attempt[p] \notin abandoned[p]
  /\ pc[p] \in {"startup", "session"} => Held(p) = {attempt[p]}
  /\ pc[p] \notin {"startup", "session", "done", "failed"} => Held(p) = {}

Own(p) == OwnTypes(p) /\ TunnelInv(p) /\ DialInv(p)

IInv == Functions /\ \A p \in Proc : Own(p)

LEMMA InitInvariant == Init => IInv
  <1>. SUFFICES ASSUME Init PROVE IInv
    OBVIOUS
  <1>1. ASSUME NEW p \in Proc PROVE Own(p)
    <2>1. MaxAttempts[p] \in Nat
      BY SshTunnelAssumption
    <2>. QED
      BY <2>1 DEF Init, Own, OwnTypes, TunnelInv, DialInv, Held, PcTypes, DialTypes
  <1>. QED
    BY <1>1 DEF Init, IInv, Functions, PcTypes

-----------------------------------------------------------------------------
(* Steps of an invocation *)

\* A step of an invocation leaves the others alone.
Frame(p) ==
  \A q \in Proc \ {p} :
    /\ pc'[q] = pc[q] /\ tunnel'[q] = tunnel[q]
    /\ attempt'[q] = attempt[q] /\ dial'[q] = dial[q] /\ abandoned'[q] = abandoned[q]

Keeps(p) == Functions' /\ Frame(p) /\ Own(p)'

LEMMA KeepsIsEnough ==
  ASSUME IInv, NEW p \in Proc, Keeps(p)
  PROVE  IInv'
  <1>1. ASSUME NEW q \in Proc, q # p PROVE Own(q)'
    BY <1>1 DEF IInv, Keeps, Frame, Own, OwnTypes, TunnelInv, DialInv, Held
  <1>. QED
    BY <1>1 DEF IInv, Keeps

\* The steps up to the first dial; no connection is held yet, and none after.
LEMMA TunnelSteps ==
  ASSUME IInv, NEW p \in Proc,
         \/ LoadTrustStore(p) \/ PrepareFails(p) \/ OpenTcp(p) \/ Reload(p)
         \/ Authenticate(p) \/ HandshakeFails(p) \/ TunnelLost(p)
         \/ ConnectFails(p) \/ CloseTunnel(p) \/ Kill(p)
         \/ \E k \in Key : ExchangeKeys(p, k) \/ Rekey(p, k)
  PROVE  Keeps(p)
  <1>. USE DEF IInv, Functions, Own, Keeps, Frame, OwnTypes, TunnelInv, DialInv, Held,
               Go, keys, connecting, PcTypes
  <1>1. CASE LoadTrustStore(p)
    BY <1>1 DEF LoadTrustStore
  <1>2. CASE PrepareFails(p)
    BY <1>2 DEF PrepareFails
  <1>3. CASE OpenTcp(p)
    BY <1>3 DEF OpenTcp
  <1>4. CASE Reload(p)
    BY <1>4 DEF Reload
  <1>5. CASE Authenticate(p)
    BY <1>5 DEF Authenticate
  <1>6. CASE HandshakeFails(p)
    BY <1>6 DEF HandshakeFails, CloseTunnelOf
  <1>7. CASE TunnelLost(p)
    BY <1>7 DEF TunnelLost, CloseTunnelOf, Running, Ended
  <1>8. CASE ConnectFails(p)
    BY <1>8 DEF ConnectFails, CloseTunnelOf
  <1>9. CASE CloseTunnel(p)
    BY <1>9 DEF CloseTunnel, CloseTunnelOf
  <1>10. CASE Kill(p)
    BY <1>10 DEF Kill, CloseTunnelOf, Running, Ended
  <1>11. ASSUME NEW k \in Key, ExchangeKeys(p, k) PROVE Keeps(p)
    BY <1>11 DEF ExchangeKeys
  <1>12. ASSUME NEW k \in Key, Rekey(p, k) PROVE Keeps(p)
    BY <1>12 DEF Rekey
  <1>. QED
    BY <1>1, <1>2, <1>3, <1>4, <1>5, <1>6, <1>7, <1>8, <1>9, <1>10, <1>11, <1>12

\* What a change of one dial's result does.
LEMMA DialChanges ==
  ASSUME IInv, NEW p \in Proc, NEW a \in Attempts(p), NEW result \in DialTypes,
         DialBecomes(p, a, result)
  PROVE  /\ DOMAIN dial' = Proc
         /\ \A q \in Proc \ {p} : dial'[q] = dial[q]
         /\ dial'[p] \in [Attempts(p) -> DialTypes]
         /\ Held(p)' = IF result = "held" THEN Held(p) \cup {a} ELSE Held(p) \ {a}
  BY DEF IInv, Functions, Own, OwnTypes, DialBecomes, Held, DialTypes

LEMMA StartDialKeeps ==
  ASSUME IInv, NEW p \in Proc, StartDial(p)
  PROVE  Keeps(p)
  <1>1. attempt[p] \in Nat /\ MaxAttempts[p] \in Nat /\ attempt[p] < MaxAttempts[p]
    BY SshTunnelAssumption DEF IInv, Own, OwnTypes, StartDial
  <1>2. /\ attempt'[p] = attempt[p] + 1
        /\ \A q \in Proc \ {p} : attempt'[q] = attempt[q]
        /\ DOMAIN attempt' = Proc
    BY DEF StartDial, IInv, Functions
  <1>3. attempt'[p] \in Attempts(p)
    BY <1>1, <1>2 DEF Attempts
  <1>4. /\ DOMAIN dial' = Proc
        /\ \A q \in Proc \ {p} : dial'[q] = dial[q]
        /\ dial'[p] \in [Attempts(p) -> DialTypes]
        /\ Held(p)' = Held(p) \ {attempt'[p]}
    BY <1>3, DialChanges DEF StartDial, DialTypes
  <1>5. pc[p] = "connect" /\ Functions' /\ Frame(p)
    BY <1>2, <1>4 DEF StartDial, Go, IInv, Functions, Frame, PcTypes
  <1>6. OwnTypes(p)' /\ TunnelInv(p)'
    BY <1>1, <1>2, <1>4, <1>5 DEF StartDial, Go, IInv, Functions, Own, OwnTypes, TunnelInv, PcTypes
  <1>7. abandoned'[p] \subseteq 1..attempt[p] /\ Held(p)' = {}
    BY <1>4, <1>5 DEF StartDial, IInv, Own, DialInv
  <1>8. DialInv(p)'
    BY <1>1, <1>2, <1>3, <1>5, <1>7 DEF StartDial, Go, IInv, Functions, DialInv, Attempts
  <1>. QED
    BY <1>5, <1>6, <1>8 DEF Keeps, Own

\* A result that arrives, or that a goroutine throws away, is none that pgx
\* holds.
LEMMA ResultSteps ==
  ASSUME IInv, NEW p \in Proc, NEW a \in Attempts(p), Answer(p, a) \/ CleanUp(p, a)
  PROVE  Keeps(p)
  <1>. PICK result \in {"conn", "err", "done"} : DialBecomes(p, a, result)
    BY DEF Answer, CleanUp
  <1>1. /\ DOMAIN dial' = Proc
        /\ \A q \in Proc \ {p} : dial'[q] = dial[q]
        /\ dial'[p] \in [Attempts(p) -> DialTypes]
        /\ Held(p)' = Held(p) \ {a}
    BY DialChanges DEF DialTypes
  <1>2. a \notin Held(p)
    BY DEF Answer, CleanUp, Held
  <1>3. Held(p)' = Held(p) /\ UNCHANGED <<pc, tunnel, attempt, abandoned>>
    BY <1>1, <1>2 DEF Answer, CleanUp
  <1>4. Own(p)'
    BY <1>1, <1>3 DEF IInv, Own, OwnTypes, TunnelInv, DialInv
  <1>. QED
    BY <1>1, <1>3, <1>4 DEF Keeps, IInv, Functions, Frame

LEMMA TakeResultKeeps ==
  ASSUME IInv, NEW p \in Proc, TakeResult(p)
  PROVE  Keeps(p)
  <1>1. /\ pc[p] = "select" /\ attempt[p] \in Attempts(p)
        /\ attempt[p] \notin abandoned[p] /\ Held(p) = {}
    BY DEF TakeResult, IInv, Own, DialInv
  <1>2. UNCHANGED <<tunnel, attempt, abandoned>>
    BY DEF TakeResult
  <1>3. CASE Go(p, "startup") /\ DialBecomes(p, attempt[p], "held")
    <2>1. /\ DOMAIN dial' = Proc
          /\ \A q \in Proc \ {p} : dial'[q] = dial[q]
          /\ dial'[p] \in [Attempts(p) -> DialTypes]
          /\ Held(p)' = {attempt[p]}
      BY <1>1, <1>3, DialChanges DEF DialTypes
    <2>. QED
      BY <1>1, <1>2, <1>3, <2>1
      DEF Keeps, IInv, Functions, Frame, Own, OwnTypes, TunnelInv, DialInv, Go, PcTypes
  <1>4. CASE Go(p, "connect") /\ DialBecomes(p, attempt[p], "done")
    <2>1. /\ DOMAIN dial' = Proc
          /\ \A q \in Proc \ {p} : dial'[q] = dial[q]
          /\ dial'[p] \in [Attempts(p) -> DialTypes]
          /\ Held(p)' = {}
      BY <1>1, <1>4, DialChanges DEF DialTypes
    <2>. QED
      BY <1>1, <1>2, <1>4, <2>1
      DEF Keeps, IInv, Functions, Frame, Own, OwnTypes, TunnelInv, DialInv, Go, PcTypes
  <1>. QED
    BY <1>3, <1>4 DEF TakeResult, ResultsFor

\* The caller leaves: its dial is the last one, and is not waited for now.
LEMMA AbandonKeeps ==
  ASSUME IInv, NEW p \in Proc, Abandon(p)
  PROVE  Keeps(p)
  <1>1. attempt[p] \in Attempts(p) /\ attempt[p] \in 1..attempt[p] /\ Held(p) = {}
    BY AttemptsAreNumbers DEF Abandon, IInv, Own, DialInv
  <1>2. abandoned'[p] = abandoned[p] \cup {attempt[p]}
    BY DEF Abandon, IInv, Functions
  <1>. QED
    BY <1>1, <1>2
    DEF Abandon, Keeps, IInv, Functions, Frame, Own, OwnTypes, TunnelInv, DialInv, Held, Go, PcTypes

\* The connection of the last dial becomes a session, or is closed.
LEMMA SessionSteps ==
  ASSUME IInv, NEW p \in Proc, StartSession(p) \/ StartupFails(p) \/ CloseConn(p)
  PROVE  Keeps(p)
  <1>1. CASE StartSession(p)
    BY <1>1
    DEF StartSession, Keeps, IInv, Functions, Frame, Own, OwnTypes, TunnelInv, DialInv, Held, Go,
        keys, connecting, PcTypes
  <1>2. CASE StartupFails(p) \/ CloseConn(p)
    <2>1. attempt[p] \in Attempts(p) /\ Held(p) = {attempt[p]}
      BY <1>2 DEF StartupFails, CloseConn, IInv, Own, DialInv
    <2>2. /\ DOMAIN dial' = Proc
          /\ \A q \in Proc \ {p} : dial'[q] = dial[q]
          /\ dial'[p] \in [Attempts(p) -> DialTypes]
          /\ Held(p)' = {}
      BY <1>2, <2>1, DialChanges DEF StartupFails, CloseConn, DialTypes
    <2>3. UNCHANGED <<tunnel, attempt, abandoned>> /\ (Go(p, "connect") \/ Go(p, "close"))
      BY <1>2 DEF StartupFails, CloseConn
    <2>. QED
      BY <1>2, <2>2, <2>3
      DEF StartupFails, CloseConn, Keeps, IInv, Functions, Frame, Own, OwnTypes, TunnelInv, DialInv,
          Go, PcTypes
  <1>. QED
    BY <1>1, <1>2

\* Signals and timers.
LEMMA ContextSteps ==
  ASSUME IInv, NEW p \in Proc, Cancel(p) \/ Expire(p)
  PROVE  Keeps(p)
  BY DEF Cancel, Expire, Keeps, IInv, Functions, Frame, Own, OwnTypes, TunnelInv, DialInv, Held,
         keys, connecting

LEMMA NextKeeps == IInv /\ [Next]_vars => IInv'
  <1>. SUFFICES ASSUME IInv, [Next]_vars PROVE IInv'
    OBVIOUS
  <1>1. CASE UNCHANGED vars
    BY <1>1 DEF vars, connecting, IInv, Functions, Own, OwnTypes, TunnelInv, DialInv, Held
  <1>2. CASE Next
    <2>. PICK p \in Proc :
           \/ LoadTrustStore(p) \/ OwnStep(p) \/ PeerStep(p)
           \/ \E a \in Attempts(p) : CleanUp(p, a)
           \/ CloseConn(p)
           \/ Cancel(p) \/ Expire(p) \/ Kill(p)
      BY <1>2 DEF Next
    <2>1. Keeps(p)
      BY TunnelSteps, StartDialKeeps, ResultSteps, TakeResultKeeps, AbandonKeeps, SessionSteps,
         ContextSteps
      DEF OwnStep, PeerStep
    <2>. QED
      BY <2>1, KeepsIsEnough
  <1>. QED
    BY <1>1, <1>2

-----------------------------------------------------------------------------
(* The trust store *)

Active(p) == pc[p] \notin {"idle", "done", "failed"}

\* What an invocation knows of the store is its beginning; whoever has got
\* through a key exchange knows a key.
StoreInv(p) ==
  /\ view[p] # <<>> => trust # <<>> /\ Head(view[p]) = Head(trust)
  /\ accepted[p] \subseteq ToSet(trust)
  /\ knew[p] => view[p] # <<>> /\ accepted[p] \subseteq {Head(trust)}
  /\ pc[p] \in {"idle", "tcp", "handshake"} => accepted[p] = {}
  /\ pc[p] = "reload" => trust # <<>>
  /\ pc[p] = "auth" \/ tunnel[p] = "open" => view[p] # <<>>

StoreTypes ==
  /\ trust \in Seq(Key)
  /\ view \in [Proc -> Seq(Key)]
  /\ knew \in [Proc -> BOOLEAN]
  /\ accepted \in [Proc -> SUBSET Key]

\* Those that may have added a line.
Newcomers == {p \in Proc : pc[p] # "idle" /\ ~knew[p] /\ accepted[p] # {}}

\* Each line was added by another invocation, or the only one was there before
\* and everybody knows it.
LinesInv ==
  \/ Len(trust) <= Cardinality(Newcomers)
  \/ Len(trust) = 1 /\ \A p \in Proc : Active(p) => knew[p]

TInv == StoreTypes /\ LinesInv /\ \A p \in Proc : StoreInv(p)

LEMMA NewcomersFinite == IsFiniteSet(Newcomers) /\ Cardinality(Newcomers) \in Nat
  BY SshTunnelAssumption, FS_Subset, FS_CardinalityType DEF Newcomers

LEMMA InitStore == Init => TInv
  <1>. SUFFICES ASSUME Init PROVE TInv
    OBVIOUS
  <1>1. trust \in Seq(Key) /\ (trust = <<>> \/ Len(trust) = 1)
    <2>1. CASE trust = <<>>
      BY <2>1
    <2>2. ASSUME NEW k \in Key, trust = <<k>> PROVE trust \in Seq(Key) /\ Len(trust) = 1
      BY <2>2
    <2>. QED
      BY <2>1, <2>2 DEF Init
  <1>2. StoreTypes /\ \A p \in Proc : StoreInv(p) /\ ~Active(p)
    BY <1>1 DEF Init, StoreTypes, StoreInv, Active
  <1>3. LinesInv
    <2>1. CASE trust = <<>>
      BY <2>1, NewcomersFinite DEF LinesInv
    <2>2. CASE Len(trust) = 1
      BY <2>2, <1>2 DEF LinesInv
    <2>. QED
      BY <1>1, <2>1, <2>2
  <1>. QED
    BY <1>2, <1>3 DEF TInv

\* Steps that leave the store and what is known of it alone: from the first key
\* exchange on they lead away from it.
Quiet ==
  /\ UNCHANGED keys
  /\ \A p \in Proc :
       /\ pc'[p] # pc[p] =>
            /\ pc[p] = "idle" => pc'[p] = "failed"
            /\ ~Ended(p)
            /\ pc'[p] = "handshake" => pc[p] = "tcp"
            /\ pc'[p] \notin {"idle", "tcp", "reload", "auth"}
       /\ tunnel'[p] = "open" => tunnel[p] = "open" \/ pc[p] = "auth"

LEMMA QuietKeeps ==
  ASSUME TInv, Quiet
  PROVE  TInv'
  <1>1. UNCHANGED <<trust, view, knew, accepted>>
    BY DEF Quiet, keys
  <1>2. StoreTypes' /\ \A p \in Proc : StoreInv(p)'
    BY <1>1 DEF Quiet, TInv, StoreTypes, StoreInv
  <1>3. Newcomers' = Newcomers
    <2>1. ASSUME NEW p \in Proc
          PROVE  pc'[p] # "idle" /\ accepted[p] # {} <=> pc[p] # "idle" /\ accepted[p] # {}
      BY DEF Quiet, TInv, StoreInv
    <2>. QED
      BY <1>1, <2>1 DEF Newcomers
  <1>4. LinesInv'
    <2>1. \A p \in Proc : Active(p)' => Active(p)
      BY DEF Quiet, Active, Ended
    <2>. QED
      BY <1>1, <1>3, <2>1 DEF LinesInv, TInv
  <1>. QED
    BY <1>2, <1>4 DEF TInv

\* All steps but those of the trust store.
LEMMA QuietSteps ==
  ASSUME IInv, NEW p \in Proc,
         \/ PrepareFails(p) \/ OpenTcp(p) \/ Authenticate(p) \/ HandshakeFails(p)
         \/ TunnelLost(p) \/ StartDial(p) \/ TakeResult(p) \/ Abandon(p)
         \/ StartSession(p) \/ StartupFails(p) \/ ConnectFails(p) \/ CloseConn(p)
         \/ CloseTunnel(p) \/ Cancel(p) \/ Expire(p) \/ Kill(p)
         \/ \E a \in Attempts(p) : Answer(p, a) \/ CleanUp(p, a)
  PROVE  Quiet
  <1>. USE DEF IInv, Functions, Quiet, Go, Ended, keys
  <1>1. CASE PrepareFails(p) \/ OpenTcp(p) \/ Authenticate(p)
    BY <1>1 DEF PrepareFails, OpenTcp, Authenticate
  <1>2. CASE HandshakeFails(p) \/ TunnelLost(p) \/ ConnectFails(p) \/ CloseTunnel(p) \/ Kill(p)
    BY <1>2 DEF HandshakeFails, TunnelLost, ConnectFails, CloseTunnel, Kill, CloseTunnelOf, Running
  <1>3. CASE StartDial(p) \/ TakeResult(p) \/ Abandon(p)
    <2>1. /\ UNCHANGED <<keys, tunnel>> /\ pc[p] \in {"connect", "select"}
          /\ Go(p, "select") \/ Go(p, "startup") \/ Go(p, "connect")
      BY <1>3 DEF StartDial, TakeResult, Abandon
    <2>. QED
      BY <2>1
  <1>4. CASE StartSession(p) \/ StartupFails(p) \/ CloseConn(p)
    <2>1. /\ UNCHANGED <<keys, tunnel>> /\ pc[p] \in {"startup", "session"}
          /\ Go(p, "session") \/ Go(p, "connect") \/ Go(p, "close")
      BY <1>4 DEF StartSession, StartupFails, CloseConn
    <2>. QED
      BY <2>1
  <1>5. CASE Cancel(p) \/ Expire(p)
    BY <1>5 DEF Cancel, Expire
  <1>6. CASE \E a \in Attempts(p) : Answer(p, a) \/ CleanUp(p, a)
    BY <1>6 DEF Answer, CleanUp
  <1>. QED
    BY <1>1, <1>2, <1>3, <1>4, <1>5, <1>6

\* The store grows at its end.
LEMMA Appended ==
  ASSUME NEW k \in Key, trust \in Seq(Key), trust' = Append(trust, k)
  PROVE  /\ trust' \in Seq(Key) /\ trust' # <<>> /\ Len(trust') = Len(trust) + 1
         /\ k \in ToSet(trust)' /\ ToSet(trust) \subseteq ToSet(trust)'
         /\ trust # <<>> => Head(trust') = Head(trust)
  <1>1. /\ trust' \in Seq(Key) /\ Len(trust') = Len(trust) + 1 /\ DOMAIN trust' = 1..Len(trust) + 1
        /\ DOMAIN trust = 1..Len(trust) /\ Len(trust) \in Nat
        /\ \A i \in 1..Len(trust) : trust'[i] = trust[i]
        /\ trust'[Len(trust) + 1] = k
    OBVIOUS
  <1>2. trust # <<>> => Len(trust) > 0 /\ Head(trust) = trust[1] /\ Head(trust') = trust'[1]
    BY <1>1
  <1>. QED
    BY <1>1, <1>2 DEF ToSet

LEMMA LoadKeeps ==
  ASSUME IInv, TInv, NEW p \in Proc, LoadTrustStore(p)
  PROVE  TInv'
  <1>1. UNCHANGED <<trust, accepted, tunnel>> /\ pc[p] = "idle" /\ accepted[p] = {}
    BY DEF LoadTrustStore, TInv, StoreInv
  <1>2. /\ pc'[p] = "tcp" /\ view'[p] = trust /\ knew'[p] = (trust # <<>>)
        /\ \A q \in Proc \ {p} : pc'[q] = pc[q] /\ view'[q] = view[q] /\ knew'[q] = knew[q]
    BY DEF LoadTrustStore, Go, IInv, Functions, TInv, StoreTypes
  <1>3. StoreTypes'
    BY <1>1 DEF LoadTrustStore, TInv, StoreTypes
  <1>4. tunnel[p] = "none"
    BY <1>1 DEF IInv, Own, TunnelInv
  <1>5. \A q \in Proc : StoreInv(q)'
    BY <1>1, <1>2, <1>4 DEF TInv, StoreInv
  <1>6. Newcomers' = Newcomers
    BY <1>1, <1>2 DEF Newcomers
  <1>7. LinesInv'
    <2>1. CASE Len(trust) <= Cardinality(Newcomers)
      BY <1>1, <1>6, <2>1 DEF LinesInv
    <2>2. CASE Len(trust) = 1 /\ \A q \in Proc : Active(q) => knew[q]
      <3>1. trust # <<>>
        BY <2>2
      <3>. QED
        BY <1>1, <1>2, <2>2, <3>1 DEF LinesInv, Active
    <2>. QED
      BY <2>1, <2>2 DEF TInv, LinesInv
  <1>. QED
    BY <1>3, <1>5, <1>7 DEF TInv

LEMMA ReloadKeeps ==
  ASSUME IInv, TInv, NEW p \in Proc, Reload(p)
  PROVE  TInv'
  <1>1. UNCHANGED <<trust, accepted, knew, tunnel>> /\ pc[p] = "reload" /\ trust # <<>>
    BY DEF Reload, TInv, StoreInv
  <1>2. /\ pc'[p] = "auth" /\ view'[p] = trust
        /\ \A q \in Proc \ {p} : pc'[q] = pc[q] /\ view'[q] = view[q]
    BY DEF Reload, Go, IInv, Functions, TInv, StoreTypes
  <1>3. StoreTypes'
    BY <1>1 DEF Reload, TInv, StoreTypes
  <1>4. \A q \in Proc : StoreInv(q)'
    BY <1>1, <1>2 DEF TInv, StoreInv
  <1>5. Newcomers' = Newcomers /\ \A q \in Proc : Active(q)' <=> Active(q)
    BY <1>1, <1>2 DEF Newcomers, Active
  <1>6. LinesInv'
    BY <1>1, <1>5 DEF TInv, LinesInv
  <1>. QED
    BY <1>3, <1>4, <1>6 DEF TInv

\* A key that the store knows changes nothing but the history.
LEMMA KnownKeyKeeps ==
  ASSUME IInv, TInv, NEW p \in Proc, NEW k \in Key,
         HostKeyCallback(p, k), view[p] # <<>>, UNCHANGED <<view, knew, tunnel>>,
         pc[p] \notin {"idle", "tcp", "done", "failed"},
         \/ pc[p] # "handshake" /\ pc' = pc
         \/ pc'[p] = "auth" /\ \A q \in Proc \ {p} : pc'[q] = pc[q]
  PROVE  TInv'
  <1>1. Head(view[p]) = k /\ trust' = trust /\ trust # <<>> /\ Head(trust) = k
    BY DEF HostKeyCallback, Verdict, TInv, StoreInv
  <1>2. k \in ToSet(trust)
    <2>1. 1 \in DOMAIN trust /\ trust[1] = k
      BY <1>1 DEF TInv, StoreTypes
    <2>. QED
      BY <2>1 DEF ToSet
  <1>3. /\ accepted'[p] = accepted[p] \cup {k}
        /\ \A q \in Proc \ {p} : accepted'[q] = accepted[q] /\ pc'[q] = pc[q]
        /\ \/ pc[p] # "handshake" /\ pc'[p] = pc[p]
           \/ pc'[p] = "auth"
    BY DEF HostKeyCallback, IInv, Functions, TInv, StoreTypes
  <1>4. StoreTypes'
    BY <1>1 DEF HostKeyCallback, TInv, StoreTypes
  <1>5. \A q \in Proc : StoreInv(q)'
    BY <1>1, <1>2, <1>3 DEF TInv, StoreInv
  <1>6. Newcomers \subseteq Newcomers' /\ \A q \in Proc : Active(q)' => Active(q)
    BY <1>3 DEF Newcomers, Active, IInv, Functions
  <1>7. Cardinality(Newcomers) <= Cardinality(Newcomers')
    <2>1. IsFiniteSet(Newcomers')
      BY SshTunnelAssumption, FS_Subset DEF Newcomers
    <2>. QED
      BY <1>6, <2>1, FS_Subset
  <1>8. LinesInv'
    <2>1. Cardinality(Newcomers) \in Nat /\ Cardinality(Newcomers') \in Nat /\ Len(trust) \in Nat
      BY NewcomersFinite, SshTunnelAssumption, FS_Subset, FS_CardinalityType
      DEF Newcomers, TInv, StoreTypes
    <2>. QED
      BY <1>1, <1>6, <1>7, <2>1 DEF TInv, LinesInv
  <1>. QED
    BY <1>4, <1>5, <1>8 DEF TInv

\* The first key of a host that the invocation does not know: one line more,
\* and one newcomer more.
LEMMA FirstKeyKeeps ==
  ASSUME IInv, TInv, NEW p \in Proc, NEW k \in Key, ExchangeKeys(p, k), view[p] = <<>>
  PROVE  TInv'
  <1>1. /\ pc[p] = "handshake" /\ accepted[p] = {} /\ ~knew[p]
        /\ trust' = Append(trust, k) /\ Go(p, "reload") /\ UNCHANGED <<view, knew, tunnel>>
    BY DEF ExchangeKeys, HostKeyCallback, Verdict, TInv, StoreInv
  <1>2. /\ pc'[p] = "reload" /\ accepted'[p] = {k}
        /\ \A q \in Proc \ {p} : accepted'[q] = accepted[q] /\ pc'[q] = pc[q]
    BY <1>1 DEF ExchangeKeys, HostKeyCallback, Go, IInv, Functions, TInv, StoreTypes
  <1>3. /\ trust' \in Seq(Key) /\ trust' # <<>> /\ Len(trust') = Len(trust) + 1
        /\ k \in ToSet(trust)' /\ ToSet(trust) \subseteq ToSet(trust)'
        /\ trust # <<>> => Head(trust') = Head(trust)
    BY <1>1, Appended DEF TInv, StoreTypes
  <1>4. StoreTypes'
    BY <1>1, <1>3 DEF ExchangeKeys, HostKeyCallback, TInv, StoreTypes
  <1>5. ASSUME NEW q \in Proc PROVE StoreInv(q)'
    <2>1. CASE q = p
      BY <1>1, <1>2, <1>3, <2>1 DEF TInv, StoreInv
    <2>2. CASE q # p
      BY <1>1, <1>2, <1>3, <2>2 DEF TInv, StoreInv
    <2>. QED
      BY <2>1, <2>2
  <1>6. Newcomers' = Newcomers \cup {p} /\ p \notin Newcomers
    BY <1>1, <1>2 DEF Newcomers
  <1>7. Cardinality(Newcomers') = Cardinality(Newcomers) + 1
    BY <1>6, NewcomersFinite, FS_AddElement
  <1>8. Len(trust) <= Cardinality(Newcomers)
    BY <1>1 DEF TInv, LinesInv, Active
  <1>9. LinesInv'
    BY <1>3, <1>7, <1>8, NewcomersFinite DEF LinesInv, TInv, StoreTypes
  <1>. QED
    BY <1>4, <1>5, <1>9 DEF TInv

LEMMA StoreKeeps == IInv /\ TInv /\ [Next]_vars => TInv'
  <1>. SUFFICES ASSUME IInv, TInv, [Next]_vars PROVE TInv'
    OBVIOUS
  <1>1. CASE UNCHANGED vars
    <2>1. Quiet
      BY <1>1 DEF vars, Quiet
    <2>. QED
      BY <2>1, QuietKeeps
  <1>2. ASSUME NEW p \in Proc, NEW k \in Key, ExchangeKeys(p, k) PROVE TInv'
    <2>1. CASE view[p] = <<>>
      BY <1>2, <2>1, FirstKeyKeeps
    <2>2. CASE view[p] # <<>>
      <3>1. Verdict(view[p], k) = "known"
        BY <1>2, <2>2 DEF ExchangeKeys, HostKeyCallback, Verdict
      <3>2. HostKeyCallback(p, k) /\ pc[p] = "handshake" /\ Go(p, "auth") /\ UNCHANGED <<view, knew, tunnel>>
        BY <1>2, <3>1 DEF ExchangeKeys
      <3>3. pc'[p] = "auth" /\ \A q \in Proc \ {p} : pc'[q] = pc[q]
        BY <3>2 DEF Go, IInv, Functions
      <3>. QED
        BY <2>2, <3>2, <3>3, KnownKeyKeeps
    <2>. QED
      BY <2>1, <2>2
  <1>3. ASSUME NEW p \in Proc, NEW k \in Key, Rekey(p, k) PROVE TInv'
    <2>1. /\ tunnel[p] = "open" /\ view[p] # <<>>
          /\ pc[p] \notin {"idle", "tcp", "done", "failed", "handshake"}
      BY <1>3 DEF Rekey, TInv, StoreInv, IInv, Own, TunnelInv
    <2>2. Verdict(view[p], k) = "known"
      BY <1>3, <2>1 DEF Rekey, HostKeyCallback, Verdict
    <2>3. HostKeyCallback(p, k) /\ UNCHANGED <<view, knew, tunnel>> /\ pc' = pc
      BY <1>3, <2>2 DEF Rekey, TInv, StoreTypes
    <2>. QED
      BY <2>1, <2>3, KnownKeyKeeps
  <1>4. CASE Next
    <2>. PICK p \in Proc :
           \/ LoadTrustStore(p) \/ OwnStep(p) \/ PeerStep(p)
           \/ \E a \in Attempts(p) : CleanUp(p, a)
           \/ CloseConn(p)
           \/ Cancel(p) \/ Expire(p) \/ Kill(p)
      BY <1>4 DEF Next
    <2>. QED
      BY <1>2, <1>3, QuietSteps, QuietKeeps, LoadKeeps, ReloadKeeps DEF OwnStep, PeerStep
  <1>. QED
    BY <1>1, <1>4

-----------------------------------------------------------------------------
(* The theorems *)

\* Whatever fails, is cancelled or is killed in any run: its tunnel, and with
\* it every connection, is closed when it has ended.
THEOREM NothingStaysOpen == Spec => []EndedHoldsNothing
  <1>1. IInv => EndedHoldsNothing
    BY DEF IInv, Own, TunnelInv, EndedHoldsNothing, Ended
  <1>. QED
    BY <1>1, InitInvariant, NextKeeps, PTL DEF Spec

\* However many dials overlap, answer late or are left: pgx works on the last
\* one's connection, and no goroutine closes it.
THEOREM SessionKeepsConnection == Spec => []SessionOwnsItsConnection
  <1>1. IInv => SessionOwnsItsConnection
    BY DEF IInv, Own, DialInv, Held, SessionOwnsItsConnection
  <1>. QED
    BY <1>1, InitInvariant, NextKeeps, PTL DEF Spec

\* Whatever overlaps or is killed: an accepted key is in the trust store, an
\* invocation that found the host there accepts the first key only, and each of
\* the others leaves at most one line.
THEOREM FirstKeyIsTrusted == Spec => []TrustOnFirstUse
  <1>1. ASSUME TInv PROVE TrustOnFirstUse
    <2>. DEFINE others == {p \in Proc : pc[p] # "idle" /\ ~knew[p]}
    <2>1. \A p \in Proc : accepted[p] \subseteq ToSet(trust)
      BY <1>1 DEF TInv, StoreInv
    <2>2. \A p \in Proc : knew[p] => accepted[p] \subseteq {Head(trust)}
      BY <1>1 DEF TInv, StoreInv
    <2>3. IsFiniteSet(others)
      BY SshTunnelAssumption, FS_Subset
    <2>4. Cardinality(Newcomers) <= Cardinality(others) /\ Cardinality(others) \in Nat
      BY <2>3, FS_Subset, FS_CardinalityType DEF Newcomers
    <2>5. Len(trust) <= 1 \/ Len(trust) <= Cardinality(others)
      <3>1. Len(trust) \in Nat
        BY <1>1 DEF TInv, StoreTypes
      <3>2. CASE Len(trust) <= Cardinality(Newcomers)
        BY <2>4, <3>1, <3>2, NewcomersFinite
      <3>3. CASE Len(trust) = 1
        BY <3>3
      <3>. QED
        BY <1>1, <3>2, <3>3 DEF TInv, LinesInv
    <2>. QED
      BY <2>1, <2>2, <2>5 DEF TrustOnFirstUse
  <1>. QED
    BY <1>1, InitInvariant, NextKeeps, InitStore, StoreKeeps, PTL DEF Spec

Contexts == expired \in [Proc -> BOOLEAN] /\ cancelled \in [Proc -> BOOLEAN]

LEMMA ContextsTyped == Contexts /\ [Next]_vars => Contexts'
  <1>. SUFFICES ASSUME Contexts, [Next]_vars PROVE Contexts'
    OBVIOUS
  <1>1. CASE UNCHANGED <<expired, cancelled>>
    BY <1>1 DEF Contexts
  <1>2. CASE UNCHANGED vars
    BY <1>1, <1>2 DEF vars, connecting
  <1>3. ASSUME NEW p \in Proc, StartDial(p) \/ Expire(p) \/ Cancel(p) PROVE Contexts'
    BY <1>3 DEF Contexts, StartDial, Expire, Cancel, connecting
  <1>4. ASSUME NEW p \in Proc, OwnStep(p) PROVE Contexts'
    BY <1>1, <1>3, <1>4 DEF OwnStep, PrepareFails, Reload, TakeResult, Abandon, ConnectFails,
                            CloseTunnel, connecting
  <1>5. ASSUME NEW p \in Proc, PeerStep(p) PROVE Contexts'
    BY <1>1, <1>5 DEF PeerStep, OpenTcp, PrepareFails, ExchangeKeys, Rekey, Authenticate,
                      HandshakeFails, TunnelLost, Answer, StartSession, StartupFails, connecting
  <1>6. ASSUME NEW p \in Proc,
               \/ LoadTrustStore(p) \/ CloseConn(p) \/ Kill(p)
               \/ \E a \in Attempts(p) : CleanUp(p, a)
        PROVE  Contexts'
    BY <1>1, <1>6 DEF LoadTrustStore, CleanUp, CloseConn, Kill, connecting
  <1>. QED
    BY <1>2, <1>3, <1>4, <1>5, <1>6 DEF Next

\* Every variable keeps its type, and nobody has an open tunnel without knowing
\* the host's key.
THEOREM TypeCorrect == Spec => []TypeOK
  <1>1. IInv /\ TInv /\ Contexts => TypeOK
    BY DEF IInv, Functions, Own, OwnTypes, TInv, StoreTypes, StoreInv, Contexts, TypeOK, PcTypes,
           DialTypes
  <1>2. Init => Contexts
    BY DEF Init, Contexts
  <1>. QED
    BY <1>1, <1>2, InitInvariant, NextKeeps, InitStore, StoreKeeps, ContextsTyped, PTL DEF Spec
=============================================================================
