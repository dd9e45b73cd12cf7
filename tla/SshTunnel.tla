----------------------------- MODULE SshTunnel -----------------------------
(***************************************************************************)
(* staterecon/internal/tokensync, ssh.go and newStore: how an invocation   *)
(* of tokensync with SSH options opens, uses and closes its connections,   *)
(* and the trust store that all invocations share.                         *)
(*                                                                         *)
(* External: the host may present any key at each key exchange and may     *)
(* never answer; pgx dials up to MaxAttempts times for a connection (its    *)
(* fallbacks), each time with a context that its own timer may end.        *)
(***************************************************************************)
EXTENDS Naturals, Sequences, SequencesExt, FiniteSets

CONSTANTS
  Proc,         \* invocations, each started at most once
  Key,          \* host keys, all of one type
  MaxAttempts   \* bound: dials of the pgx.ConnectConfig of each

ASSUME SshTunnelAssumption ==
  /\ IsFiniteSet(Proc)
  /\ MaxAttempts \in [Proc -> Nat]

Attempts(p) == 1..MaxAttempts[p]

VARIABLES
  trust,      \* the trust store: the keys stored for the host, in order
  pc,
  view,       \* the trust store as knownHostsCallback last read it
  tunnel,     \* "none", "tcp": not yet authenticated, "open", "closed"
  attempt,    \* number of the last dial
  dial,       \* per attempt: what has become of its goroutine's result
  abandoned,  \* attempts whose result a goroutine waits for to close it
  expired,    \* pgx's timer has ended the context of the attempt
  cancelled,  \* a signal has ended the context of the run
  knew,       \* history: the store named the host when it was first read
  accepted    \* history: keys the host key callback has accepted

connecting == <<attempt, dial, abandoned, expired>>
keys == <<trust, view, knew, accepted>>
vars == <<pc, tunnel, cancelled, connecting, keys>>

Ended(p) == pc[p] \in {"done", "failed"}

Running(p) == pc[p] # "idle" /\ ~Ended(p)

Go(p, label) == pc' = [pc EXCEPT ![p] = label]

Init ==
  /\ trust \in {<<>>} \cup {<<k>> : k \in Key}
  /\ pc = [p \in Proc |-> "idle"]
  /\ view = [p \in Proc |-> <<>>]
  /\ tunnel = [p \in Proc |-> "none"]
  /\ attempt = [p \in Proc |-> 0]
  /\ dial = [p \in Proc |-> [a \in Attempts(p) |-> "none"]]
  /\ abandoned = [p \in Proc |-> {}]
  /\ expired = [p \in Proc |-> FALSE]
  /\ cancelled = [p \in Proc |-> FALSE]
  /\ knew = [p \in Proc |-> FALSE]
  /\ accepted = [p \in Proc |-> {}]

-----------------------------------------------------------------------------
(* The trust store *)

\* Mutated form: a host that presents another key is taken for a new one.
Verdict_NoMismatch(stored, k) == IF k \in ToSet(stored) THEN "known" ELSE "unknown"

\* knownhosts: of several lines for a host and key type the first one counts.
Verdict(stored, k) ==
  IF stored = <<>> THEN "unknown"
  ELSE IF Head(stored) = k THEN "known"
  ELSE "mismatch"

\* The callback: a known key is accepted, and so is the first one, after it has
\* been appended to the file as the file is now, not as it was read.
HostKeyCallback(p, k) ==
  /\ Verdict(view[p], k) # "mismatch"
  /\ trust' = IF Verdict(view[p], k) = "unknown" THEN Append(trust, k) ELSE trust
  /\ accepted' = [accepted EXCEPT ![p] = @ \cup {k}]

\* buildHostKeyCallback: the file is created unless it is there, and read.
LoadTrustStore(p) ==
  /\ pc[p] = "idle"
  /\ Go(p, "tcp")
  /\ view' = [view EXCEPT ![p] = trust]
  /\ knew' = [knew EXCEPT ![p] = trust # <<>>]
  /\ UNCHANGED <<trust, accepted, tunnel, cancelled, connecting>>

\* Mutated form: the file is not read again after the append.
Reload_Not(p) ==
  /\ pc[p] = "reload"
  /\ Go(p, "auth")
  /\ UNCHANGED <<keys, tunnel, cancelled, connecting>>

Reload(p) ==
  /\ pc[p] = "reload"
  /\ Go(p, "auth")
  /\ view' = [view EXCEPT ![p] = trust]
  /\ UNCHANGED <<trust, knew, accepted, tunnel, cancelled, connecting>>

-----------------------------------------------------------------------------
(* newSSHTunnel *)

\* Bad options, an unreadable private key or trust store; no TCP connection in
\* time.
PrepareFails(p) ==
  /\ pc[p] \in {"idle", "tcp"}
  /\ Go(p, "failed")
  /\ UNCHANGED <<keys, tunnel, cancelled, connecting>>

OpenTcp(p) ==
  /\ pc[p] = "tcp"
  /\ Go(p, "handshake")
  /\ tunnel' = [tunnel EXCEPT ![p] = "tcp"]
  /\ UNCHANGED <<keys, cancelled, connecting>>

\* The first key exchange.
ExchangeKeys(p, k) ==
  /\ pc[p] = "handshake"
  /\ HostKeyCallback(p, k)
  /\ Go(p, IF Verdict(view[p], k) = "unknown" THEN "reload" ELSE "auth")
  /\ UNCHANGED <<view, knew, tunnel, cancelled, connecting>>

Authenticate(p) ==
  /\ pc[p] = "auth"
  /\ Go(p, "connect")
  /\ tunnel' = [tunnel EXCEPT ![p] = "open"]
  /\ UNCHANGED <<keys, cancelled, connecting>>

CloseTunnelOf(p) == tunnel' = [tunnel EXCEPT ![p] = "closed"]

\* NewClientConn returns an error: another key than the stored one, a trust
\* store that cannot be written or read, no authentication, a lost connection.
HandshakeFails(p) ==
  /\ pc[p] \in {"handshake", "reload", "auth"}
  /\ Go(p, "failed")
  /\ CloseTunnelOf(p)
  /\ UNCHANGED <<keys, cancelled, connecting>>

\* Later key exchanges of an open connection go through the same callback,
\* which reads the file again after an append.
Rekey(p, k) ==
  /\ Running(p) /\ tunnel[p] = "open"
  /\ HostKeyCallback(p, k)
  /\ view' = [view EXCEPT ![p] = IF Verdict(@, k) = "unknown" THEN trust' ELSE @]
  /\ UNCHANGED <<knew, pc, tunnel, cancelled, connecting>>

\* The network, or a key that a later exchange refuses.
TunnelLost(p) ==
  /\ Running(p) /\ tunnel[p] = "open"
  /\ CloseTunnelOf(p)
  /\ UNCHANGED <<keys, pc, cancelled, connecting>>

-----------------------------------------------------------------------------
(* dialContextOverSSH, called by pgx.ConnectConfig *)

\* Mutated form: only pgx's own timer ends the wait.
ContextDone_TimerOnly(p) == expired[p]

\* An attempt's context is derived from the run's.
ContextDone(p) == expired[p] \/ cancelled[p]

DialBecomes(p, a, result) == dial' = [dial EXCEPT ![p][a] = result]

\* The next attempt, by a timer of its own or under the last one's.
StartDial(p) ==
  /\ pc[p] = "connect"
  /\ attempt[p] < MaxAttempts[p]
  /\ attempt' = [attempt EXCEPT ![p] = @ + 1]
  /\ DialBecomes(p, attempt'[p], "dialing")
  /\ \E e \in {FALSE, expired[p]} : expired' = [expired EXCEPT ![p] = e]
  /\ Go(p, "select")
  /\ UNCHANGED <<keys, tunnel, cancelled, abandoned>>

\* The dialling goroutine puts the result into its channel.
Answer(p, a) ==
  /\ Running(p)
  /\ dial[p][a] = "dialing"
  /\ \/ tunnel[p] = "open" /\ DialBecomes(p, a, "conn")
     \/ DialBecomes(p, a, "err")
  /\ UNCHANGED <<keys, pc, tunnel, cancelled, attempt, abandoned, expired>>

\* Mutated form: all attempts share one channel.
ResultsFor_AnyAttempt(p) == {a \in Attempts(p) : dial[p][a] \in {"conn", "err"}}

\* What can be received from the channel of the attempt under way.
ResultsFor(p) == {a \in {attempt[p]} : dial[p][a] \in {"conn", "err"}}

TakeResult(p) ==
  /\ pc[p] = "select"
  /\ \E a \in ResultsFor(p) :
       IF dial[p][a] = "conn"
       THEN Go(p, "startup") /\ DialBecomes(p, a, "held")
       ELSE Go(p, "connect") /\ DialBecomes(p, a, "done")
  /\ UNCHANGED <<keys, tunnel, cancelled, attempt, abandoned, expired>>

\* Mutated form: nobody waits for the result.
Abandon_Leak(p) ==
  /\ pc[p] = "select"
  /\ ContextDone(p)
  /\ Go(p, "connect")
  /\ UNCHANGED <<keys, tunnel, cancelled, connecting>>

\* The context ends first, or at the same time: the caller leaves at once and
\* a goroutine is left to close what may still come.
Abandon(p) ==
  /\ pc[p] = "select"
  /\ ContextDone(p)
  /\ abandoned' = [abandoned EXCEPT ![p] = @ \cup {attempt[p]}]
  /\ Go(p, "connect")
  /\ UNCHANGED <<keys, tunnel, cancelled, attempt, dial, expired>>

CleanUp(p, a) ==
  /\ Running(p)
  /\ a \in abandoned[p]
  /\ dial[p][a] \in {"conn", "err"}
  /\ DialBecomes(p, a, "done")
  /\ UNCHANGED <<keys, pc, tunnel, cancelled, attempt, abandoned, expired>>

-----------------------------------------------------------------------------
(* newStore after the tunnel is there, and Close *)

StartSession(p) ==
  /\ pc[p] = "startup"
  /\ tunnel[p] = "open"
  /\ Go(p, "session")
  /\ UNCHANGED <<keys, tunnel, cancelled, connecting>>

\* pgx closes a connection on which PostgreSQL does not start a session.
StartupFails(p) ==
  /\ pc[p] = "startup"
  /\ DialBecomes(p, attempt[p], "done")
  /\ Go(p, "connect")
  /\ UNCHANGED <<keys, tunnel, cancelled, attempt, abandoned, expired>>

\* ConnectConfig has failed, before the first dial (the host name) or after
\* the last.
ConnectFails(p) ==
  /\ pc[p] = "connect"
  /\ CloseTunnelOf(p)
  /\ Go(p, "failed")
  /\ UNCHANGED <<keys, cancelled, connecting>>

\* Mutated form: an error of the connection's Close is returned at once.
CloseConn_ErrorReturns(p) ==
  /\ pc[p] = "session"
  /\ DialBecomes(p, attempt[p], "done")
  /\ \/ Go(p, "close") \/ Go(p, "done")
  /\ UNCHANGED <<keys, tunnel, cancelled, attempt, abandoned, expired>>

\* Run has returned, for whatever reason, and closes the store: first the
\* connection, with or without an error, then the tunnel.
CloseConn(p) ==
  /\ pc[p] = "session"
  /\ DialBecomes(p, attempt[p], "done")
  /\ Go(p, "close")
  /\ UNCHANGED <<keys, tunnel, cancelled, attempt, abandoned, expired>>

CloseTunnel(p) ==
  /\ pc[p] = "close"
  /\ CloseTunnelOf(p)
  /\ Go(p, "done")
  /\ UNCHANGED <<keys, cancelled, connecting>>

-----------------------------------------------------------------------------
(* The environment *)

\* SIGINT or SIGTERM.
Cancel(p) ==
  /\ Running(p) /\ ~cancelled[p]
  /\ cancelled' = [cancelled EXCEPT ![p] = TRUE]
  /\ UNCHANGED <<keys, pc, tunnel, connecting>>

\* pgx's timer.
Expire(p) ==
  /\ pc[p] = "select" /\ ~expired[p]
  /\ expired' = [expired EXCEPT ![p] = TRUE]
  /\ UNCHANGED <<keys, pc, tunnel, cancelled, attempt, dial, abandoned>>

\* The process is killed, perhaps between an append and what follows it.
Kill(p) ==
  /\ Running(p)
  /\ CloseTunnelOf(p)
  /\ Go(p, "failed")
  /\ UNCHANGED <<keys, cancelled, connecting>>

\* Steps for which a run waits for nobody, or no longer than its context.
OwnStep(p) ==
  \/ cancelled[p] /\ PrepareFails(p)
  \/ Reload(p)
  \/ StartDial(p) \/ TakeResult(p) \/ Abandon(p)
  \/ ConnectFails(p)
  \/ CloseTunnel(p)

PeerStep(p) ==
  \/ OpenTcp(p) \/ PrepareFails(p)
  \/ \E k \in Key : ExchangeKeys(p, k) \/ Rekey(p, k)
  \/ Authenticate(p) \/ HandshakeFails(p) \/ TunnelLost(p)
  \/ \E a \in Attempts(p) : Answer(p, a)
  \/ StartSession(p) \/ StartupFails(p)

Next ==
  \E p \in Proc :
    \/ LoadTrustStore(p) \/ OwnStep(p) \/ PeerStep(p)
    \/ \E a \in Attempts(p) : CleanUp(p, a)
    \/ CloseConn(p)
    \/ Cancel(p) \/ Expire(p) \/ Kill(p)

Spec == Init /\ [][Next]_vars

\* No fairness of the host, of PostgreSQL, of the network or of signals.
Fairness ==
  \A p \in Proc :
    /\ WF_vars(OwnStep(p))
    /\ \A a \in Attempts(p) : WF_vars(CleanUp(p, a))

FairSpec == Spec /\ Fairness

-----------------------------------------------------------------------------
(* Properties *)

TypeOK ==
  /\ trust \in Seq(Key)
  /\ pc \in [Proc -> {"idle", "tcp", "handshake", "reload", "auth", "connect", "select",
                      "startup", "session", "close", "done", "failed"}]
  /\ view \in [Proc -> Seq(Key)]
  /\ \A p \in Proc : tunnel[p] = "open" => view[p] # <<>>
  /\ tunnel \in [Proc -> {"none", "tcp", "open", "closed"}]
  /\ DOMAIN attempt = Proc /\ DOMAIN dial = Proc /\ DOMAIN abandoned = Proc
  /\ \A p \in Proc :
       /\ attempt[p] \in 0..MaxAttempts[p]
       /\ dial[p] \in [Attempts(p) -> {"none", "dialing", "conn", "err", "held", "done"}]
       /\ abandoned[p] \subseteq Attempts(p)
  /\ expired \in [Proc -> BOOLEAN] /\ cancelled \in [Proc -> BOOLEAN]
  /\ knew \in [Proc -> BOOLEAN]
  /\ accepted \in [Proc -> SUBSET Key]

\* Trust on first use (staterecon/README.md, "stores the first seen SSH host
\* key"), whatever overlaps or is killed: a key that was accepted is in the
\* file, an invocation that found the host there accepts the first key only,
\* and each of the others leaves at most one line.
TrustOnFirstUse ==
  /\ \A p \in Proc : accepted[p] \subseteq ToSet(trust)
  /\ \A p \in Proc : knew[p] => accepted[p] \subseteq {Head(trust)}
  /\ \/ Len(trust) <= 1
     \/ Len(trust) <= Cardinality({p \in Proc : pc[p] # "idle" /\ ~knew[p]})

\* A connection of the process that is open: it lives in the tunnel.
Open(p, a) == tunnel[p] = "open" /\ dial[p][a] \in {"conn", "held"}

\* pgx works on the connection of its last attempt and on no other, and no
\* goroutine is going to close it.
SessionOwnsItsConnection ==
  \A p \in Proc : pc[p] \in {"startup", "session"} =>
    /\ {a \in Attempts(p) : dial[p][a] = "held"} = {attempt[p]}
    /\ attempt[p] \notin abandoned[p]

\* However far a run came, it closes what it opened before it returns.
EndedHoldsNothing == \A p \in Proc : Ended(p) => tunnel[p] \in {"none", "closed"}

\* Dialled for a caller that has left.
Late(p, a) ==
  /\ Running(p)
  /\ Open(p, a)
  /\ dial[p][a] = "conn"
  /\ ~(pc[p] = "select" /\ attempt[p] = a)

\* A connection that arrives after its caller has left does not stay open for
\* the length of the run.
LateConnectionClosed == 
  \A p \in Proc : \A a \in Attempts(p) : Late(p, a) ~> ~Late(p, a)

\* The steps that the context does not interrupt: NewClientConn, and what
\* PostgreSQL is asked over the tunnel.
AtPeer(p) == pc[p] \in {"handshake", "auth", "startup", "session"}

\* A signal ends the run although the dial it waits for may never return:
\* nothing but a silent SSH host or a silent PostgreSQL holds it up.
CancelledRunEnds == \A p \in Proc : cancelled[p] ~> Ended(p) \/ AtPeer(p)
=============================================================================
