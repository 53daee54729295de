---------------------------- MODULE CodexBridge ----------------------------
(***************************************************************************)
(* The Codex bridge (codexbridge/bridge.go): one process between the Codex *)
(* App Server and the daemon, which makes a peer of every native thread.   *)
(*                                                                         *)
(* One thread is modelled.  The goroutines are: main (runAppServer and     *)
(* serveApp), the reader (readApp, which handles notifications inline),    *)
(* mesh (runMesh of the thread), and the short-lived cap                   *)
(* (captureCompletedTurn) and disc (loadThread of an unknown thread).      *)
(* Everything the App Server sends, replies and notifications, shares one  *)
(* FIFO; whoever calls waits for the reader to hand over its reply.        *)
(*                                                                         *)
(* The App Server, the network and the daemon's registry are external: the *)
(* registry is reduced to the state of each peer id the thread was given.  *)
(* What the environment may do in a behaviour is a budget, work, chosen in *)
(* the initial state.  Status frames to the daemon are left out (the       *)
(* registry side takes any status report); cancelling a thread's context   *)
(* ends its mesh goroutine at once.                                        *)
(***************************************************************************)
EXTENDS EventWindow, FiniteSets

CONSTANTS Workloads,   \* the budgets a behaviour may start with
          MaxTurns,    \* turns of the thread
          MaxIds       \* peer ids the daemon may mint for the thread

ASSUME BridgeAssumption == MaxTurns \in Nat \ {0} /\ MaxIds \in Nat

Actors == {"main", "mesh", "cap", "disc"}
Ids    == 1 .. MaxIds

VARIABLES srv,     \* App Server: handshake done, thread loaded, its turns
          app,     \* b.app: "nil", "up", or "dead" (broken, reader not told yet)
          main,    \* where runAppServer is
          reader,  \* "off", "run", "finish" (inside finishTurn), "failed"
          rturn,   \* the turn the reader is finishing
          out,     \* requests on their way to the App Server
          wire,    \* frames on their way to the reader
          calls,   \* per actor: "none", "wait" (pending), "err" or "ok", with
                   \* what the reply says of the thread
          missed,  \* a lookup of the thread timed out on this connection
          p,       \* the threadPeer
          cap,     \* the turn the capture goroutine is finishing, and of which peer
          mesh,    \* where runMesh is
          turn,    \* inject's copy of activeTurn
          sock,    \* the thread's mesh socket: "none", "open"
          msg,     \* the one delivery: "none", "sent", "taken", then its ack
          got,     \* the thread was given the message
          disk,    \* the runtime-identity file: certificate (and whether it has
                   \* expired), context injected
          reg,     \* the daemon, per peer id
          work     \* what the environment may still do

appVars  == <<srv, app, main, reader, rturn, out, wire, calls, missed>>
peerVars == <<p, cap, mesh, turn, sock, msg, got, disk, reg>>
vars     == <<appVars, peerVars, winVars, work>>

NoPeer == [on |-> FALSE, gen |-> 0, active |-> 0, done |-> 0, seen |-> {},
           id |-> 0, hint |-> 0, cert |-> 0, stale |-> FALSE]
Frame(t, by, n, d) == [t |-> t, by |-> by, n |-> n, d |-> d]
Result(st, n, d) == [st |-> st, n |-> n, d |-> d]
NoCalls == [a \in Actors |-> Result("none", 0, 0)]

Init ==
  /\ WindowInit
  /\ srv = [init |-> FALSE, open |-> FALSE, turn |-> 0, done |-> 0]
  /\ app = "nil" /\ main = "connect" /\ reader = "off" /\ rturn = 0
  /\ out = <<>> /\ wire = <<>> /\ calls = NoCalls /\ missed = FALSE
  /\ p = NoPeer /\ cap = [turn |-> 0, gen |-> 0]
  /\ mesh = "off" /\ turn = 0 /\ sock = "none" /\ msg = "none" /\ got = FALSE
  /\ disk = [cert |-> 0, stale |-> FALSE, ctx |-> FALSE]
  /\ reg = [i \in Ids |-> "none"]
  /\ work \in Workloads

Spend(what) == work[what] > 0 /\ work' = [work EXCEPT ![what] = @ - 1]

-----------------------------------------------------------------------------
(* call: the id is pending before the request is written.  Without a        *)
(* connection the call fails at once; on a broken one the write may still   *)
(* go through, until the reader has closed it.                              *)

Written(a, kind, n) ==
  /\ app \in {"up", "dead"} /\ reader # "failed"
  /\ calls' = [calls EXCEPT ![a] = Result("wait", 0, 0)]
  /\ out' = IF app = "up" THEN Append(out, Frame(kind, a, n, 0)) ELSE out

Refused(a) ==
  /\ app # "up"
  /\ calls' = [calls EXCEPT ![a] = Result("err", 0, 0)]
  /\ UNCHANGED out

Call(a, kind, n) == Written(a, kind, n) \/ Refused(a)

\* The reply is taken and the id deleted.
Returned(a) == calls' = [calls EXCEPT ![a] = Result("none", 0, 0)]

\* A context ends first: the id is deleted, a late reply finds nobody.
Disowned(a, s) == [i \in DOMAIN s |-> IF s[i].by = a THEN [s[i] EXCEPT !.by = "nobody"] ELSE s[i]]

\* The deadlines of initialize, inject, captureCompletedTurn and discovery.
CallTimeout(a) ==
  /\ Spend("fails")
  /\ calls[a].st = "wait"
  /\ a = "main" => main = "init"
  /\ missed' = (missed \/ a = "disc")
  /\ a = "mesh" => mesh \in {"steer", "start"}
  /\ calls' = [calls EXCEPT ![a] = Result("err", 0, 0)]
  /\ out' = Disowned(a, out) /\ wire' = Disowned(a, wire)
  /\ UNCHANGED <<srv, app, main, reader, rturn, peerVars, winVars>>

\* A lost connection wakes nobody.
FailNone == UNCHANGED calls

\* failPending: every pending call gets the read error.
FailPending == calls' = [a \in Actors |-> IF calls[a].st = "wait" THEN Result("err", 0, 0) ELSE calls[a]]

-----------------------------------------------------------------------------
(* The App Server and its connection (external) *)

Notified(frames) == wire' = IF srv.init THEN wire \o frames ELSE wire

\* A request is served in order.  Before the handshake everything but
\* initialize is refused, and so is what names a thread that is not loaded.
SrvServe ==
  /\ out # <<>>
  /\ out' = Tail(out)
  /\ LET r      == Head(out)
         ok     == \/ r.t = "initialize"
                   \/ /\ srv.init
                      /\ r.t = "list" \/ srv.open
                      /\ r.t = "steer" => srv.turn # 0 /\ srv.turn = r.n
         begins == ok /\ r.t = "start" /\ srv.turn = 0 /\ srv.done < MaxTurns
         answer == <<[Frame(IF ok THEN "ok" ELSE "err", r.by, srv.turn, srv.done)
                        EXCEPT !.n = IF r.t = "list" THEN (IF srv.open THEN 1 ELSE 0) ELSE @]>>
     IN  /\ srv' = [srv EXCEPT !.init = @ \/ r.t = "initialize",
                               !.turn = IF begins THEN srv.done + 1 ELSE @]
         /\ wire' = wire \o (IF begins THEN <<Frame("turn", "nobody", srv.done + 1, 0)>> ELSE <<>>) \o answer
         /\ got' = (got \/ (ok /\ r.t \in {"steer", "start"}))
  /\ UNCHANGED <<app, main, reader, rturn, calls, missed, p, cap, mesh, turn, sock,
                 msg, disk, reg, winVars, work>>

\* A TUI opens or resumes the thread; a resumed one may only show as a
\* status change.
SrvOpen ==
  /\ Spend("opens") /\ ~srv.open
  /\ srv' = [srv EXCEPT !.open = TRUE]
  /\ \E t \in {"started", "idle"} : Notified(<<Frame(t, "nobody", 0, 0)>>)
  /\ UNCHANGED <<app, main, reader, rturn, out, calls, missed, peerVars, winVars>>

SrvClose ==
  /\ Spend("opens") /\ srv.open
  /\ srv' = [srv EXCEPT !.open = FALSE, !.turn = 0]
  /\ Notified(<<Frame("closed", "nobody", 0, 0)>>)
  /\ UNCHANGED <<app, main, reader, rturn, out, calls, missed, peerVars, winVars>>

\* The user starts a turn.
SrvTurn ==
  /\ Spend("turns") /\ srv.open /\ srv.turn = 0 /\ srv.done < MaxTurns
  /\ srv' = [srv EXCEPT !.turn = srv.done + 1]
  /\ Notified(<<Frame("active", "nobody", 0, 0), Frame("turn", "nobody", srv.done + 1, 0)>>)
  /\ UNCHANGED <<app, main, reader, rturn, out, calls, missed, peerVars, winVars>>

\* A turn ends: its answer, its completion, and the thread is idle.
SrvComplete ==
  /\ srv.turn # 0
  /\ srv' = [srv EXCEPT !.turn = 0, !.done = srv.turn]
  /\ Notified(<<Frame("item", "nobody", srv.turn, 0), Frame("completed", "nobody", srv.turn, 0),
               Frame("idle", "nobody", 0, 0)>>)
  /\ UNCHANGED <<app, main, reader, rturn, out, calls, missed, peerVars, winVars, work>>

\* The connection breaks; what was under way is lost.
AppLost ==
  /\ Spend("fails") /\ app = "up"
  /\ app' = "dead" /\ out' = <<>> /\ wire' = <<>>
  /\ srv' = [srv EXCEPT !.init = FALSE]
  /\ UNCHANGED <<main, reader, rturn, calls, missed, peerVars, winVars>>

-----------------------------------------------------------------------------
(* ensureThread, closeThread and the turns of a thread *)

\* WriteRuntimeIdentity: an update is merged and the file replaced.
WriteRuntimeIdentity(cert, stale, ctx) ==
  disk' = [cert |-> cert, stale |-> stale, ctx |-> ctx]

\* cachedBirthCertificate: the file's certificate unless it has expired.
CachedCert == IF disk.stale THEN 0 ELSE disk.cert

\* activeTurn: the turn in progress when the App Server described the thread.
ActiveTurn(n) == {0, n}

\* ConsumeSpawnHint, without a cached certificate only: a resume or restart of the
\* peer may have left a hint with an id the thread once had.
Hints == {0} \cup (IF CachedCert = 0 THEN {i \in Ids : reg[i] # "none"} ELSE {})

\* The peer is made from the thread the App Server described, with the cached
\* certificate of this thread or a hint; its mesh goroutine starts.
EnsureThread(active) ==
  IF p.on THEN UNCHANGED <<p, mesh>>
  ELSE /\ \E h \in Hints :
            p' = [NoPeer EXCEPT !.on = TRUE, !.gen = p.gen + 1, !.active = active,
                                !.hint = h, !.cert = CachedCert]
       /\ mesh' = "restore"

\* The daemon sees the thread's socket go: the peer is offline.
SocketClosed ==
  [i \in Ids |-> IF i = p.id /\ sock = "open" THEN "offline" ELSE reg[i]]

\* closeThread: the peer is forgotten and its mesh goroutine cancelled.
CloseThread ==
  /\ p' = [NoPeer EXCEPT !.gen = p.gen]
  /\ mesh' = "off" /\ sock' = "none"
  /\ reg' = SocketClosed
  /\ msg' = IF msg = "taken" THEN "lost" ELSE msg
  /\ calls' = [calls EXCEPT !["mesh"] = Result("none", 0, 0)]
  /\ out' = Disowned("mesh", out)

\* postChatItem of the turn's answer: once per turn while the turn is open,
\* and only for a peer the daemon has named.
PostChatItem(t) ==
  /\ p' = [p EXCEPT !.seen = @ \cup {t}]
  /\ IF t \notin p.seen /\ p.id # 0 THEN IngestChatTurn(t) ELSE UNCHANGED winVars

\* finishTurn, first half: the last completed turn is remembered, and the
\* items of the turn are posted.
FinishBegins(t) ==
  /\ p' = [p EXCEPT !.done = t, !.seen = @ \cup {t}]
  /\ IF t \notin p.seen /\ p.id # 0 THEN IngestChatTurn(t) ELSE UNCHANGED winVars

\* ... and its second half, completeTurn and setActiveTurn("").
FinishEnds(t) == p' = [p EXCEPT !.seen = @ \ {t}, !.active = 0]

-----------------------------------------------------------------------------
(* readApp and handleNotification *)

\* A reply goes to whoever still waits for it.
ReaderReply ==
  LET f == Head(wire) IN
  /\ f.t \in {"ok", "err"}
  /\ IF f.by \in Actors /\ calls[f.by].st = "wait"
       THEN calls' = [calls EXCEPT ![f.by] = Result(f.t, f.n, f.d)]
       ELSE UNCHANGED calls
  /\ UNCHANGED <<reader, rturn, out, p, cap, mesh, sock, reg, msg, winVars>>

\* thread/started.
ReaderStarted ==
  /\ Head(wire).t = "started"
  /\ EnsureThread(0)
  /\ UNCHANGED <<calls, reader, rturn, out, cap, sock, reg, msg, winVars>>

\* thread/status/changed: a known thread gone idle has its last turn captured,
\* an unknown one is looked up.  One goroutine of each kind is modelled: a
\* lookup that has not failed serves the next one too.
ReaderStatus ==
  /\ Head(wire).t \in {"active", "idle"}
  /\ IF p.on
       THEN /\ cap' = IF Head(wire).t = "idle" /\ cap.gen = 0
                      THEN [turn |-> 0, gen |-> p.gen] ELSE cap
            /\ IF cap'.gen # cap.gen THEN Call("cap", "turns", 0)
                                     ELSE UNCHANGED <<calls, out>>
       ELSE /\ UNCHANGED cap
            /\ IF calls["disc"].st \in {"none", "err"} THEN Call("disc", "read", 0)
                                                   ELSE UNCHANGED <<calls, out>>
  /\ UNCHANGED <<reader, rturn, p, mesh, sock, reg, msg, winVars>>

\* turn/started.
ReaderTurn ==
  /\ Head(wire).t = "turn"
  /\ p' = IF p.on THEN [p EXCEPT !.active = Head(wire).n] ELSE p
  /\ UNCHANGED <<calls, reader, rturn, out, cap, mesh, sock, reg, msg, winVars>>

\* item/completed.
ReaderItem ==
  /\ Head(wire).t = "item"
  /\ IF p.on THEN PostChatItem(Head(wire).n) ELSE UNCHANGED <<p, winVars>>
  /\ UNCHANGED <<calls, reader, rturn, out, cap, mesh, sock, reg, msg>>

\* turn/completed: finishTurn runs in the reader.
ReaderCompleted ==
  /\ Head(wire).t = "completed"
  /\ IF p.on /\ p.done # Head(wire).n
       THEN /\ FinishBegins(Head(wire).n)
            /\ reader' = "finish" /\ rturn' = Head(wire).n
       ELSE UNCHANGED <<reader, rturn, p, winVars>>
  /\ UNCHANGED <<calls, out, cap, mesh, sock, reg, msg>>

\* thread/closed and thread/deleted.
ReaderClosed ==
  /\ Head(wire).t = "closed"
  /\ IF p.on THEN CloseThread ELSE UNCHANGED <<p, mesh, sock, reg, msg, calls, out>>
  /\ UNCHANGED <<reader, rturn, cap, winVars>>

\* One frame is read and handled.
ReaderTakes ==
  /\ reader = "run" /\ wire # <<>>
  /\ \/ ReaderReply
     \/ ReaderStarted
     \/ ReaderStatus
     \/ ReaderTurn
     \/ ReaderItem
     \/ ReaderCompleted
     \/ ReaderClosed
  /\ wire' = IF Head(wire).t = "closed" /\ p.on THEN Disowned("mesh", Tail(wire)) ELSE Tail(wire)
  /\ UNCHANGED <<srv, app, main, turn, got, disk, missed, work>>

ReaderFinishes ==
  /\ reader = "finish"
  /\ FinishEnds(rturn)
  /\ reader' = "run" /\ rturn' = 0
  /\ UNCHANGED <<srv, app, main, out, wire, calls, missed, cap, mesh, turn, sock, msg,
                 got, disk, reg, winVars, work>>

\* The read fails: the pending calls fail with it, and the reader ends.
ReaderFails ==
  /\ reader = "run" /\ app = "dead"
  /\ FailPending
  /\ reader' = "failed"
  /\ UNCHANGED <<srv, app, main, rturn, out, wire, missed, peerVars, winVars, work>>

-----------------------------------------------------------------------------
(* captureCompletedTurn and loadThread *)

\* The newest completed turn of the reply is finished, unless it is the last
\* one finished or the thread has another peer by now.
CaptureReads ==
  /\ cap.gen # 0 /\ cap.turn = 0 /\ calls["cap"].st \in {"ok", "err"}
  /\ Returned("cap")
  /\ LET t == calls["cap"].d IN
     IF calls["cap"].st = "ok" /\ t # 0 /\ p.on /\ p.done # t
       THEN FinishBegins(t) /\ cap' = [turn |-> t, gen |-> p.gen]
       ELSE UNCHANGED <<p, winVars>> /\ cap' = [turn |-> 0, gen |-> 0]
  /\ UNCHANGED <<srv, app, main, reader, rturn, out, wire, missed, mesh, turn, sock,
                 msg, got, disk, reg, work>>

CaptureFinishes ==
  /\ cap.turn # 0
  /\ IF p.on /\ p.gen = cap.gen THEN FinishEnds(cap.turn) ELSE UNCHANGED p
  /\ cap' = [turn |-> 0, gen |-> 0]
  /\ UNCHANGED <<appVars, mesh, turn, sock, msg, got, disk, reg, winVars, work>>

\* The lookup of an unknown thread returns; activeTurn is set when the reply
\* lists the turns.
DiscoverReturns ==
  /\ calls["disc"].st \in {"ok", "err"}
  /\ Returned("disc")
  /\ IF calls["disc"].st = "ok" THEN \E a \in ActiveTurn(calls["disc"].n) : EnsureThread(a)
                             ELSE UNCHANGED <<p, mesh>>
  /\ UNCHANGED <<srv, app, main, reader, rturn, out, wire, missed, cap, turn, sock, msg,
                 got, disk, reg, winVars, work>>

-----------------------------------------------------------------------------
(* runAppServer and serveApp *)

\* A connection is made (ensureAppServer starts the server when there is
\* none), set as b.app, and its reader starts.
MainConnects ==
  /\ main = "connect"
  /\ app' = "up" /\ reader' = "run" /\ main' = "hello" /\ missed' = FALSE
  /\ out' = <<>> /\ wire' = <<>>
  /\ srv' = [srv EXCEPT !.init = FALSE]
  /\ UNCHANGED <<rturn, calls, peerVars, winVars, work>>

MainHello ==
  /\ main = "hello" /\ main' = "init"
  /\ Call("main", "initialize", 0)
  /\ UNCHANGED <<srv, app, reader, rturn, wire, missed, peerVars, winVars, work>>

\* notify: written to the App Server, or refused by a connection that is gone.
Notify(ok) == ok \/ app # "up"

\* initialize answered: the notify "initialized", then loadExistingThreads,
\* which has no deadline.  A failed handshake ends the connection.
MainInit ==
  /\ main = "init"
  /\ \/ calls["main"].st = "err" /\ main' = "close" /\ Returned("main")
     \/ \E ok \in BOOLEAN :
           /\ calls["main"].st = "ok" /\ Notify(ok)
           /\ main' = (IF ok THEN "load" ELSE "close")
           /\ Returned("main")
  /\ UNCHANGED <<srv, app, reader, rturn, out, wire, missed, peerVars, winVars, work>>

MainList ==
  /\ main = "load" /\ main' = "list"
  /\ Call("main", "list", 0)
  /\ UNCHANGED <<srv, app, reader, rturn, wire, missed, peerVars, winVars, work>>

\* A listed thread that has no peer yet is read.
MainListed ==
  /\ main = "list" /\ calls["main"].st \in {"ok", "err"}
  /\ IF calls["main"].st = "ok" /\ calls["main"].n = 1 /\ ~p.on
       THEN Call("main", "read", 0) /\ main' = "read"
       ELSE Returned("main") /\ main' = "serve" /\ UNCHANGED out
  /\ UNCHANGED <<srv, app, reader, rturn, wire, missed, peerVars, winVars, work>>

MainRead ==
  /\ main = "read" /\ calls["main"].st \in {"ok", "err"}
  /\ main' = "serve" /\ Returned("main")
  /\ IF calls["main"].st = "ok" THEN \E a \in ActiveTurn(calls["main"].n) : EnsureThread(a)
                             ELSE UNCHANGED <<p, mesh>>
  /\ UNCHANGED <<srv, app, reader, rturn, out, wire, missed, cap, turn, sock, msg, got,
                 disk, reg, winVars, work>>

\* readErr: the connection is closed.
MainServe ==
  /\ main = "serve" /\ reader = "failed"
  /\ main' = "close"
  /\ UNCHANGED <<srv, app, reader, rturn, out, wire, calls, missed, peerVars, winVars, work>>

\* The deferred CloseNow, which makes a running reader fail.
MainCloses ==
  /\ main = "close" /\ app = "up"
  /\ app' = "dead" /\ out' = <<>> /\ wire' = <<>>
  /\ srv' = [srv EXCEPT !.init = FALSE]
  /\ UNCHANGED <<main, reader, rturn, calls, missed, peerVars, winVars, work>>

\* clearApp: writers find no connection from here on.
ClearApp == app' = "nil"

\* <-readerDone, clearApp, and the next attempt after the backoff.
MainClears ==
  /\ main = "close" /\ reader = "failed"
  /\ ClearApp /\ reader' = "off" /\ main' = "connect"
  /\ UNCHANGED <<srv, rturn, out, wire, calls, missed, peerVars, winVars, work>>

-----------------------------------------------------------------------------
(* runMesh: connectMesh = register, ensureContext, dial; then readMesh *)

\* The registry knows an id by its record and mapping; a tombstone refuses claims.
\* "gone" and "closed" are tombstones alone, "lost" is an id nobody remembers, and
\* "shadow" a live record whose own tombstone was never lifted.
Known(s)   == s \in {"online", "offline", "soft", "hard", "shadow"}
Retired(s) == s \in {"soft", "hard", "gone", "closed", "shadow"}

\* Without a usable claim: the id whose record or mapping has the thread's name,
\* retired or not, otherwise a fresh one.
Allotted(r) ==
  LET named  == {i \in Ids : Known(r[i])}
      unused == {i \in Ids : r[i] = "none"}
  IN  IF named # {} THEN named
      ELSE {i \in unused : \A j \in unused : i <= j}

\* The retirement guard: a soft tombstone is lifted by a verified certificate.
Refuses(claim, verified) ==
  /\ claim # 0 /\ Retired(reg[claim])
  /\ ~verified \/ reg[claim] \in {"hard", "closed"}

\* A record found by its name stays as retired as it is, unless the claim just
\* lifted a tombstone, its own or another's.
Reconnected(s, lifted) ==
  IF s \notin {"soft", "hard", "shadow"} THEN "online"
  ELSE IF s = "soft" /\ lifted THEN "shadow" ELSE s

\* AllocateAndRegister gives a known claim its id; an unknown one is passed over.
AllocateAndRegister(claim, verified, i) ==
  /\ ~Refuses(claim, verified)
  /\ IF claim # 0 /\ Known(reg[claim])
       THEN i = claim /\ reg' = [reg EXCEPT ![i] = "online"]
       ELSE LET lifted == claim # 0 /\ Retired(reg[claim])
            IN  /\ i \in Allotted(reg)
                /\ reg' = [j \in Ids |-> IF j = i THEN Reconnected(reg[j], lifted)
                                        ELSE IF lifted /\ j = claim THEN "lost" ELSE reg[j]]

\* The certificate is not looked at: registration goes on without a claim.
RestoreSkipped ==
  /\ mesh = "restore" /\ mesh' = "post"
  /\ UNCHANGED <<p, reg>>

\* ValidateBirthCertificate.  The bridge hands back the envelope as it was minted
\* and asks with the same backend and path, without pane or pid: every field it is
\* compared by agrees with the stored row, and only the expiry can fail it.
Validates == ~p.stale

\* restoreIdentity: with a certificate and no id in memory the daemon validates it
\* and registers its id again.  A refusal is tried again for ever.
RestoreIdentity ==
  /\ mesh = "restore" /\ mesh' = "post"
  /\ IF p.id # 0 \/ p.cert = 0
       THEN UNCHANGED <<p, reg>>
       ELSE /\ Validates
            /\ \E i \in Ids : AllocateAndRegister(p.cert, TRUE, i) /\ p' = [p EXCEPT !.id = i]

MeshRestore ==
  /\ RestoreIdentity
  /\ UNCHANGED <<appVars, cap, turn, sock, msg, got, disk, winVars, work>>

MintBirthCertificate(i) == [p EXCEPT !.id = i, !.cert = i, !.stale = FALSE]

\* persistBinding is best effort: when the store fails, the registration is
\* answered without a certificate.
PersistBinding(i) ==
  \/ p' = MintBirthCertificate(i) /\ mesh' = "persist" /\ UNCHANGED work
  \/ Spend("fails") /\ p' = [p EXCEPT !.id = i] /\ mesh' = "context"

\* The id in memory, else the hinted one.
Claim == IF p.id # 0 THEN p.id ELSE p.hint

\* POST /peers with the claim.  A retired claim is answered 409: with a
\* certificate the id is dropped, for the next attempt to restore it; without one
\* the same claim is made again.
MeshRegister ==
  /\ mesh = "post"
  /\ \/ /\ Refuses(Claim, FALSE)
        /\ p' = IF p.cert # 0 THEN [p EXCEPT !.id = 0] ELSE p
        /\ mesh' = "restore"
        /\ UNCHANGED <<reg, work>>
     \/ \E i \in Ids : AllocateAndRegister(Claim, FALSE, i) /\ PersistBinding(i)
  /\ UNCHANGED <<appVars, cap, turn, sock, msg, got, disk, winVars>>

\* The answer's certificate goes to the file before anything else; when the file
\* cannot be written the attempt fails, and the next one makes do with memory.
MeshPersist ==
  /\ mesh = "persist"
  /\ \/ mesh' = "context" /\ WriteRuntimeIdentity(p.cert, p.stale, disk.ctx) /\ UNCHANGED work
     \/ mesh' = "restore" /\ Spend("fails") /\ UNCHANGED disk
  /\ UNCHANGED <<appVars, p, cap, turn, sock, msg, got, reg, winVars>>

\* ensureContext, unless the file says it was done: thread/inject_items.
MeshContext ==
  /\ mesh = "context"
  /\ IF disk.ctx THEN mesh' = "dial" /\ UNCHANGED <<calls, out>>
                 ELSE mesh' = "inject" /\ Call("mesh", "inject_items", 0)
  /\ UNCHANGED <<srv, app, main, reader, rturn, wire, missed, p, cap, turn, sock, msg,
                 got, disk, reg, winVars, work>>

\* A failed injection is logged, and tried again at the next connect.
MeshInjected ==
  /\ mesh = "inject" /\ calls["mesh"].st \in {"ok", "err"}
  /\ mesh' = "dial" /\ Returned("mesh")
  /\ IF calls["mesh"].st = "ok" THEN WriteRuntimeIdentity(disk.cert, disk.stale, TRUE)
                                ELSE UNCHANGED disk
  /\ UNCHANGED <<srv, app, main, reader, rturn, out, wire, missed, p, cap, turn, sock, msg,
                 got, reg, winVars, work>>

\* Dial and connect with the peer id: refused for a retired one; the answer names
\* the id the daemon settled on.
MeshDial ==
  /\ mesh = "dial"
  /\ \/ /\ Refuses(p.id, FALSE)
        /\ mesh' = "restore" /\ UNCHANGED <<p, sock, reg>>
     \/ /\ \E i \in Ids : AllocateAndRegister(p.id, FALSE, i) /\ p' = [p EXCEPT !.id = i]
        /\ mesh' = "read" /\ sock' = "open"
  /\ UNCHANGED <<appVars, cap, turn, msg, got, disk, winVars, work>>

\* readMesh takes a delivery; inject copies activeTurn and calls turn/steer
\* with it, or turn/start without one.
MeshTakes ==
  /\ mesh = "read" /\ sock = "open" /\ msg = "sent"
  /\ msg' = "taken" /\ turn' = p.active
  /\ IF p.active # 0 THEN mesh' = "steer" /\ Call("mesh", "steer", p.active)
                     ELSE mesh' = "start" /\ Call("mesh", "start", 0)
  /\ UNCHANGED <<srv, app, main, reader, rturn, wire, missed, p, cap, sock, got, disk, reg,
                 winVars, work>>

\* An ack that does not look at the last call's outcome.
AckAlways(ok) == msg' = IF sock = "open" THEN "accepted" ELSE "lost"

\* deliveryAck, on the socket the frame came from.
DeliveryAck(ok) ==
  msg' = IF sock # "open" THEN "lost" ELSE IF ok THEN "accepted" ELSE "failed"

\* A refused steer falls back to turn/start.
MeshSteered ==
  /\ mesh = "steer" /\ calls["mesh"].st \in {"ok", "err"}
  /\ IF calls["mesh"].st = "ok"
       THEN mesh' = "read" /\ Returned("mesh") /\ DeliveryAck(TRUE) /\ UNCHANGED out
       ELSE mesh' = "start" /\ Call("mesh", "start", 0) /\ UNCHANGED msg
  /\ turn' = 0
  /\ UNCHANGED <<srv, app, main, reader, rturn, wire, missed, p, cap, sock, got, disk, reg,
                 winVars, work>>

MeshStarted ==
  /\ mesh = "start" /\ calls["mesh"].st \in {"ok", "err"}
  /\ mesh' = "read" /\ Returned("mesh") /\ DeliveryAck(calls["mesh"].st = "ok")
  /\ UNCHANGED <<srv, app, main, reader, rturn, out, wire, missed, p, cap, turn, sock, got,
                 disk, reg, winVars, work>>

\* The read fails: after a second the thread connects again.
MeshReconnects ==
  /\ mesh = "read" /\ sock = "none"
  /\ mesh' = "restore"
  /\ UNCHANGED <<appVars, p, cap, turn, sock, msg, got, disk, reg, winVars, work>>

-----------------------------------------------------------------------------
(* The rest of the daemon, and the host (external) *)

\* The daemon sends a message over the thread's socket.
Deliver ==
  /\ Spend("msgs") /\ sock = "open" /\ msg = "none"
  /\ msg' = "sent"
  /\ UNCHANGED <<appVars, p, cap, mesh, turn, sock, got, disk, reg, winVars>>

MeshLost ==
  /\ Spend("fails") /\ sock = "open"
  /\ sock' = "none" /\ reg' = SocketClosed
  /\ msg' = IF msg = "sent" THEN "lost" ELSE msg
  /\ UNCHANGED <<appVars, p, cap, mesh, turn, got, disk, winVars>>

\* A terminal offline, the operator's close, the reaper or the eviction takes a peer
\* of the thread; retiring an id severs its socket.  The last two take offline peers
\* only and forget record and mapping, the eviction without a tombstone.
Fate(i, f) ==
  /\ Spend("fates")
  /\ reg[i] \in IF f \in {"gone", "lost"} THEN {"offline"} ELSE {"online", "offline"}
  /\ reg' = [reg EXCEPT ![i] = f]
  /\ sock' = IF i = p.id THEN "none" ELSE sock
  /\ msg' = IF i = p.id /\ msg = "sent" THEN "lost" ELSE msg
  /\ UNCHANGED <<appVars, p, cap, mesh, turn, got, disk, winVars>>

\* The second half of the operator's close, UnregisterPeer.
Unregister(i) ==
  /\ reg[i] = "hard"
  /\ reg' = [reg EXCEPT ![i] = "closed"]
  /\ UNCHANGED <<appVars, p, cap, mesh, turn, sock, msg, got, disk, winVars, work>>

\* A day passes: the certificates minted so far expire.
Expire ==
  /\ Spend("fates") /\ disk.cert # 0
  /\ p' = [p EXCEPT !.stale = p.cert # 0]
  /\ disk' = [disk EXCEPT !.stale = TRUE]
  /\ UNCHANGED <<appVars, cap, mesh, turn, sock, msg, got, reg, winVars>>

\* Lazy repair demotes a peer that is registered and has no socket.
Demote(i) ==
  /\ reg[i] = "online" /\ ~(sock = "open" /\ p.id = i)
  /\ reg' = [reg EXCEPT ![i] = "offline"]
  /\ UNCHANGED <<appVars, p, cap, mesh, turn, sock, msg, got, disk, winVars, work>>

\* The bridge dies and is started again by its service.
Crash ==
  /\ Spend("fails")
  /\ app' = "nil" /\ main' = "connect" /\ reader' = "off" /\ rturn' = 0
  /\ out' = <<>> /\ wire' = <<>> /\ calls' = NoCalls /\ missed' = FALSE
  /\ srv' = [srv EXCEPT !.init = FALSE]
  /\ p' = NoPeer /\ cap' = [turn |-> 0, gen |-> 0] /\ mesh' = "off" /\ turn' = 0
  /\ sock' = "none" /\ reg' = SocketClosed
  /\ msg' = IF msg \in {"sent", "taken"} THEN "lost" ELSE msg
  /\ UNCHANGED <<got, disk, winVars>>

\* Another runtime's hooks post a final turn, or a tailer a delta, of a turn
\* of their own.
HookPosts ==
  /\ Spend("posts")
  /\ \/ IngestChatTurn(MaxTurns + 1)
     \/ DeltaChecked(MaxTurns + 1)
  /\ UNCHANGED <<appVars, peerVars>>

HookAdds == DeltaAdded /\ UNCHANGED <<appVars, peerVars, work>>

Watch == Spend("streams") /\ Subscribe /\ UNCHANGED <<appVars, peerVars>>
Leave == Spend("streams") /\ StreamGone /\ UNCHANGED <<appVars, peerVars>>
Follow == (StreamStep \/ Signal) /\ UNCHANGED <<appVars, peerVars, work>>

-----------------------------------------------------------------------------
Main   == \/ MainConnects \/ MainHello \/ MainInit \/ MainList \/ MainListed
          \/ MainRead \/ MainServe \/ MainCloses \/ MainClears
Reader == ReaderTakes \/ ReaderFinishes \/ ReaderFails
Mesh   == \/ MeshRestore \/ MeshRegister \/ MeshPersist \/ MeshContext \/ MeshInjected
          \/ MeshDial \/ MeshTakes \/ MeshSteered \/ MeshStarted \/ MeshReconnects
Capture  == CaptureReads \/ CaptureFinishes
Discover == DiscoverReturns

Environment ==
  \/ SrvOpen \/ SrvClose \/ SrvTurn \/ SrvComplete \/ AppLost
  \/ \E a \in Actors : CallTimeout(a)
  \/ Deliver \/ MeshLost \/ Crash \/ Expire
  \/ \E i \in Ids, f \in {"soft", "hard", "gone", "lost"} : Fate(i, f)
  \/ \E i \in Ids : Unregister(i) \/ Demote(i)
  \/ HookPosts \/ HookAdds \/ Watch \/ Leave

Next == Main \/ Reader \/ Mesh \/ Capture \/ Discover \/ SrvServe \/ Follow \/ Environment

Spec == Init /\ [][Next]_vars

\* Every goroutine keeps running, the App Server answers what it receives, and
\* a subscriber's handler runs when it is woken.
Fairness ==
  /\ WF_vars(Main) /\ WF_vars(Reader) /\ WF_vars(Mesh)
  /\ WF_vars(Capture) /\ WF_vars(Discover) /\ WF_vars(SrvServe)
  /\ WF_vars(Signal /\ UNCHANGED <<appVars, peerVars, work>>)
  /\ WF_vars(StreamStep /\ UNCHANGED <<appVars, peerVars, work>>)

FairSpec == Spec /\ Fairness

-----------------------------------------------------------------------------
\* The window keeps its bounds and numbering, a pending call belongs to an
\* actor that is in a call, a connected mesh socket to a registered peer.
TypeOK ==
  /\ WindowTypeOK
  /\ app \in {"nil", "up", "dead"}
  /\ main \in {"connect", "hello", "init", "load", "list", "read", "serve", "close"}
  /\ reader \in {"off", "run", "finish", "failed"}
  /\ (reader = "off") = (app = "nil")
  /\ calls["main"].st # "none" => main \in {"init", "list", "read"}
  /\ calls["mesh"].st # "none" => mesh \in {"inject", "steer", "start"}
  /\ sock = "open" => p.id # 0 /\ reg[p.id] = "online"
  /\ mesh = "off" <=> ~p.on
  /\ p.active \in 0 .. MaxTurns /\ p.hint \in 0 .. MaxIds /\ p.id \in 0 .. MaxIds /\ disk.cert \in 0 .. MaxIds

\* A delivery acked "accepted" was given to the thread, whatever the turn did
\* meanwhile: a steer refused because its turn ended, a call that timed out or
\* lost its connection, and the fallback to turn/start (inject, deliveryAck).
AckTruthful == msg = "accepted" => got

\* While its unexpired certificate is on disk a thread keeps its peer id through
\* bridge crashes, lost sockets and soft retirement: the daemon mints another id
\* for it only after the reaper has forgotten one (register, restoreIdentity,
\* handleValidateRuntimeIdentity).
IdentityKept ==
  [][\A i \in Ids : disk.cert # 0 /\ ~disk.stale /\ reg[i] = "none" /\ reg'[i] # "none"
                      => \E j \in Ids : reg[j] \in {"gone", "lost"}]_vars

Served == /\ main = "serve" /\ app = "up" /\ p.on /\ mesh \in {"read", "steer", "start"}
          /\ sock = "open"

\* The daemon refuses the thread for ever: the certificate has expired or its peer
\* was closed, the claim it makes without one is retired, or its name leads to a
\* retired record that the certificate does not name or cannot lift.
Barred ==
  \/ p.id = 0 /\ p.cert # 0 /\ (p.stale \/ reg[p.cert] \in {"hard", "closed"})
  \/ p.cert = 0 /\ Claim # 0 /\ Retired(reg[Claim])
  \/ \E i \in Ids : \/ reg[i] \in {"hard", "shadow"}
                    \/ reg[i] = "soft" /\ p.cert \notin {0, i}

\* A loaded thread is always served again: the bridge gets back to the App
\* Server, finds the thread whether it was announced, resumed or loaded while
\* nobody listened, registers it and connects it, unless it is
\* barred or the lookup of a resumed thread timed out (runAppServer, call, failPending, loadExistingThreads, runMesh).
ThreadServed == []<>(srv.open => Served \/ missed \/ Barred)
=============================================================================
