------------------------------ MODULE DxClient ------------------------------
(***************************************************************************)
(* One dxLink websocket client (dxclient/client.go), goroutine by          *)
(* goroutine, from Dial to the end of its loops, driven the way            *)
(* dialAndSubscribe and ingressWithReconnect (service/service.go) drive    *)
(* it.  Unbuffered channel operations are rendezvous: one action moves     *)
(* both sides.  The goroutines are                                         *)
(*   main      Dial, Authenticate, OpenFeed, Rebind's frame, then C()      *)
(*   callers   UpdateSubscription on the open feed channel                 *)
(*   keepalive the ticker goroutine started by the SETUP handler           *)
(*   writer    writeForever          reader  readForever's inner goroutine *)
(*   disp      readForever's select loop and the handlers it fans out to   *)
(*   closer    C's goroutine that closes the stream                        *)
(*   cons      runIngressLoop        sup     ingressWithReconnect          *)
(* The server (not in this repository) answers each frame as dxLink does.  *)
(***************************************************************************)
EXTENDS Naturals, Sequences

CONSTANTS
    Callers,    \* goroutines calling UpdateSubscription
    MaxData     \* bound: FEED_DATA frames the server pushes

ASSUME ClientAssumption == MaxData \in Nat /\ Callers \cap {"main", "keepalive"} = {}

VARIABLES
    main,       \* [stage, ph]: the handshake step main is in
    snd,        \* per sender, where in Send it is
    wrote,      \* per sender, history: its current frame reached the socket
    writer,     \* [at, pay]: pay is the sender whose payload it holds
    reader,     \* [at, msg]
    disp,       \* [at, msg]
    running,    \* per handler, the goroutine handling disp.msg
    handlers,   \* c.handlers, the registered ones
    readErr,    \* the buffered error of the inner reader
    cfgDone,    \* OpenFeed's buffered done channel
    strikes,    \* unauthorizedCount
    done,       \* c.done is closed
    ctx,        \* "live", "cancelled" (clientCancel) or "shutdown" (parent)
    counted,    \* c.wg.Add(2) has run
    out,        \* C's channel: "none", "open", "closed"
    cons,       \* [at, got]: got is the last FEED_DATA consumed
    sup,        \* "running", "waiting" (in Wait), "drained", "stopped"
    panic,      \* "none" or what crashed the process
    sock,       \* "up" or "broken"
    inbox,      \* frames on their way from the server
    srv         \* [seen, token, pushed]: handshake frames seen, whether the
                \* token is good, FEED_DATA pushed

sendVars == <<snd, wrote>>
callVars == <<main, cfgDone, strikes>>
readVars == <<reader, disp, running, handlers, readErr>>
lifeVars == <<done, ctx, counted, panic>>
feedVars == <<out, cons, sup>>
netVars == <<sock, inbox, srv>>
vars == <<sendVars, callVars, writer, readVars, lifeVars, feedVars, netVars>>

Senders == Callers \cup {"main", "keepalive"}
Stages == <<"setup", "auth", "open", "config", "sub">>
Handlers == {"setup", "auth", "open", "config", "stream"}
Data == [kind : {"DATA"}, n : 1..MaxData]
Msg(kind) == [kind |-> kind, n |-> 0]
Replies == {Msg(k) : k \in {"SETUP", "UNAUTH", "AUTHOK", "OPENED", "CONFIG"}}
NoMsg == Msg("NONE")

(* Types of the variables, by the goroutines they belong to. *)
SendTypes ==
    /\ main \in [stage : 1..6, ph : {"spawn", "count", "begin", "send", "wait", "end", "failed"}]
    /\ snd \in [Senders -> {"off", "idle", "offer", "ackwait", "ok", "err"}]
    /\ wrote \in [Senders -> BOOLEAN]
    /\ writer \in [at : {"off", "select", "write", "ack", "exited"}, pay : Senders]
ReadTypes ==
    /\ reader \in [at : {"off", "read", "offer", "exited"}, msg : Data \cup Replies \cup {NoMsg}]
    /\ disp \in [at : {"off", "select", "run", "exited"}, msg : Data \cup Replies \cup {NoMsg}]
    /\ running \in [Handlers -> {"off", "enter", "send"}]
    /\ handlers \in SUBSET Handlers
FlagTypes == {readErr, cfgDone, done, counted} \subseteq BOOLEAN
LifeTypes ==
    /\ strikes \in 0..1
    /\ ctx \in {"live", "cancelled", "shutdown"}
    /\ out \in {"none", "open", "closed"}
    /\ cons \in [at : {"off", "recv", "busy", "exited"}, got : 0..MaxData]
    /\ sup \in {"running", "waiting", "drained", "stopped"}
    /\ panic \in {"none", "waitgroup", "closed stream"}
NetTypes ==
    /\ sock \in {"up", "broken"}
    /\ inbox \in Seq(Data \cup Replies)
    /\ srv \in [seen : 0..5, token : BOOLEAN, pushed : 0..MaxData]
TypeOK == SendTypes /\ ReadTypes /\ FlagTypes /\ LifeTypes /\ NetTypes

(* The websocket is dialled and the two loops are being started. *)
Init ==
    /\ main = [stage |-> 1, ph |-> "spawn"]
    /\ snd = [s \in Senders |-> IF s = "keepalive" THEN "off" ELSE "idle"]
    /\ wrote = [s \in Senders |-> FALSE]
    /\ writer = [at |-> "off", pay |-> "main"]
    /\ reader = [at |-> "off", msg |-> NoMsg]
    /\ disp = [at |-> "off", msg |-> NoMsg]
    /\ running = [h \in Handlers |-> "off"]
    /\ handlers = {}
    /\ readErr = FALSE /\ cfgDone = FALSE /\ done = FALSE /\ counted = FALSE
    /\ strikes = 0
    /\ ctx = "live"
    /\ out = "none"
    /\ cons = [at |-> "off", got |-> 0]
    /\ sup = "running"
    /\ panic = "none"
    /\ sock = "up"
    /\ inbox = <<>>
    /\ srv \in [seen : {0}, token : BOOLEAN, pushed : {0}]

-----------------------------------------------------------------------------
(* Send: select on egress and c.done, then on the payload's done channel   *)
(* and c.done.  Taking the payload is the writer's step.                   *)
StartSend(s) ==
    /\ snd' = [snd EXCEPT ![s] = "offer"]
    /\ wrote' = [wrote EXCEPT ![s] = FALSE]

(* Mutant: only the first of Send's two selects watches c.done. *)
SendAbortedEarly(s) ==
    /\ snd[s] = "offer"
    /\ done
    /\ snd' = [snd EXCEPT ![s] = "err"]
    /\ UNCHANGED <<wrote, callVars, writer, readVars, lifeVars, feedVars, netVars>>

SendAborted(s) ==
    /\ snd[s] \in {"offer", "ackwait"}
    /\ done
    /\ snd' = [snd EXCEPT ![s] = "err"]
    /\ UNCHANGED <<wrote, callVars, writer, readVars, lifeVars, feedVars, netVars>>

(* UpdateSubscription once feedChannelID is set (the fifth stage and on);  *)
(* before that it is refused without touching the connection.              *)
CallerSend(p) ==
    /\ snd[p] = "idle"
    /\ main.stage >= 5
    /\ StartSend(p)
    /\ UNCHANGED <<callVars, writer, readVars, lifeVars, feedVars, netVars>>

CallerReturn(p) ==
    /\ snd[p] \in {"ok", "err"}
    /\ snd' = [snd EXCEPT ![p] = "idle"]
    /\ UNCHANGED <<wrote, callVars, writer, readVars, lifeVars, feedVars, netVars>>

(* The ticker goroutine ignores what Send returns and stops only on its    *)
(* context; when that is done and the ticker has fired, its select may     *)
(* take either.                                                            *)
KeepaliveTick ==
    /\ snd["keepalive"] \in {"idle", "ok", "err"}
    /\ StartSend("keepalive")
    /\ UNCHANGED <<callVars, writer, readVars, lifeVars, feedVars, netVars>>

KeepaliveStops ==
    /\ snd["keepalive"] \in {"idle", "ok", "err"}
    /\ ctx # "live"
    /\ snd' = [snd EXCEPT !["keepalive"] = "off"]
    /\ UNCHANGED <<wrote, callVars, writer, readVars, lifeVars, feedVars, netVars>>

-----------------------------------------------------------------------------
(* A loop that exits closes c.done once and calls wg.Done, which panics if *)
(* Dial has not reached wg.Add(2) yet.                                     *)
LoopExit ==
    /\ done' = TRUE
    /\ panic' = IF counted THEN panic ELSE "waitgroup"
    /\ UNCHANGED <<ctx, counted>>

(* Mutant: the payload is acknowledged when it is taken. *)
WriterTakeAcked(s) ==
    /\ writer.at = "select"
    /\ snd[s] = "offer"
    /\ writer' = [at |-> "ack", pay |-> s]
    /\ snd' = [snd EXCEPT ![s] = "ackwait"]
    /\ UNCHANGED <<wrote, callVars, readVars, lifeVars, feedVars, netVars>>

(* writeForever *)
WriterTake(s) ==
    /\ writer.at = "select"
    /\ snd[s] = "offer"
    /\ writer' = [at |-> "write", pay |-> s]
    /\ snd' = [snd EXCEPT ![s] = "ackwait"]
    /\ UNCHANGED <<wrote, callVars, readVars, lifeVars, feedVars, netVars>>

(* The handshake frame a sender's payload is: callers subscribe, which is  *)
(* the fifth; a keepalive is none (0).                                     *)
FrameOf(s) == CASE s = "main" -> main.stage
                [] s = "keepalive" -> 0
                [] OTHER -> 5

(* What the server answers.  After SETUP dxLink also reports that the      *)
(* session is not authorized yet; the stub servers leave that out.         *)
AnswersTo(f) ==
    CASE f = 1 -> {<<Msg("SETUP"), Msg("UNAUTH")>>, <<Msg("SETUP")>>}
      [] f = 2 -> {<<Msg(IF srv.token THEN "AUTHOK" ELSE "UNAUTH")>>}
      [] f = 3 -> {<<Msg("OPENED")>>}
      [] f = 4 -> {<<Msg("CONFIG")>>}
      [] OTHER -> {<<>>}

(* WriteMessage returns nil.  On a broken socket the bytes may still be    *)
(* buffered, but nobody answers.                                           *)
WriterWrites ==
    LET f == FrameOf(writer.pay)
    IN  /\ writer.at = "write"
        /\ writer' = [writer EXCEPT !.at = "ack"]
        /\ wrote' = [wrote EXCEPT ![writer.pay] = TRUE]
        /\ \/ /\ sock = "up"
              /\ \E a \in AnswersTo(f) : inbox' = inbox \o a
              /\ srv' = [srv EXCEPT !.seen = IF f > @ THEN f ELSE @]
           \/ /\ sock = "broken"
              /\ UNCHANGED <<inbox, srv>>
        /\ UNCHANGED <<snd, callVars, readVars, lifeVars, feedVars, sock>>

(* payload.done <- struct{}{}: only a sender still in Send receives it. *)
WriterAcks ==
    /\ writer.at = "ack"
    /\ snd[writer.pay] = "ackwait"
    /\ writer' = [writer EXCEPT !.at = "select"]
    /\ snd' = [snd EXCEPT ![writer.pay] = "ok"]
    /\ UNCHANGED <<wrote, callVars, readVars, lifeVars, feedVars, netVars>>

(* Mutant: the select does not watch the context. *)
WriterExitsOnError ==
    /\ writer.at = "write" /\ sock = "broken"
    /\ writer' = [writer EXCEPT !.at = "exited"]
    /\ LoopExit
    /\ UNCHANGED <<sendVars, callVars, readVars, feedVars, netVars>>

(* The write fails, or the select sees the cancelled context. *)
WriterExits ==
    /\ \/ writer.at = "write" /\ sock = "broken"
       \/ writer.at = "select" /\ ctx # "live"
    /\ writer' = [writer EXCEPT !.at = "exited"]
    /\ LoopExit
    /\ UNCHANGED <<sendVars, callVars, readVars, feedVars, netVars>>

-----------------------------------------------------------------------------
(* readForever's inner goroutine: one frame at a time, handed to the       *)
(* dispatch loop.  It closes the connection when it leaves.                *)
ReaderRead ==
    /\ reader.at = "read"
    /\ inbox # <<>>
    /\ reader' = [at |-> "offer", msg |-> Head(inbox)]
    /\ inbox' = Tail(inbox)
    /\ UNCHANGED <<sendVars, callVars, writer, disp, running, handlers, readErr,
                   lifeVars, feedVars, sock, srv>>

ReaderExits ==
    /\ \/ reader.at = "read" /\ sock = "broken" /\ readErr' = TRUE
       \/ reader.at = "offer" /\ ctx # "live" /\ UNCHANGED readErr
    /\ reader' = [at |-> "exited", msg |-> NoMsg]
    /\ sock' = "broken"
    /\ UNCHANGED <<sendVars, callVars, writer, disp, running, handlers,
                   lifeVars, feedVars, inbox, srv>>

(* readForever's select loop: the handlers registered now each get a       *)
(* goroutine, and the loop waits for all of them.                          *)
DispatchTake ==
    /\ disp.at = "select"
    /\ reader.at = "offer"
    /\ disp' = [at |-> "run", msg |-> reader.msg]
    /\ reader' = [at |-> "read", msg |-> NoMsg]
    /\ running' = [h \in Handlers |-> IF h \in handlers THEN "enter" ELSE "off"]
    /\ UNCHANGED <<sendVars, callVars, writer, handlers, readErr, lifeVars, feedVars, netVars>>

(* Mutant: the loop does not wait for the handlers it started. *)
DispatchWaitedNot ==
    /\ disp.at = "run"
    /\ disp' = [at |-> "select", msg |-> NoMsg]
    /\ UNCHANGED <<sendVars, callVars, writer, reader, running, handlers, readErr,
                   lifeVars, feedVars, netVars>>

DispatchWaited ==
    /\ disp.at = "run"
    /\ \A h \in Handlers : running[h] = "off"
    /\ disp' = [at |-> "select", msg |-> NoMsg]
    /\ UNCHANGED <<sendVars, callVars, writer, reader, running, handlers, readErr,
                   lifeVars, feedVars, netVars>>

DispatchExits ==
    /\ disp.at = "select"
    /\ ctx # "live" \/ readErr
    /\ disp' = [at |-> "exited", msg |-> NoMsg]
    /\ LoopExit
    /\ UNCHANGED <<sendVars, callVars, writer, reader, running, handlers, readErr,
                   feedVars, netVars>>

-----------------------------------------------------------------------------
(* The handler goroutines.  A handler the message is not for returns, and  *)
(* so does the authentication handler on the first UNAUTHORIZED.           *)
Wanted(h) == CASE h = "setup" -> {"SETUP"}
               [] h = "auth" -> {"AUTHOK", "UNAUTH"}
               [] h = "open" -> {"OPENED"}
               [] h = "config" -> {"CONFIG"}
               [] OTHER -> {}

HandlerIgnores(h) ==
    /\ running[h] = "enter"
    /\ h # "stream"
    /\ \/ disp.msg.kind \notin Wanted(h) /\ UNCHANGED strikes
       \/ h = "auth" /\ disp.msg.kind = "UNAUTH" /\ strikes = 0 /\ strikes' = 1
    /\ running' = [running EXCEPT ![h] = "off"]
    /\ UNCHANGED <<sendVars, main, cfgDone, writer, reader, disp, handlers, readErr,
                   lifeVars, feedVars, netVars>>

(* A handler that got its message unregisters itself and goes on to report *)
(* on its done channel; the SETUP handler first starts the keepalives.     *)
HandlerAccepts(h) ==
    /\ running[h] = "enter"
    /\ disp.msg.kind \in Wanted(h)
    /\ (h = "auth" /\ disp.msg.kind = "UNAUTH") => strikes > 0
    /\ handlers' = handlers \ {h}
    /\ running' = [running EXCEPT ![h] = "send"]
    /\ snd' = IF h = "setup" THEN [snd EXCEPT !["keepalive"] = "idle"] ELSE snd
    /\ UNCHANGED <<wrote, callVars, writer, reader, disp, readErr, lifeVars, feedVars, netVars>>

Fail == /\ main' = [main EXCEPT !.ph = "failed"]
        /\ ctx' = IF ctx = "live" THEN "cancelled" ELSE ctx

Advance == /\ main' = [stage |-> main.stage + 1, ph |-> "begin"]
           /\ UNCHANGED ctx

(* Mutant: the authentication handler reports a refusal as success. *)
HandlerReportsNil(h) ==
    /\ running[h] = "send"
    /\ h \in {"setup", "auth", "open"}
    /\ main.ph = "wait" /\ Stages[main.stage] = h
    /\ Advance
    /\ running' = [running EXCEPT ![h] = "off"]
    /\ UNCHANGED <<sendVars, cfgDone, strikes, writer, reader, disp, handlers, readErr,
                   done, counted, panic, feedVars, netVars>>

(* done <- err on an unbuffered channel: main must still be waiting. *)
HandlerReports(h) ==
    /\ running[h] = "send"
    /\ h \in {"setup", "auth", "open"}
    /\ main.ph = "wait" /\ Stages[main.stage] = h
    /\ IF disp.msg.kind = "UNAUTH" THEN Fail ELSE Advance
    /\ running' = [running EXCEPT ![h] = "off"]
    /\ UNCHANGED <<sendVars, cfgDone, strikes, writer, reader, disp, handlers, readErr,
                   done, counted, panic, feedVars, netVars>>

(* OpenFeed's done channel is buffered: the handler never blocks. *)
ConfigReports ==
    /\ running["config"] = "send"
    /\ cfgDone' = TRUE
    /\ running' = [running EXCEPT !["config"] = "off"]
    /\ UNCHANGED <<sendVars, main, strikes, writer, reader, disp, handlers, readErr,
                   lifeVars, feedVars, netVars>>

-----------------------------------------------------------------------------
(* C's handler: select on the stream and c.done, for every message.  It    *)
(* parks while neither is ready; closing c.done wakes a parked one.        *)
StreamParks ==
    /\ running["stream"] = "enter"
    /\ ~done
    /\ running' = [running EXCEPT !["stream"] = "send"]
    /\ UNCHANGED <<sendVars, callVars, writer, reader, disp, handlers, readErr,
                   lifeVars, feedVars, netVars>>

StreamDelivers ==
    /\ running["stream"] = "enter" \/ (running["stream"] = "send" /\ ~done)
    /\ out = "open"
    /\ cons.at = "recv"
    /\ cons' = [at |-> "busy", got |-> IF disp.msg.kind = "DATA" THEN disp.msg.n ELSE cons.got]
    /\ running' = [running EXCEPT !["stream"] = "off"]
    /\ UNCHANGED <<sendVars, callVars, writer, reader, disp, handlers, readErr,
                   lifeVars, out, sup, netVars>>

StreamGivesUp ==
    /\ running["stream"] \in {"enter", "send"}
    /\ done
    /\ running' = [running EXCEPT !["stream"] = "off"]
    /\ UNCHANGED <<sendVars, callVars, writer, reader, disp, handlers, readErr,
                   lifeVars, feedVars, netVars>>

(* The select of a handler that starts after the stream was closed may     *)
(* pick the send on the closed channel.                                    *)
StreamPanics ==
    /\ running["stream"] = "enter"
    /\ out = "closed"
    /\ panic' = "closed stream"
    /\ UNCHANGED <<sendVars, callVars, writer, readVars, done, ctx, counted, feedVars, netVars>>

(* Mutant: the stream is left open when the connection dies. *)
CloserLeavesOpen ==
    /\ out = "open"
    /\ done
    /\ handlers' = handlers \ {"stream"}
    /\ UNCHANGED <<sendVars, callVars, writer, reader, disp, running, readErr,
                   lifeVars, feedVars, netVars>>

(* C's second goroutine. *)
CloserRuns ==
    /\ out = "open"
    /\ done
    /\ handlers' = handlers \ {"stream"}
    /\ out' = "closed"
    /\ UNCHANGED <<sendVars, callVars, writer, reader, disp, running, readErr,
                   lifeVars, cons, sup, netVars>>
-----------------------------------------------------------------------------
(* main: Dial starts the loops, counts them, then each stage registers its *)
(* handler, sends its frame and waits for the answer.                      *)
MainSpawns ==
    /\ main.ph = "spawn"
    /\ main' = [main EXCEPT !.ph = "count"]
    /\ writer' = [writer EXCEPT !.at = "select"]
    /\ reader' = [reader EXCEPT !.at = "read"]
    /\ disp' = [disp EXCEPT !.at = "select"]
    /\ UNCHANGED <<sendVars, cfgDone, strikes, running, handlers, readErr,
                   lifeVars, feedVars, netVars>>

MainCounts ==
    /\ main.ph = "count"
    /\ main' = [main EXCEPT !.ph = "begin"]
    /\ counted' = TRUE
    /\ UNCHANGED <<sendVars, cfgDone, strikes, writer, readVars, done, ctx, panic,
                   feedVars, netVars>>

(* The fifth stage, Rebind's frame, has no answer and so no handler. *)
Registers(st) == IF st = 5 THEN {} ELSE {Stages[st]}

MainBegins ==
    /\ main.ph = "begin" /\ main.stage <= 5
    /\ main' = [main EXCEPT !.ph = "send"]
    /\ handlers' = handlers \cup Registers(main.stage)
    /\ StartSend("main")
    /\ UNCHANGED <<cfgDone, strikes, writer, reader, disp, running, readErr,
                   lifeVars, feedVars, netVars>>

(* Rebind with nothing registered, or the first connection: no frame. *)
MainHasNoReplay ==
    /\ main = [stage |-> 5, ph |-> "begin"]
    /\ Advance
    /\ UNCHANGED <<sendVars, cfgDone, strikes, writer, readVars, done, counted, panic,
                   feedVars, netVars>>

(* Send returned.  Dial and Authenticate ignore the result; from the       *)
(* channel request on an error ends the attempt, which cancels the client. *)
MainSent ==
    /\ main.ph = "send"
    /\ snd["main"] \in {"ok", "err"}
    /\ snd' = [snd EXCEPT !["main"] = "idle"]
    /\ \/ /\ snd["main"] = "err" /\ main.stage >= 3
          /\ Fail
          /\ handlers' = handlers \ Registers(main.stage)
       \/ /\ snd["main"] = "ok" \/ main.stage <= 2
          /\ IF main.stage = 5 THEN Advance
                               ELSE main' = [main EXCEPT !.ph = "wait"] /\ UNCHANGED ctx
          /\ UNCHANGED handlers
    /\ UNCHANGED <<wrote, cfgDone, strikes, writer, reader, disp, running, readErr,
                   done, counted, panic, feedVars, netVars>>

MainConfigured ==
    /\ main = [stage |-> 4, ph |-> "wait"]
    /\ cfgDone
    /\ Advance
    /\ UNCHANGED <<sendVars, cfgDone, strikes, writer, readVars, done, counted, panic,
                   feedVars, netVars>>

(* Mutant: Authenticate and openChannel wait for their answer alone. *)
MainGivesUpOnTimer ==
    /\ main = [stage |-> 4, ph |-> "wait"]
    /\ Fail
    /\ handlers' = handlers \ Registers(main.stage)
    /\ UNCHANGED <<sendVars, cfgDone, strikes, writer, reader, disp, running, readErr,
                   done, counted, panic, feedVars, netVars>>

(* Every wait but Dial's also watches c.done; only OpenFeed's has a timer. *)
MainGivesUp ==
    /\ main.ph = "wait"
    /\ (main.stage \in 2..4 /\ done) \/ main.stage = 4
    /\ Fail
    /\ handlers' = handlers \ Registers(main.stage)
    /\ UNCHANGED <<sendVars, cfgDone, strikes, writer, reader, disp, running, readErr,
                   done, counted, panic, feedVars, netVars>>

(* C(), then the ingress loop starts to consume the stream. *)
MainStreams ==
    /\ main = [stage |-> 6, ph |-> "begin"]
    /\ main' = [main EXCEPT !.ph = "end"]
    /\ handlers' = handlers \cup {"stream"}
    /\ out' = "open"
    /\ cons' = [cons EXCEPT !.at = "recv"]
    /\ UNCHANGED <<sendVars, cfgDone, strikes, writer, reader, disp, running, readErr,
                   lifeVars, sup, netVars>>

-----------------------------------------------------------------------------
(* runIngressLoop publishes a message before it receives the next, and     *)
(* returns when the stream is closed or the service shuts down.            *)
ConsumerPublished ==
    /\ cons.at = "busy"
    /\ cons' = [cons EXCEPT !.at = "recv"]
    /\ UNCHANGED <<sendVars, callVars, writer, readVars, lifeVars, out, sup, netVars>>

ConsumerExits ==
    /\ cons.at = "recv"
    /\ out = "closed" \/ ctx = "shutdown"
    /\ cons' = [cons EXCEPT !.at = "exited"]
    /\ UNCHANGED <<sendVars, callVars, writer, readVars, lifeVars, out, sup, netVars>>

(* ingressWithReconnect: on shutdown it returns, else it cancels the old   *)
(* client and waits for its two loops before it dials again.               *)
SupervisorReacts ==
    /\ sup = "running"
    /\ cons.at = "exited"
    /\ IF ctx = "shutdown" THEN sup' = "stopped" /\ UNCHANGED ctx
                           ELSE sup' = "waiting" /\ ctx' = "cancelled"
    /\ UNCHANGED <<sendVars, callVars, writer, readVars, done, counted, panic, out, cons, netVars>>

LoopsExited == disp.at = "exited" /\ writer.at = "exited"

SupervisorWaited ==
    /\ sup = "waiting"
    /\ LoopsExited
    /\ sup' = "drained"
    /\ UNCHANGED <<sendVars, callVars, writer, readVars, lifeVars, out, cons, netVars>>

-----------------------------------------------------------------------------
(* The environment: the server streams to a subscribed client, the         *)
(* connection may break and the service may shut down at any moment.       *)
ServerPushes ==
    /\ sock = "up"
    /\ srv.seen = 5
    /\ srv.pushed < MaxData
    /\ srv' = [srv EXCEPT !.pushed = @ + 1]
    /\ inbox' = Append(inbox, [kind |-> "DATA", n |-> srv.pushed + 1])
    /\ UNCHANGED <<sendVars, callVars, writer, readVars, lifeVars, feedVars, sock>>

Break ==
    /\ sock = "up"
    /\ sock' = "broken"
    /\ UNCHANGED <<sendVars, callVars, writer, readVars, lifeVars, feedVars, inbox, srv>>

Shutdown ==
    /\ ctx = "live"
    /\ ctx' = "shutdown"
    /\ UNCHANGED <<sendVars, callVars, writer, readVars, done, counted, panic, feedVars, netVars>>

-----------------------------------------------------------------------------
WriterStep == WriterWrites \/ WriterAcks \/ WriterExits
ReaderStep == ReaderRead \/ ReaderExits
DispatchStep == DispatchTake \/ DispatchWaited \/ DispatchExits
HandlerStep(h) == HandlerIgnores(h) \/ HandlerAccepts(h) \/ HandlerReports(h)
StreamStep == StreamParks \/ StreamDelivers \/ StreamGivesUp \/ StreamPanics
MainStep == \/ MainSpawns \/ MainCounts \/ MainBegins \/ MainHasNoReplay \/ MainSent
            \/ MainConfigured \/ MainGivesUp \/ MainStreams
ConsumerStep == ConsumerPublished \/ ConsumerExits
SupervisorStep == SupervisorReacts \/ SupervisorWaited

(* A panic in any goroutine ends the process. *)
Alive(A) == panic = "none" /\ A

Next ==
    \/ \E s \in Senders : Alive(SendAborted(s)) \/ Alive(WriterTake(s))
    \/ \E p \in Callers : Alive(CallerSend(p)) \/ Alive(CallerReturn(p))
    \/ Alive(KeepaliveTick) \/ Alive(KeepaliveStops)
    \/ Alive(WriterStep) \/ Alive(ReaderStep) \/ Alive(DispatchStep)
    \/ \E h \in Handlers : Alive(HandlerStep(h))
    \/ Alive(ConfigReports) \/ Alive(StreamStep) \/ Alive(CloserRuns)
    \/ Alive(MainStep) \/ Alive(ConsumerStep) \/ Alive(SupervisorStep)
    \/ Alive(ServerPushes) \/ Alive(Break) \/ Alive(Shutdown)

(* Every goroutine that can take a step eventually does: the Go scheduler  *)
(* runs all of them.  A blocked channel send is served in FIFO order, so a *)
(* sender on egress is not passed over for ever.  A select chooses at      *)
(* random among the ready cases, so the ticker goroutine does not prefer   *)
(* its ticker for ever once its context is done.  A write either completes *)
(* or fails.  Nothing is assumed of the callers, the ticker itself, the    *)
(* server, the network or the operator.                                    *)
Fairness ==
    /\ WF_vars(Alive(WriterStep)) /\ WF_vars(Alive(ReaderStep)) /\ WF_vars(Alive(DispatchStep))
    /\ \A s \in Senders : WF_vars(Alive(SendAborted(s))) /\ SF_vars(Alive(WriterTake(s)))
    /\ \A p \in Callers : WF_vars(Alive(CallerReturn(p)))
    /\ SF_vars(Alive(KeepaliveStops))
    /\ \A h \in Handlers : WF_vars(Alive(HandlerStep(h)))
    /\ WF_vars(Alive(ConfigReports)) /\ WF_vars(Alive(StreamStep)) /\ WF_vars(Alive(CloserRuns))
    /\ WF_vars(Alive(MainStep)) /\ WF_vars(Alive(ConsumerStep))
    /\ WF_vars(Alive(SupervisorStep))

Spec == Init /\ [][Next]_vars /\ Fairness

-----------------------------------------------------------------------------
Crashed == panic # "none"

(* The server sees SETUP, AUTH, CHANNEL_REQUEST, FEED_SETUP and            *)
(* FEED_SUBSCRIPTION in this order, whoever sends them, and never opens a  *)
(* channel for a token it rejected: each stage of dialAndSubscribe waits   *)
(* for the answer to the one before, and UpdateSubscription for the feed   *)
(* channel.                                                                *)
HandshakeInOrder ==
    [][(WriterWrites /\ sock = "up" /\ FrameOf(writer.pay) # 0) =>
         /\ \/ FrameOf(writer.pay) = srv.seen + 1
            \/ FrameOf(writer.pay) = 5 /\ srv.seen = 5
         /\ FrameOf(writer.pay) >= 3 => srv.token]_vars

(* The ingress loop gets FEED_DATA in the order the server sent them and,  *)
(* from its first one on until c.done is closed, without a gap: the        *)
(* dispatch loop waits for every handler of a message before it takes the  *)
(* next (client.go:496-513).  Once c.done is closed the stream handler's   *)
(* select may drop one message and deliver a later one.                    *)
DeliveredInOrder ==
    [][cons'.got # cons.got => /\ cons'.got > cons.got
                               /\ cons'.got = cons.got + 1 \/ cons.got = 0 \/ done]_vars

(* A nil error from Send means its own frame was written to the socket     *)
(* ("Returns once the frame has been written to the websocket",            *)
(* client.go:275), also when several senders share the writer.             *)
NilMeansWritten == \A s \in Senders : snd[s] = "ok" => wrote[s]

(* "The channel is closed when the connection dies" (client.go:56), and    *)
(* the ingress loop notices it, whatever the loops and senders were doing. *)
DeathNoticed == (done /\ out # "none") ~> (cons.at = "exited" \/ Crashed)

(* Send "Returns ErrClient if the connection is dead rather than blocking  *)
(* forever" (client.go:535-537): every Send returns.                       *)
SendReturns ==
    \A s \in Senders : (snd[s] \in {"offer", "ackwait"}) ~>
                       (snd[s] \notin {"offer", "ackwait"} \/ Crashed)

(* The handshake ends when the connection dies: every wait of main but     *)
(* Dial's for the SETUP reply (client.go:150) watches c.done, so main      *)
(* fails, gets through, or is stuck there and nowhere else.                *)
StuckInDial == main = [stage |-> 1, ph |-> "wait"]
AttemptEnds == done ~> (main.ph \in {"end", "failed"} \/ StuckInDial \/ Crashed)

(* "Per-client derived contexts ensure clean teardown of old goroutines"   *)
(* (TODO.md:205-206): both loops exit once the client is cancelled, after  *)
(* a loss, a failed attempt or a shutdown, and Wait returns.  Two things   *)
(* keep one for ever, and nothing else does: the writer acknowledges a     *)
(* Send that has left through c.done (client.go:346), or a handler reports *)
(* to a waiter that has (client.go:599).                                   *)
AckOrphaned == writer.at = "ack" /\ snd[writer.pay] # "ackwait"
ReportOrphaned == main.ph = "failed" /\ \E h \in Handlers : running[h] = "send"
Drains ==
    (ctx # "live") ~> ((LoopsExited /\ sup # "waiting") \/ AckOrphaned \/ ReportOrphaned \/ Crashed)

=============================================================================
