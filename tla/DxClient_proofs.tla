--------------------------- MODULE DxClient_proofs ---------------------------
(***************************************************************************)
(* Proofs about DxClient, for any set of callers and any number of data    *)
(* frames: what a nil Send means, that the handshake reaches the server in *)
(* order, and that the ingress loop is handed the data in order.           *)
(***************************************************************************)
EXTENDS DxClient, SequenceTheorems, TLAPS

Frames == Data \cup Replies

(* The phases main can be in at a stage; it is inside Send only in "send". *)
MainInv ==
    /\ main.ph \in {"spawn", "count"} => main.stage = 1
    /\ main.ph = "spawn" => writer.at = "off" /\ reader.at = "off" /\ disp.at = "off"
    /\ main.ph = "send" => main.stage <= 5
    /\ main.ph = "wait" => main.stage <= 4
    /\ snd["main"] = "offer" => main.ph = "send"

(* The handlers of a message run only while the dispatch loop waits for    *)
(* them, and one that reports got a message it wanted.                     *)
HandlerInv ==
    /\ disp.at # "run" => \A h \in Handlers : running[h] = "off"
    /\ \A h \in Handlers \ {"stream"} : running[h] = "send" => disp.msg.kind \in Wanted(h)

(* The payload of a sender that awaits its ack is the one the writer has,  *)
(* and it is on the socket when the writer has come to the ack.            *)
SendInv ==
    /\ \A s \in Senders :
        /\ snd[s] = "ok" => wrote[s]
        /\ snd[s] = "ackwait" => writer.at \in {"write", "ack", "exited"} /\ writer.pay = s
    /\ (writer.at = "ack" /\ snd[writer.pay] = "ackwait") => wrote[writer.pay]

(* An answer that is anywhere on its way to main follows the frame it      *)
(* answers.                                                                *)
Due(m) ==
    /\ m.kind = "SETUP" => srv.seen >= 1
    /\ m.kind = "AUTHOK" => srv.seen >= 2 /\ srv.token
    /\ m.kind = "OPENED" => srv.seen >= 3
    /\ m.kind = "CONFIG" => srv.seen >= 4
AnswerInv ==
    /\ \A i \in 1..Len(inbox) : Due(inbox[i])
    /\ Due(reader.msg) /\ Due(disp.msg)
    /\ cfgDone => srv.seen >= 4

(* The server is as far as main's stage, or one frame behind it: behind    *)
(* for sure while main has not handed its frame over, or the writer has    *)
(* not written it.  Only callers write past the fourth stage.              *)
StageInv ==
    /\ main.stage <= 4 => srv.seen = main.stage - 1 \/ srv.seen = main.stage
    /\ main.stage >= 5 => srv.seen \in {4, 5}
    /\ main.stage >= 3 => srv.token
    /\ (main.stage <= 4 /\ (main.ph \in {"spawn", "count", "begin"} \/ snd["main"] = "offer"))
           => srv.seen = main.stage - 1
    /\ (writer.at = "write" /\ writer.pay = "main") =>
           /\ main.ph \in {"send", "wait", "failed"} /\ main.stage <= 5
           /\ snd["main"] \notin {"offer", "ok"}
           /\ main.stage <= 4 => srv.seen = main.stage - 1
    /\ \A p \in Callers :
         snd[p] = "offer" \/ (writer.at = "write" /\ writer.pay = p) => main.stage >= 5

(* A queue of frames that still holds every data frame after m, in order,  *)
(* up to the top one pushed, and no other.                                 *)
Holds(q, m, top) ==
    /\ \A i \in 1..Len(q) : q[i].kind = "DATA" => q[i].n > m /\ q[i].n <= top
    /\ \A i, j \in 1..Len(q) :
         (i < j /\ q[i].kind = "DATA" /\ q[j].kind = "DATA") => q[i].n < q[j].n
    /\ \A v \in (m + 1)..top : \E i \in 1..Len(q) : q[i].kind = "DATA" /\ q[i].n = v

(* The last data frame the reader took is m, the last one it handed on is  *)
(* d, and the ingress loop has that one too, unless it is the frame the    *)
(* stream handler has yet to deliver; before the first delivery and after  *)
(* c.done is closed frames may be missing.                                 *)
Handed(m) == IF reader.msg.kind = "DATA" THEN m - 1 ELSE m
Delivered(d) == IF disp.msg.kind = "DATA" /\ running["stream"] # "off" THEN d - 1 ELSE d
FlowAt(m, d) ==
    /\ Holds(inbox, m, srv.pushed)
    /\ reader.msg.kind = "DATA" => reader.msg.n = m
    /\ d <= m /\ (reader.at # "exited" => d = Handed(m))
    /\ disp.msg.kind = "DATA" => disp.msg.n = d
    /\ cons.got <= Delivered(d)
    /\ cons.got = Delivered(d) \/ cons.got = 0 \/ done
FlowInv == \E m, d \in 0..srv.pushed : FlowAt(m, d)

(* The reader holds a frame only to offer it; the stream handler is        *)
(* registered while the stream is open, which c.done ends.                 *)
PipeInv ==
    /\ reader.at # "offer" => reader.msg = NoMsg
    /\ out = "none" => cons.got = 0
    /\ out = "open" => "stream" \in handlers
    /\ out = "closed" => done

Control == TypeOK /\ MainInv /\ HandlerInv
IInv == Control /\ SendInv /\ AnswerInv /\ StageInv /\ PipeInv /\ FlowInv

-----------------------------------------------------------------------------
(* Frames, queues and answers.                                             *)

(* The kinds of the frames. *)
LEMMA Kinds ==
    /\ NoMsg.kind = "NONE"
    /\ \A m \in Data : m.kind = "DATA" /\ m.n \in 1..MaxData
    /\ \A m \in Replies : m.kind \in {"SETUP", "UNAUTH", "AUTHOK", "OPENED", "CONFIG"}
BY DEF NoMsg, Msg, Data, Replies

(* The handlers main registers. *)
LEMMA RegistersHandlers ==
    ASSUME NEW st \in 1..5
    PROVE  Registers(st) \subseteq Handlers \ {"stream"}
<1>1. st \in {1, 2, 3, 4, 5}
  OBVIOUS
<1>2. QED
  BY <1>1 DEF Registers, Stages, Handlers

(* An answer of one frame. *)
LEMMA OneReply ==
    ASSUME NEW x \in Replies
    PROVE  <<x>> \in Seq(Replies) /\ \A i \in 1..Len(<<x>>) : <<x>>[i] = x
<1>1. <<x>> \in Seq(Replies) /\ Len(<<x>>) = 1 /\ <<x>>[1] = x
  OBVIOUS
<1>2. QED
  BY <1>1

(* An answer of two frames. *)
LEMMA TwoReplies ==
    ASSUME NEW x \in Replies, NEW y \in Replies
    PROVE  <<x, y>> \in Seq(Replies) /\ \A i \in 1..Len(<<x, y>>) : <<x, y>>[i] \in {x, y}
<1>1. /\ <<x, y>> \in Seq(Replies) /\ Len(<<x, y>>) = 2
      /\ <<x, y>>[1] = x /\ <<x, y>>[2] = y
  OBVIOUS
<1>2. \A i \in 1..2 : i = 1 \/ i = 2
  OBVIOUS
<1>3. QED
  BY <1>1, <1>2

(* The server answers each handshake frame with frames of its own kind. *)
LEMMA Answers ==
    ASSUME NEW f \in 0..5, NEW a \in AnswersTo(f)
    PROVE  /\ a \in Seq(Replies)
           /\ \A i \in 1..Len(a) :
                /\ a[i].kind # "DATA"
                /\ a[i].kind = "SETUP" => f = 1
                /\ a[i].kind = "AUTHOK" => f = 2 /\ srv.token
                /\ a[i].kind = "OPENED" => f = 3
                /\ a[i].kind = "CONFIG" => f = 4
<1>1. \A k \in {"SETUP", "UNAUTH", "AUTHOK", "OPENED", "CONFIG"} :
        Msg(k) \in Replies /\ Msg(k).kind = k
  BY DEF Msg, Replies
<1>2. CASE f = 1
  <2>1. a = <<Msg("SETUP"), Msg("UNAUTH")>> \/ a = <<Msg("SETUP")>>
    BY <1>2 DEF AnswersTo
  <2>2. a \in Seq(Replies) /\ \A i \in 1..Len(a) : a[i] \in {Msg("SETUP"), Msg("UNAUTH")}
    <3>1. Msg("SETUP") \in Replies /\ Msg("UNAUTH") \in Replies
      BY <1>1
    <3>2. CASE a = <<Msg("SETUP"), Msg("UNAUTH")>>
      BY <3>1, <3>2, TwoReplies, Zenon
    <3>3. CASE a = <<Msg("SETUP")>>
      BY <3>1, <3>3, OneReply
    <3>4. QED
      BY <2>1, <3>2, <3>3
  <2>3. QED
    BY <1>1, <1>2, <2>2
<1>3. CASE f = 2
  <2>1. (srv.token /\ a = <<Msg("AUTHOK")>>) \/ a = <<Msg("UNAUTH")>>
    BY <1>3 DEF AnswersTo
  <2>2. /\ a \in Seq(Replies)
        /\ \A i \in 1..Len(a) : a[i] = Msg("UNAUTH") \/ (srv.token /\ a[i] = Msg("AUTHOK"))
    <3>1. CASE srv.token /\ a = <<Msg("AUTHOK")>>
      BY <1>1, <3>1, OneReply
    <3>2. CASE a = <<Msg("UNAUTH")>>
      BY <1>1, <3>2, OneReply
    <3>3. QED
      BY <2>1, <3>1, <3>2
  <2>3. QED
    BY <1>1, <1>3, <2>2
<1>4. CASE f = 3
  <2>1. a = <<Msg("OPENED")>>
    BY <1>4 DEF AnswersTo
  <2>2. a \in Seq(Replies) /\ \A i \in 1..Len(a) : a[i] = Msg("OPENED")
    BY <1>1, <2>1, OneReply
  <2>3. QED
    BY <1>1, <1>4, <2>2
<1>5. CASE f = 4
  <2>1. a = <<Msg("CONFIG")>>
    BY <1>5 DEF AnswersTo
  <2>2. a \in Seq(Replies) /\ \A i \in 1..Len(a) : a[i] = Msg("CONFIG")
    BY <1>1, <2>1, OneReply
  <2>3. QED
    BY <1>1, <1>5, <2>2
<1>6. CASE f \in {0, 5}
  <2>1. a = <<>>
    BY <1>6 DEF AnswersTo
  <2>2. QED
    BY <2>1
<1>7. QED
  BY <1>2, <1>3, <1>4, <1>5, <1>6

(* Answers appended to the queue do not disturb the data in it. *)
LEMMA HoldsAnswers ==
    ASSUME NEW q \in Seq(Frames), NEW a \in Seq(Frames), NEW m \in Nat, NEW top \in Nat,
           Holds(q, m, top), \A i \in 1..Len(a) : a[i].kind # "DATA"
    PROVE  Holds(q \o a, m, top)
<1> DEFINE r == q \o a
<1>1. /\ Len(q) \in Nat /\ Len(a) \in Nat /\ Len(r) = Len(q) + Len(a)
      /\ \A i \in 1..Len(r) : r[i] = IF i <= Len(q) THEN q[i] ELSE a[i - Len(q)]
  BY ConcatProperties
<1> HIDE DEF r
<1>2. \A i \in 1..Len(q) : i \in 1..Len(r) /\ r[i] = q[i]
  BY <1>1
<1>3. \A i \in 1..Len(r) : r[i].kind = "DATA" => i \in 1..Len(q)
  <2> SUFFICES ASSUME NEW i \in 1..Len(r), i > Len(q) PROVE r[i].kind # "DATA"
    BY <1>1
  <2>1. i - Len(q) \in 1..Len(a) /\ r[i] = a[i - Len(q)]
    BY <1>1
  <2>2. QED
    BY <2>1
<1>4. Holds(r, m, top)
  BY <1>1, <1>2, <1>3 DEF Holds
<1>5. QED
  BY <1>4 DEF r

(* The next data frame goes to the end of the queue. *)
LEMMA HoldsPushed ==
    ASSUME NEW q \in Seq(Frames), NEW m \in Nat, NEW top \in Nat, m <= top,
           Holds(q, m, top), NEW x \in Frames, x.kind = "DATA", x.n = top + 1
    PROVE  Holds(Append(q, x), m, top + 1)
<1> DEFINE r == Append(q, x)
<1>1. /\ Len(q) \in Nat /\ Len(r) = Len(q) + 1
      /\ \A i \in 1..Len(q) : i \in 1..Len(r) /\ r[i] = q[i]
      /\ r[Len(q) + 1] = x
  OBVIOUS
<1> HIDE DEF r
<1>2. \A i \in 1..Len(r) : i \in 1..Len(q) \/ i = Len(q) + 1
  BY <1>1
<1>3. \A i \in 1..Len(q) : q[i].kind = "DATA" => q[i].n \in Nat
  <2> SUFFICES ASSUME NEW i \in 1..Len(q), q[i].kind = "DATA" PROVE q[i].n \in Nat
    OBVIOUS
  <2>1. q[i] \in Data
    BY Kinds DEF Frames
  <2>2. QED
    BY <2>1, Kinds
<1>4. \A i \in 1..Len(r) : r[i].kind = "DATA" => r[i].n > m /\ r[i].n <= top + 1
  <2> SUFFICES ASSUME NEW i \in 1..Len(r), r[i].kind = "DATA"
               PROVE  r[i].n > m /\ r[i].n <= top + 1
    OBVIOUS
  <2>1. CASE i \in 1..Len(q)
    <3>1. r[i] = q[i] /\ q[i].n \in Nat
      BY <1>1, <1>3, <2>1
    <3>2. q[i].n > m /\ q[i].n <= top
      BY <2>1, <3>1 DEF Holds
    <3>3. QED
      BY <3>1, <3>2
  <2>2. CASE i = Len(q) + 1
    BY <1>1, <2>2
  <2>3. QED
    BY <1>2, <2>1, <2>2
<1>5. \A i, j \in 1..Len(r) :
         (i < j /\ r[i].kind = "DATA" /\ r[j].kind = "DATA") => r[i].n < r[j].n
  <2> SUFFICES ASSUME NEW i \in 1..Len(r), NEW j \in 1..Len(r), i < j,
                      r[i].kind = "DATA", r[j].kind = "DATA"
               PROVE  r[i].n < r[j].n
    OBVIOUS
  <2>1. i \in 1..Len(q) /\ r[i] = q[i] /\ q[i].n \in Nat /\ q[i].n <= top
    BY <1>1, <1>2, <1>3 DEF Holds
  <2>2. CASE j \in 1..Len(q)
    BY <1>1, <2>1, <2>2 DEF Holds
  <2>3. CASE j = Len(q) + 1
    BY <1>1, <2>1, <2>3
  <2>4. QED
    BY <1>2, <2>2, <2>3
<1>6. \A v \in (m + 1)..(top + 1) : \E i \in 1..Len(r) : r[i].kind = "DATA" /\ r[i].n = v
  <2> SUFFICES ASSUME NEW v \in (m + 1)..(top + 1)
               PROVE  \E i \in 1..Len(r) : r[i].kind = "DATA" /\ r[i].n = v
    OBVIOUS
  <2>1. CASE v = top + 1
    BY <1>1, <2>1
  <2>2. CASE v \in (m + 1)..top
    BY <1>1, <2>2 DEF Holds
  <2>3. QED
    BY <2>1, <2>2
<1>7. QED
  BY <1>4, <1>5, <1>6 DEF Holds, r

(* A data frame at the head of the queue is the next one after m. *)
LEMMA HoldsHead ==
    ASSUME NEW q \in Seq(Frames), q # <<>>, NEW m \in Nat, NEW top \in Nat, Holds(q, m, top)
    PROVE  /\ Head(q).kind # "DATA" => Holds(Tail(q), m, top)
           /\ Head(q).kind = "DATA" =>
                Head(q).n = m + 1 /\ m + 1 <= top /\ Holds(Tail(q), m + 1, top)
<1> DEFINE r == Tail(q)
<1>1. /\ Len(q) \in Nat /\ Len(q) >= 1 /\ Head(q) = q[1] /\ Len(r) = Len(q) - 1
      /\ \A i \in 1..Len(r) : r[i] = q[i + 1] /\ i + 1 \in 1..Len(q)
  BY HeadTailProperties, EmptySeq
<1>2. \A i \in 1..Len(q) : i = 1 \/ (i - 1 \in 1..Len(r) /\ r[i - 1] = q[i])
  BY <1>1
<1> HIDE DEF r
<1>3. \A i \in 1..Len(q) : q[i].kind = "DATA" => q[i].n \in Nat
  <2> SUFFICES ASSUME NEW i \in 1..Len(q), q[i].kind = "DATA" PROVE q[i].n \in Nat
    OBVIOUS
  <2>1. q[i] \in Data
    BY Kinds DEF Frames
  <2>2. QED
    BY <2>1, Kinds
<1>4. \A i, j \in 1..Len(r) :
         (i < j /\ r[i].kind = "DATA" /\ r[j].kind = "DATA") => r[i].n < r[j].n
  <2> SUFFICES ASSUME NEW i \in 1..Len(r), NEW j \in 1..Len(r), i < j,
                      r[i].kind = "DATA", r[j].kind = "DATA"
               PROVE  r[i].n < r[j].n
    OBVIOUS
  <2>1. i + 1 \in 1..Len(q) /\ j + 1 \in 1..Len(q) /\ i + 1 < j + 1
    BY <1>1
  <2>2. r[i] = q[i + 1] /\ r[j] = q[j + 1]
    BY <1>1
  <2> DEFINE a == i + 1
             b == j + 1
  <2> HIDE DEF a, b
  <2>3. a \in 1..Len(q) /\ b \in 1..Len(q) /\ a < b /\ r[i] = q[a] /\ r[j] = q[b]
    BY <2>1, <2>2 DEF a, b
  <2>4. q[a].n < q[b].n
    BY <2>3 DEF Holds
  <2>5. QED
    BY <2>3, <2>4
<1>5. ASSUME Head(q).kind # "DATA" PROVE Holds(r, m, top)
  <2>1. \A i \in 1..Len(r) : r[i].kind = "DATA" => r[i].n > m /\ r[i].n <= top
    BY <1>1 DEF Holds
  <2>2. \A v \in (m + 1)..top : \E i \in 1..Len(r) : r[i].kind = "DATA" /\ r[i].n = v
    <3> SUFFICES ASSUME NEW v \in (m + 1)..top
                 PROVE  \E i \in 1..Len(r) : r[i].kind = "DATA" /\ r[i].n = v
      OBVIOUS
    <3>1. PICK i \in 1..Len(q) : q[i].kind = "DATA" /\ q[i].n = v
      BY DEF Holds
    <3>2. i - 1 \in 1..Len(r) /\ r[i - 1] = q[i]
      BY <1>1, <1>2, <1>5, <3>1
    <3>3. QED
      BY <3>1, <3>2
  <2>3. QED
    BY <1>4, <2>1, <2>2 DEF Holds
<1>6. ASSUME Head(q).kind = "DATA"
      PROVE  Head(q).n = m + 1 /\ m + 1 <= top /\ Holds(r, m + 1, top)
  <2>1. q[1].kind = "DATA" /\ q[1].n \in Nat /\ q[1].n > m /\ q[1].n <= top
    BY <1>1, <1>3, <1>6 DEF Holds
  <2>2. \A i \in 1..Len(r) : r[i].kind = "DATA" => r[i].n \in Nat /\ r[i].n > q[1].n /\ r[i].n <= top
    <3> SUFFICES ASSUME NEW i \in 1..Len(r), r[i].kind = "DATA"
                 PROVE  r[i].n \in Nat /\ r[i].n > q[1].n /\ r[i].n <= top
      OBVIOUS
    <3>1. i + 1 \in 1..Len(q) /\ 1 \in 1..Len(q) /\ 1 < i + 1 /\ r[i] = q[i + 1]
      BY <1>1
    <3>2. q[i + 1].n \in Nat /\ q[i + 1].n <= top
      BY <1>3, <3>1 DEF Holds
    <3>3. q[1].n < q[i + 1].n
      BY <2>1, <3>1 DEF Holds
    <3>4. QED
      BY <2>1, <3>1, <3>2, <3>3
  <2>3. q[1].n = m + 1
    <3>1. m + 1 \in (m + 1)..top
      BY <2>1
    <3>2. PICK i \in 1..Len(q) : q[i].kind = "DATA" /\ q[i].n = m + 1
      BY <3>1 DEF Holds
    <3>3. CASE i = 1
      BY <3>2, <3>3
    <3>4. CASE i # 1
      <4>1. i - 1 \in 1..Len(r) /\ r[i - 1] = q[i]
        BY <1>2, <3>4
      <4>2. r[i - 1].n > q[1].n
        BY <2>2, <3>2, <4>1
      <4>3. QED
        BY <2>1, <3>2, <4>1, <4>2
    <3>5. QED
      BY <3>3, <3>4
  <2>4. \A i \in 1..Len(r) : r[i].kind = "DATA" => r[i].n > m + 1 /\ r[i].n <= top
    BY <2>2, <2>3
  <2>5. \A v \in (m + 2)..top : \E i \in 1..Len(r) : r[i].kind = "DATA" /\ r[i].n = v
    <3> SUFFICES ASSUME NEW v \in (m + 2)..top
                 PROVE  \E i \in 1..Len(r) : r[i].kind = "DATA" /\ r[i].n = v
      OBVIOUS
    <3>1. v \in (m + 1)..top /\ v # m + 1
      OBVIOUS
    <3>2. PICK i \in 1..Len(q) : q[i].kind = "DATA" /\ q[i].n = v
      BY <3>1 DEF Holds
    <3>3. i - 1 \in 1..Len(r) /\ r[i - 1] = q[i]
      BY <1>2, <2>3, <3>1, <3>2
    <3>4. QED
      BY <3>2, <3>3
  <2>6. (m + 1) + 1 = m + 2
    OBVIOUS
  <2>7. Holds(r, m + 1, top)
    BY <1>4, <2>4, <2>5, <2>6 DEF Holds
  <2>8. QED
    BY <1>1, <2>1, <2>3, <2>7
<1>7. QED
  BY <1>5, <1>6 DEF r

(* The frame the writer is about to write is the next of the handshake, a  *)
(* further subscription, or a keepalive.                                   *)
LEMMA WrittenFrame ==
    ASSUME IInv, writer.at = "write"
    PROVE  /\ FrameOf(writer.pay) \in 0..5
           /\ FrameOf(writer.pay) # 0 =>
                \/ FrameOf(writer.pay) = srv.seen + 1
                \/ FrameOf(writer.pay) = 5 /\ srv.seen = 5
           /\ FrameOf(writer.pay) >= 3 => srv.token
<1> USE DEF IInv, Control, TypeOK, SendTypes, NetTypes, StageInv
<1>1. CASE writer.pay = "main"
  BY <1>1 DEF FrameOf
<1>2. CASE writer.pay = "keepalive"
  BY <1>2 DEF FrameOf
<1>3. CASE writer.pay \in Callers
  <2>1. writer.pay # "main" /\ writer.pay # "keepalive"
    BY <1>3, ClientAssumption
  <2>2. QED
    BY <1>3, <2>1 DEF FrameOf
<1>4. QED
  BY <1>1, <1>2, <1>3 DEF Senders

(* A write moves the server on to the frame, and answers to frames it has  *)
(* seen are added to the queue.                                            *)
LEMMA WriteFacts ==
    ASSUME IInv, WriterWrites
    PROVE  /\ srv' \in [seen : 0..5, token : BOOLEAN, pushed : 0..MaxData]
           /\ srv'.token = srv.token /\ srv'.pushed = srv.pushed
           /\ srv'.seen >= srv.seen
           /\ srv'.seen = srv.seen \/ srv'.seen = FrameOf(writer.pay)
           /\ \/ inbox' = inbox
              \/ \E a \in Seq(Replies) :
                    /\ inbox' = inbox \o a
                    /\ \A i \in 1..Len(a) : a[i].kind # "DATA" /\ Due(a[i])'
<1> DEFINE f == FrameOf(writer.pay)
<1>1. f \in 0..5 /\ srv \in [seen : 0..5, token : BOOLEAN, pushed : 0..MaxData]
  BY WrittenFrame DEF WriterWrites, IInv, Control, TypeOK, NetTypes
<1>2. CASE sock = "broken" /\ UNCHANGED <<inbox, srv>>
  BY <1>1, <1>2
<1>3. ASSUME NEW a \in AnswersTo(f), inbox' = inbox \o a,
             srv' = [srv EXCEPT !.seen = IF f > srv.seen THEN f ELSE srv.seen]
      PROVE  /\ srv' \in [seen : 0..5, token : BOOLEAN, pushed : 0..MaxData]
             /\ srv'.token = srv.token /\ srv'.pushed = srv.pushed
             /\ srv'.seen >= srv.seen /\ srv'.seen >= f
             /\ srv'.seen = srv.seen \/ srv'.seen = f
             /\ a \in Seq(Replies)
             /\ \A i \in 1..Len(a) : a[i].kind # "DATA" /\ Due(a[i])'
  <2> HIDE DEF f
  <2>1. /\ srv' \in [seen : 0..5, token : BOOLEAN, pushed : 0..MaxData]
        /\ srv'.token = srv.token /\ srv'.pushed = srv.pushed
        /\ srv'.seen >= srv.seen /\ srv'.seen >= f
        /\ srv'.seen = srv.seen \/ srv'.seen = f
    BY <1>1, <1>3
  <2>2. /\ a \in Seq(Replies)
        /\ \A i \in 1..Len(a) :
             /\ a[i].kind # "DATA"
             /\ a[i].kind = "SETUP" => f = 1
             /\ a[i].kind = "AUTHOK" => f = 2 /\ srv.token
             /\ a[i].kind = "OPENED" => f = 3
             /\ a[i].kind = "CONFIG" => f = 4
    BY <1>1, Answers
  <2>3. \A i \in 1..Len(a) : Due(a[i])'
    BY <1>1, <2>1, <2>2 DEF Due
  <2>4. QED
    BY <2>1, <2>2, <2>3
<1>4. \/ sock = "broken" /\ UNCHANGED <<inbox, srv>>
      \/ \E a \in AnswersTo(f) :
            /\ inbox' = inbox \o a
            /\ srv' = [srv EXCEPT !.seen = IF f > srv.seen THEN f ELSE srv.seen]
  BY DEF WriterWrites
<1>5. QED
  <2> HIDE DEF f
  <2>1. CASE \E a \in AnswersTo(f) :
                /\ inbox' = inbox \o a
                /\ srv' = [srv EXCEPT !.seen = IF f > srv.seen THEN f ELSE srv.seen]
    <3>1. PICK a \in AnswersTo(f) :
                /\ inbox' = inbox \o a
                /\ srv' = [srv EXCEPT !.seen = IF f > srv.seen THEN f ELSE srv.seen]
      BY <2>1
    <3>2. /\ srv' \in [seen : 0..5, token : BOOLEAN, pushed : 0..MaxData]
          /\ srv'.token = srv.token /\ srv'.pushed = srv.pushed
          /\ srv'.seen >= srv.seen
          /\ srv'.seen = srv.seen \/ srv'.seen = f
          /\ a \in Seq(Replies)
          /\ \A i \in 1..Len(a) : a[i].kind # "DATA" /\ Due(a[i])'
      BY <1>3, <3>1
    <3>3. QED
      BY <3>1, <3>2 DEF f
  <2>2. QED
    BY <1>2, <1>4, <2>1 DEF f

(* A read takes the head of the queue. *)
LEMMA ReadFacts ==
    ASSUME IInv, ReaderRead
    PROVE  /\ Head(inbox) \in Frames /\ Tail(inbox) \in Seq(Frames)
           /\ Head(inbox) = inbox[1] /\ 1 \in 1..Len(inbox)
           /\ Len(Tail(inbox)) = Len(inbox) - 1
           /\ \A i \in 1..Len(Tail(inbox)) : Tail(inbox)[i] = inbox[i + 1] /\ i + 1 \in 1..Len(inbox)
<1>1. inbox \in Seq(Frames) /\ inbox # <<>>
  BY DEF IInv, Control, TypeOK, NetTypes, ReaderRead, Frames
<1>2. Len(inbox) \in Nat /\ Len(inbox) >= 1
  BY <1>1, EmptySeq
<1>3. QED
  BY <1>1, <1>2, HeadTailProperties

-----------------------------------------------------------------------------
(* What each step does to each part of the invariant.                      *)

(* The bounds of two counters, away from everything else. *)
LEMMA Bounds == 1 \in 0..1 /\ \A n \in 1..MaxData : n \in 0..MaxData
OBVIOUS

(* Types of main, the senders and the writer. *)
LEMMA SendTypesStep ==
    ASSUME IInv, Next
    PROVE  SendTypes'
<1> USE ClientAssumption DEF sendVars, callVars, readVars, lifeVars, feedVars,
       netVars, IInv, Control, TypeOK, SendTypes, MainInv, Senders
<1>1. ASSUME NEW s \in Senders, SendAborted(s) \/ WriterTake(s) PROVE SendTypes'
  BY <1>1 DEF SendAborted, WriterTake
<1>2. ASSUME NEW p \in Callers, CallerSend(p) \/ CallerReturn(p) PROVE SendTypes'
  BY <1>2 DEF CallerSend, CallerReturn, StartSend
<1>3. CASE KeepaliveTick \/ KeepaliveStops
  BY <1>3 DEF KeepaliveTick, KeepaliveStops, StartSend
<1>4. CASE WriterStep
  BY <1>4 DEF WriterStep, WriterWrites, WriterAcks, WriterExits, FrameOf,
       AnswersTo, LoopExit
<1>5. CASE ReaderStep
  BY <1>5 DEF ReaderStep, ReaderRead, ReaderExits
<1>6. CASE DispatchStep
  BY <1>6 DEF DispatchStep, DispatchTake, DispatchWaited, DispatchExits, LoopExit
<1>7. ASSUME NEW h \in Handlers, HandlerStep(h) PROVE SendTypes'
  BY <1>7 DEF HandlerStep, HandlerIgnores, HandlerAccepts, HandlerReports, Wanted,
       Stages, Fail, Advance
<1>8. CASE ConfigReports \/ CloserRuns
  BY <1>8 DEF ConfigReports, CloserRuns
<1>9. CASE StreamStep
  BY <1>9 DEF StreamStep, StreamParks, StreamDelivers, StreamGivesUp, StreamPanics
<1>10. CASE MainStep
  <2>1. CASE MainSpawns
    BY <2>1 DEF MainSpawns, StartSend, Registers, Stages, Fail, Advance
  <2>2. CASE MainCounts
    BY <2>2 DEF MainCounts, StartSend, Registers, Stages, Fail, Advance
  <2>3. CASE MainBegins
    BY <2>3 DEF MainBegins, StartSend, Registers, Stages, Fail, Advance
  <2>4. CASE MainHasNoReplay
    BY <2>4 DEF MainHasNoReplay, StartSend, Registers, Stages, Fail, Advance
  <2>5. CASE MainSent
    BY <2>5 DEF MainSent, StartSend, Registers, Stages, Fail, Advance
  <2>6. CASE MainConfigured
    BY <2>6 DEF MainConfigured, StartSend, Registers, Stages, Fail, Advance
  <2>7. CASE MainGivesUp
    BY <2>7 DEF MainGivesUp, StartSend, Registers, Stages, Fail, Advance
  <2>8. CASE MainStreams
    BY <2>8 DEF MainStreams, StartSend, Registers, Stages, Fail, Advance
  <2>9. QED
    BY <1>10, <2>1, <2>2, <2>3, <2>4, <2>5, <2>6, <2>7, <2>8 DEF MainStep
<1>11. CASE ConsumerStep \/ SupervisorStep
  BY <1>11 DEF ConsumerStep, SupervisorStep, ConsumerPublished, ConsumerExits,
       SupervisorReacts, SupervisorWaited
<1>12. CASE ServerPushes \/ Break \/ Shutdown
  BY <1>12 DEF ServerPushes, Break, Shutdown
<1>13. QED
  BY <1>1, <1>2, <1>3, <1>4, <1>5, <1>6, <1>7, <1>8, <1>9, <1>10, <1>11, <1>12 DEF Next, Alive

(* Types of the reader, the dispatch loop and its handlers. *)
LEMMA ReadTypesStep ==
    ASSUME IInv, Next
    PROVE  ReadTypes'
<1> USE ClientAssumption DEF sendVars, callVars, readVars, lifeVars, feedVars,
       netVars, IInv, Control, TypeOK, ReadTypes, NetTypes, Handlers
<1>1. ASSUME NEW s \in Senders, SendAborted(s) \/ WriterTake(s) PROVE ReadTypes'
  BY <1>1 DEF SendAborted, WriterTake
<1>2. ASSUME NEW p \in Callers, CallerSend(p) \/ CallerReturn(p) PROVE ReadTypes'
  BY <1>2 DEF CallerSend, CallerReturn, StartSend
<1>3. CASE KeepaliveTick \/ KeepaliveStops
  BY <1>3 DEF KeepaliveTick, KeepaliveStops, StartSend
<1>4. CASE WriterStep
  BY <1>4 DEF WriterStep, WriterWrites, WriterAcks, WriterExits, FrameOf,
       AnswersTo, LoopExit
<1>5. CASE ReaderStep
  <2>1. CASE ReaderRead
    BY <2>1, ReadFacts DEF ReaderRead, Frames
  <2>2. CASE ReaderExits
    BY <2>2 DEF ReaderExits
  <2>3. QED
    BY <1>5, <2>1, <2>2 DEF ReaderStep
<1>6. CASE DispatchStep
  <2>1. CASE DispatchTake
    BY <2>1 DEF DispatchTake, LoopExit
  <2>2. CASE DispatchWaited
    BY <2>2 DEF DispatchWaited, LoopExit
  <2>3. CASE DispatchExits
    BY <2>3 DEF DispatchExits, LoopExit
  <2>4. QED
    BY <1>6, <2>1, <2>2, <2>3 DEF DispatchStep
<1>7. ASSUME NEW h \in Handlers, HandlerStep(h) PROVE ReadTypes'
  <2>1. CASE HandlerIgnores(h)
    BY <2>1 DEF HandlerIgnores
  <2>2. CASE HandlerAccepts(h)
    BY <2>2 DEF HandlerAccepts
  <2>3. CASE HandlerReports(h)
    BY <2>3 DEF HandlerReports
  <2>4. QED
    BY <1>7, <2>1, <2>2, <2>3 DEF HandlerStep
<1>8. CASE ConfigReports \/ CloserRuns
  <2>1. CASE ConfigReports
    BY <2>1 DEF ConfigReports
  <2>2. CASE CloserRuns
    BY <2>2 DEF CloserRuns
  <2>3. QED
    BY <1>8, <2>1, <2>2
<1>9. CASE StreamStep
  <2>1. CASE StreamParks
    BY <2>1 DEF StreamParks
  <2>2. CASE StreamDelivers
    BY <2>2 DEF StreamDelivers
  <2>3. CASE StreamGivesUp
    BY <2>3 DEF StreamGivesUp
  <2>4. CASE StreamPanics
    BY <2>4 DEF StreamPanics
  <2>5. QED
    BY <1>9, <2>1, <2>2, <2>3, <2>4 DEF StreamStep
<1>10. CASE MainStep
  <2>1. CASE MainBegins
    <3>1. Registers(main.stage) \subseteq Handlers
      BY <2>1, RegistersHandlers DEF MainBegins, SendTypes
    <3>2. QED
      BY <2>1, <3>1 DEF MainBegins
  <2>2. CASE MainSpawns
    BY <2>2 DEF MainSpawns
  <2>3. CASE MainCounts \/ MainHasNoReplay \/ MainConfigured
    BY <2>3 DEF MainCounts, MainHasNoReplay, MainConfigured
  <2>4. CASE MainSent
    BY <2>4 DEF MainSent
  <2>5. CASE MainGivesUp
    BY <2>5 DEF MainGivesUp
  <2>6. CASE MainStreams
    BY <2>6 DEF MainStreams
  <2>7. QED
    BY <1>10, <2>1, <2>2, <2>3, <2>4, <2>5, <2>6 DEF MainStep
<1>11. CASE ConsumerStep \/ SupervisorStep
  BY <1>11 DEF ConsumerStep, SupervisorStep, ConsumerPublished, ConsumerExits,
       SupervisorReacts, SupervisorWaited
<1>12. CASE ServerPushes \/ Break \/ Shutdown
  BY <1>12 DEF ServerPushes, Break, Shutdown
<1>13. QED
  BY <1>1, <1>2, <1>3, <1>4, <1>5, <1>6, <1>7, <1>8, <1>9, <1>10, <1>11, <1>12 DEF Next, Alive

(* Types of the flags. *)
LEMMA FlagTypesStep ==
    ASSUME IInv, Next
    PROVE  FlagTypes'
<1> USE ClientAssumption DEF sendVars, callVars, readVars, lifeVars, feedVars,
       netVars, IInv, Control, TypeOK, FlagTypes
<1>1. ASSUME NEW s \in Senders, SendAborted(s) \/ WriterTake(s) PROVE FlagTypes'
  BY <1>1 DEF SendAborted, WriterTake
<1>2. ASSUME NEW p \in Callers, CallerSend(p) \/ CallerReturn(p) PROVE FlagTypes'
  BY <1>2 DEF CallerSend, CallerReturn, StartSend
<1>3. CASE KeepaliveTick \/ KeepaliveStops
  BY <1>3 DEF KeepaliveTick, KeepaliveStops, StartSend
<1>4. CASE WriterStep
  BY <1>4 DEF WriterStep, WriterWrites, WriterAcks, WriterExits, FrameOf,
       AnswersTo, LoopExit
<1>5. CASE ReaderStep
  BY <1>5 DEF ReaderStep, ReaderRead, ReaderExits
<1>6. CASE DispatchStep
  BY <1>6 DEF DispatchStep, DispatchTake, DispatchWaited, DispatchExits, LoopExit
<1>7. ASSUME NEW h \in Handlers, HandlerStep(h) PROVE FlagTypes'
  BY <1>7 DEF HandlerStep, HandlerIgnores, HandlerAccepts, HandlerReports, Wanted,
       Stages, Fail, Advance
<1>8. CASE ConfigReports \/ CloserRuns
  BY <1>8 DEF ConfigReports, CloserRuns
<1>9. CASE StreamStep
  BY <1>9 DEF StreamStep, StreamParks, StreamDelivers, StreamGivesUp, StreamPanics
<1>10. CASE MainStep
  BY <1>10 DEF MainStep, MainSpawns, MainCounts, MainBegins, MainHasNoReplay,
       MainSent, MainConfigured, MainGivesUp, MainStreams, StartSend, Registers,
       Stages, Fail, Advance
<1>11. CASE ConsumerStep \/ SupervisorStep
  BY <1>11 DEF ConsumerStep, SupervisorStep, ConsumerPublished, ConsumerExits,
       SupervisorReacts, SupervisorWaited
<1>12. CASE ServerPushes \/ Break \/ Shutdown
  BY <1>12 DEF ServerPushes, Break, Shutdown
<1>13. QED
  BY <1>1, <1>2, <1>3, <1>4, <1>5, <1>6, <1>7, <1>8, <1>9, <1>10, <1>11, <1>12 DEF Next, Alive

(* Types of the client's life and of what consumes its stream. *)
LEMMA LifeTypesStep ==
    ASSUME IInv, Next
    PROVE  LifeTypes'
<1> USE ClientAssumption DEF sendVars, callVars, readVars, lifeVars, feedVars,
       netVars, IInv, Control, TypeOK, LifeTypes
<1>1. ASSUME NEW s \in Senders, SendAborted(s) \/ WriterTake(s) PROVE LifeTypes'
  BY <1>1 DEF SendAborted, WriterTake
<1>2. ASSUME NEW p \in Callers, CallerSend(p) \/ CallerReturn(p) PROVE LifeTypes'
  BY <1>2 DEF CallerSend, CallerReturn, StartSend
<1>3. CASE KeepaliveTick \/ KeepaliveStops
  BY <1>3 DEF KeepaliveTick, KeepaliveStops, StartSend
<1>4. CASE WriterStep
  BY <1>4 DEF WriterStep, WriterWrites, WriterAcks, WriterExits, FrameOf,
       AnswersTo, LoopExit
<1>5. CASE ReaderStep
  BY <1>5 DEF ReaderStep, ReaderRead, ReaderExits
<1>6. CASE DispatchStep
  BY <1>6 DEF DispatchStep, DispatchTake, DispatchWaited, DispatchExits, LoopExit
<1>7. ASSUME NEW h \in Handlers, HandlerStep(h) PROVE LifeTypes'
  <2>1. CASE HandlerIgnores(h)
    <3>1. strikes' \in 0..1
      <4>1. strikes' = strikes \/ strikes' = 1
        BY <2>1 DEF HandlerIgnores
      <4>2. strikes \in 0..1
        OBVIOUS
      <4>3. QED
        BY <4>1, <4>2, Bounds, Zenon
    <3>2. QED
      BY <2>1, <3>1 DEF HandlerIgnores
  <2>2. CASE HandlerAccepts(h)
    BY <2>2 DEF HandlerAccepts
  <2>3. CASE HandlerReports(h)
    BY <2>3 DEF HandlerReports, Fail, Advance
  <2>4. QED
    BY <1>7, <2>1, <2>2, <2>3 DEF HandlerStep
<1>8. CASE ConfigReports \/ CloserRuns
  BY <1>8 DEF ConfigReports, CloserRuns
<1>9. CASE StreamStep
  <2>1. CASE StreamDelivers
    <3>1. disp.msg.kind = "DATA" => disp.msg.n \in 1..MaxData
      BY Kinds DEF ReadTypes
    <3>2. cons' \in [at : {"off", "recv", "busy", "exited"}, got : 0..MaxData]
      <4> DEFINE n == IF disp.msg.kind = "DATA" THEN disp.msg.n ELSE cons.got
      <4>1. n \in 0..MaxData
        <5>1. cons.got \in 0..MaxData
          OBVIOUS
        <5>2. QED
          BY <3>1, <5>1, Bounds, Zenon
      <4>2. cons' = [at |-> "busy", got |-> n]
        BY <2>1 DEF StreamDelivers
      <4> HIDE DEF n
      <4>3. QED
        BY <4>1, <4>2
    <3>3. QED
      BY <2>1, <3>2 DEF StreamDelivers
  <2>2. CASE StreamParks \/ StreamGivesUp
    BY <2>2 DEF StreamParks, StreamGivesUp
  <2>3. CASE StreamPanics
    BY <2>3 DEF StreamPanics
  <2>4. QED
    BY <1>9, <2>1, <2>2, <2>3 DEF StreamStep
<1>10. CASE MainStep
  BY <1>10 DEF MainStep, MainSpawns, MainCounts, MainBegins, MainHasNoReplay,
       MainSent, MainConfigured, MainGivesUp, MainStreams, StartSend, Registers,
       Stages, Fail, Advance
<1>11. CASE ConsumerStep \/ SupervisorStep
  BY <1>11 DEF ConsumerStep, SupervisorStep, ConsumerPublished, ConsumerExits,
       SupervisorReacts, SupervisorWaited
<1>12. CASE ServerPushes \/ Break \/ Shutdown
  BY <1>12 DEF ServerPushes, Break, Shutdown
<1>13. QED
  BY <1>1, <1>2, <1>3, <1>4, <1>5, <1>6, <1>7, <1>8, <1>9, <1>10, <1>11, <1>12 DEF Next, Alive

(* Types of the socket, the queue and the server. *)
LEMMA NetTypesStep ==
    ASSUME IInv, Next
    PROVE  NetTypes'
<1> USE ClientAssumption DEF sendVars, callVars, readVars, lifeVars, feedVars,
       netVars, IInv, Control, TypeOK, NetTypes
<1>1. ASSUME NEW s \in Senders, SendAborted(s) \/ WriterTake(s) PROVE NetTypes'
  BY <1>1 DEF SendAborted, WriterTake
<1>2. ASSUME NEW p \in Callers, CallerSend(p) \/ CallerReturn(p) PROVE NetTypes'
  BY <1>2 DEF CallerSend, CallerReturn, StartSend
<1>3. CASE KeepaliveTick \/ KeepaliveStops
  BY <1>3 DEF KeepaliveTick, KeepaliveStops, StartSend
<1>4. CASE WriterStep
  <2>1. CASE WriterWrites
    <3>1. /\ srv' \in [seen : 0..5, token : BOOLEAN, pushed : 0..MaxData]
          /\ inbox' = inbox \/ \E a \in Seq(Replies) : inbox' = inbox \o a
      BY <2>1, WriteFacts
    <3>2. \A a \in Seq(Replies) : a \in Seq(Data \cup Replies)
      BY SeqMonotonic
    <3>3. ASSUME NEW a \in Seq(Replies), inbox' = inbox \o a
          PROVE  inbox' \in Seq(Data \cup Replies)
      <4>1. a \in Seq(Data \cup Replies)
        BY <3>2
      <4>2. QED
        BY <3>3, <4>1, ConcatProperties
    <3>4. inbox' \in Seq(Data \cup Replies)
      BY <3>1, <3>3
    <3>5. QED
      BY <2>1, <3>1, <3>4 DEF WriterWrites
  <2>2. CASE WriterAcks \/ WriterExits
    BY <2>2 DEF WriterAcks, WriterExits
  <2>3. QED
    BY <1>4, <2>1, <2>2 DEF WriterStep
<1>5. CASE ReaderStep
  <2>1. CASE ReaderRead
    BY <2>1, ReadFacts DEF ReaderRead, Frames
  <2>2. CASE ReaderExits
    BY <2>2 DEF ReaderExits
  <2>3. QED
    BY <1>5, <2>1, <2>2 DEF ReaderStep
<1>6. CASE DispatchStep
  BY <1>6 DEF DispatchStep, DispatchTake, DispatchWaited, DispatchExits, LoopExit
<1>7. ASSUME NEW h \in Handlers, HandlerStep(h) PROVE NetTypes'
  BY <1>7 DEF HandlerStep, HandlerIgnores, HandlerAccepts, HandlerReports, Wanted,
       Stages, Fail, Advance
<1>8. CASE ConfigReports \/ CloserRuns
  BY <1>8 DEF ConfigReports, CloserRuns
<1>9. CASE StreamStep
  BY <1>9 DEF StreamStep, StreamParks, StreamDelivers, StreamGivesUp, StreamPanics
<1>10. CASE MainStep
  BY <1>10 DEF MainStep, MainSpawns, MainCounts, MainBegins, MainHasNoReplay,
       MainSent, MainConfigured, MainGivesUp, MainStreams, StartSend, Registers,
       Stages, Fail, Advance
<1>11. CASE ConsumerStep \/ SupervisorStep
  BY <1>11 DEF ConsumerStep, SupervisorStep, ConsumerPublished, ConsumerExits,
       SupervisorReacts, SupervisorWaited
<1>12. CASE ServerPushes \/ Break \/ Shutdown
  <2>1. CASE ServerPushes
    <3>1. [kind |-> "DATA", n |-> srv.pushed + 1] \in Data
      BY <2>1 DEF ServerPushes, Data
    <3>2. srv' \in [seen : 0..5, token : BOOLEAN, pushed : 0..MaxData]
      <4>1. srv.pushed + 1 \in 0..MaxData
        BY <2>1 DEF ServerPushes
      <4>2. srv' = [srv EXCEPT !.pushed = srv.pushed + 1]
        BY <2>1 DEF ServerPushes
      <4>3. srv \in [seen : 0..5, token : BOOLEAN, pushed : 0..MaxData]
        OBVIOUS
      <4> HIDE DEF IInv, Control, TypeOK, NetTypes
      <4>4. QED
        BY <4>1, <4>2, <4>3
    <3>3. inbox' \in Seq(Data \cup Replies)
      BY <2>1, <3>1 DEF ServerPushes
    <3>4. QED
      BY <2>1, <3>2, <3>3 DEF ServerPushes
  <2>2. CASE Break \/ Shutdown
    BY <2>2 DEF Break, Shutdown
  <2>3. QED
    BY <1>12, <2>1, <2>2
<1>13. QED
  BY <1>1, <1>2, <1>3, <1>4, <1>5, <1>6, <1>7, <1>8, <1>9, <1>10, <1>11, <1>12 DEF Next, Alive

(* Where main can be. *)
LEMMA MainInvStep ==
    ASSUME IInv, Next
    PROVE  MainInv'
<1> USE ClientAssumption DEF sendVars, callVars, readVars, lifeVars, feedVars,
       netVars, IInv, Control, TypeOK, SendTypes, ReadTypes, MainInv, Senders
<1>1. ASSUME NEW s \in Senders, SendAborted(s) \/ WriterTake(s) PROVE MainInv'
  BY <1>1 DEF SendAborted, WriterTake
<1>2. ASSUME NEW p \in Callers, CallerSend(p) \/ CallerReturn(p) PROVE MainInv'
  BY <1>2 DEF CallerSend, CallerReturn, StartSend
<1>3. CASE KeepaliveTick \/ KeepaliveStops
  BY <1>3 DEF KeepaliveTick, KeepaliveStops, StartSend
<1>4. CASE WriterStep
  BY <1>4 DEF WriterStep, WriterWrites, WriterAcks, WriterExits, FrameOf,
       AnswersTo, LoopExit
<1>5. CASE ReaderStep
  BY <1>5 DEF ReaderStep, ReaderRead, ReaderExits
<1>6. CASE DispatchStep
  BY <1>6 DEF DispatchStep, DispatchTake, DispatchWaited, DispatchExits, LoopExit
<1>7. ASSUME NEW h \in Handlers, HandlerStep(h) PROVE MainInv'
  BY <1>7 DEF HandlerStep, HandlerIgnores, HandlerAccepts, HandlerReports, Wanted,
       Stages, Fail, Advance
<1>8. CASE ConfigReports \/ CloserRuns
  BY <1>8 DEF ConfigReports, CloserRuns
<1>9. CASE StreamStep
  BY <1>9 DEF StreamStep, StreamParks, StreamDelivers, StreamGivesUp, StreamPanics
<1>10. CASE MainStep
  BY <1>10 DEF MainStep, MainSpawns, MainCounts, MainBegins, MainHasNoReplay,
       MainSent, MainConfigured, MainGivesUp, MainStreams, StartSend, Registers,
       Stages, Fail, Advance
<1>11. CASE ConsumerStep \/ SupervisorStep
  BY <1>11 DEF ConsumerStep, SupervisorStep, ConsumerPublished, ConsumerExits,
       SupervisorReacts, SupervisorWaited
<1>12. CASE ServerPushes \/ Break \/ Shutdown
  BY <1>12 DEF ServerPushes, Break, Shutdown
<1>13. QED
  BY <1>1, <1>2, <1>3, <1>4, <1>5, <1>6, <1>7, <1>8, <1>9, <1>10, <1>11, <1>12 DEF Next, Alive

(* The handlers stay within the dispatch loop's wait. *)
LEMMA HandlerInvStep ==
    ASSUME IInv, Next
    PROVE  HandlerInv'
<1> USE ClientAssumption DEF sendVars, callVars, readVars, lifeVars, feedVars,
       netVars, IInv, Control, TypeOK, ReadTypes, MainInv, HandlerInv, Handlers
<1>1. ASSUME NEW s \in Senders, SendAborted(s) \/ WriterTake(s) PROVE HandlerInv'
  BY <1>1 DEF SendAborted, WriterTake
<1>2. ASSUME NEW p \in Callers, CallerSend(p) \/ CallerReturn(p) PROVE HandlerInv'
  BY <1>2 DEF CallerSend, CallerReturn, StartSend
<1>3. CASE KeepaliveTick \/ KeepaliveStops
  BY <1>3 DEF KeepaliveTick, KeepaliveStops, StartSend
<1>4. CASE WriterStep
  BY <1>4 DEF WriterStep, WriterWrites, WriterAcks, WriterExits, FrameOf,
       AnswersTo, LoopExit
<1>5. CASE ReaderStep
  BY <1>5 DEF ReaderStep, ReaderRead, ReaderExits
<1>6. CASE DispatchStep
  BY <1>6 DEF DispatchStep, DispatchTake, DispatchWaited, DispatchExits, LoopExit
<1>7. ASSUME NEW h \in Handlers, HandlerStep(h) PROVE HandlerInv'
  BY <1>7 DEF HandlerStep, HandlerIgnores, HandlerAccepts, HandlerReports, Wanted,
       Stages, Fail, Advance
<1>8. CASE ConfigReports \/ CloserRuns
  BY <1>8 DEF ConfigReports, CloserRuns
<1>9. CASE StreamStep
  BY <1>9 DEF StreamStep, StreamParks, StreamDelivers, StreamGivesUp, StreamPanics
<1>10. CASE MainStep
  BY <1>10 DEF MainStep, MainSpawns, MainCounts, MainBegins, MainHasNoReplay,
       MainSent, MainConfigured, MainGivesUp, MainStreams, StartSend, Registers,
       Stages, Fail, Advance
<1>11. CASE ConsumerStep \/ SupervisorStep
  BY <1>11 DEF ConsumerStep, SupervisorStep, ConsumerPublished, ConsumerExits,
       SupervisorReacts, SupervisorWaited
<1>12. CASE ServerPushes \/ Break \/ Shutdown
  BY <1>12 DEF ServerPushes, Break, Shutdown
<1>13. QED
  BY <1>1, <1>2, <1>3, <1>4, <1>5, <1>6, <1>7, <1>8, <1>9, <1>10, <1>11, <1>12 DEF Next, Alive

(* Only the writer moves a Send to ok, after its own write. *)
LEMMA SendInvStep ==
    ASSUME IInv, Next
    PROVE  SendInv'
<1> USE ClientAssumption DEF sendVars, callVars, readVars, lifeVars, feedVars,
       netVars, IInv, Control, TypeOK, SendTypes, MainInv, SendInv, Senders
<1>1. ASSUME NEW s \in Senders, SendAborted(s) \/ WriterTake(s) PROVE SendInv'
  BY <1>1 DEF SendAborted, WriterTake
<1>2. ASSUME NEW p \in Callers, CallerSend(p) \/ CallerReturn(p) PROVE SendInv'
  BY <1>2 DEF CallerSend, CallerReturn, StartSend
<1>3. CASE KeepaliveTick \/ KeepaliveStops
  BY <1>3 DEF KeepaliveTick, KeepaliveStops, StartSend
<1>4. CASE WriterStep
  <2>1. CASE WriterWrites
    BY <2>1 DEF WriterWrites, FrameOf, AnswersTo, LoopExit
  <2>2. CASE WriterAcks
    BY <2>2 DEF WriterAcks, FrameOf, AnswersTo, LoopExit
  <2>3. CASE WriterExits
    BY <2>3 DEF WriterExits, FrameOf, AnswersTo, LoopExit
  <2>4. QED
    BY <1>4, <2>1, <2>2, <2>3 DEF WriterStep
<1>5. CASE ReaderStep
  BY <1>5 DEF ReaderStep, ReaderRead, ReaderExits
<1>6. CASE DispatchStep
  BY <1>6 DEF DispatchStep, DispatchTake, DispatchWaited, DispatchExits, LoopExit
<1>7. ASSUME NEW h \in Handlers, HandlerStep(h) PROVE SendInv'
  BY <1>7 DEF HandlerStep, HandlerIgnores, HandlerAccepts, HandlerReports, Wanted,
       Stages, Fail, Advance
<1>8. CASE ConfigReports \/ CloserRuns
  BY <1>8 DEF ConfigReports, CloserRuns
<1>9. CASE StreamStep
  <2>1. CASE StreamParks
    BY <2>1 DEF StreamParks
  <2>2. CASE StreamDelivers
    BY <2>2 DEF StreamDelivers
  <2>3. CASE StreamGivesUp
    BY <2>3 DEF StreamGivesUp
  <2>4. CASE StreamPanics
    BY <2>4 DEF StreamPanics
  <2>5. QED
    BY <1>9, <2>1, <2>2, <2>3, <2>4 DEF StreamStep
<1>10. CASE MainStep
  BY <1>10 DEF MainStep, MainSpawns, MainCounts, MainBegins, MainHasNoReplay,
       MainSent, MainConfigured, MainGivesUp, MainStreams, StartSend, Registers,
       Stages, Fail, Advance
<1>11. CASE ConsumerStep \/ SupervisorStep
  BY <1>11 DEF ConsumerStep, SupervisorStep, ConsumerPublished, ConsumerExits,
       SupervisorReacts, SupervisorWaited
<1>12. CASE ServerPushes \/ Break \/ Shutdown
  BY <1>12 DEF ServerPushes, Break, Shutdown
<1>13. QED
  BY <1>1, <1>2, <1>3, <1>4, <1>5, <1>6, <1>7, <1>8, <1>9, <1>10, <1>11, <1>12 DEF Next, Alive

(* An answer follows its frame, wherever it is on its way. *)
LEMMA AnswerInvStep ==
    ASSUME IInv, Next
    PROVE  AnswerInv'
<1> USE ClientAssumption DEF sendVars, callVars, readVars, lifeVars, feedVars,
       netVars, IInv, Control, TypeOK, NetTypes, ReadTypes, AnswerInv, Due
<1>1. ASSUME NEW s \in Senders, SendAborted(s) \/ WriterTake(s) PROVE AnswerInv'
  BY <1>1 DEF SendAborted, WriterTake
<1>2. ASSUME NEW p \in Callers, CallerSend(p) \/ CallerReturn(p) PROVE AnswerInv'
  BY <1>2 DEF CallerSend, CallerReturn, StartSend
<1>3. CASE KeepaliveTick \/ KeepaliveStops
  BY <1>3 DEF KeepaliveTick, KeepaliveStops, StartSend
<1>4. CASE WriterStep
  <2>1. CASE WriterWrites
    <3> HIDE DEF Due
    <3>1. srv'.seen >= srv.seen /\ srv'.token = srv.token /\ srv'.seen \in 0..5
      BY <2>1, WriteFacts
    <3>2. UNCHANGED <<reader, disp, cfgDone>>
      BY <2>1 DEF WriterWrites
    <3>3. ASSUME NEW m, Due(m) PROVE Due(m)'
      BY <3>1, <3>3 DEF Due
    <3>4. Due(reader.msg)' /\ Due(disp.msg)'
      <4>1. \A m : Due(m) => Due(m)'
        BY <3>3
      <4>2. QED
        BY <3>1, <3>2 DEF Due
    <3>5. \A i \in 1..Len(inbox') : Due(inbox[i])'
      <4>1. CASE inbox' = inbox
        BY <3>1, <4>1 DEF Due
      <4>2. ASSUME NEW a \in Seq(Replies), inbox' = inbox \o a,
                   \A i \in 1..Len(a) : Due(a[i])'
            PROVE  \A i \in 1..Len(inbox') : Due(inbox[i])'
        <5>1. /\ Len(inbox) \in Nat /\ Len(a) \in Nat /\ Len(inbox') = Len(inbox) + Len(a)
              /\ \A i \in 1..Len(inbox') :
                   inbox'[i] = IF i <= Len(inbox) THEN inbox[i] ELSE a[i - Len(inbox)]
          BY <4>2, ConcatProperties
        <5> SUFFICES ASSUME NEW i \in 1..Len(inbox') PROVE Due(inbox[i])'
          OBVIOUS
        <5>2. CASE i <= Len(inbox)
          <6>1. i \in 1..Len(inbox) /\ inbox'[i] = inbox[i]
            BY <5>1, <5>2
          <6>2. QED
            BY <3>1, <6>1 DEF Due
        <5>3. CASE i > Len(inbox)
          <6>1. PICK k \in 1..Len(a) : inbox'[i] = a[k]
            BY <5>1, <5>3
          <6>2. Due(a[k])'
            BY <4>2, <6>1
          <6>3. QED
            BY <6>1, <6>2 DEF Due
        <5>4. QED
          BY <5>1, <5>2, <5>3
      <4>3. QED
        BY <2>1, <4>1, <4>2, WriteFacts
    <3>6. QED
      BY <3>1, <3>2, <3>4, <3>5
  <2>2. CASE WriterAcks \/ WriterExits
    BY <2>2 DEF WriterAcks, WriterExits
  <2>3. QED
    BY <1>4, <2>1, <2>2 DEF WriterStep
<1>5. CASE ReaderStep
  <2>1. CASE ReaderRead
    BY <2>1, ReadFacts DEF ReaderRead
  <2>2. CASE ReaderExits
    BY <2>2, Kinds DEF ReaderExits
  <2>3. QED
    BY <1>5, <2>1, <2>2 DEF ReaderStep
<1>6. CASE DispatchStep
  <2>1. CASE DispatchTake
    BY <2>1, Kinds DEF DispatchTake
  <2>2. CASE DispatchWaited
    BY <2>2, Kinds DEF DispatchWaited
  <2>3. CASE DispatchExits
    BY <2>3, Kinds DEF DispatchExits
  <2>4. QED
    BY <1>6, <2>1, <2>2, <2>3 DEF DispatchStep
<1>7. ASSUME NEW h \in Handlers, HandlerStep(h) PROVE AnswerInv'
  BY <1>7 DEF HandlerStep, HandlerIgnores, HandlerAccepts, HandlerReports, Wanted,
       Stages, Fail, Advance
<1>8. CASE ConfigReports \/ CloserRuns
  <2>1. CASE ConfigReports
    BY <2>1 DEF ConfigReports, HandlerInv, Handlers, Wanted
  <2>2. CASE CloserRuns
    BY <2>2 DEF CloserRuns
  <2>3. QED
    BY <1>8, <2>1, <2>2
<1>9. CASE StreamStep
  <2>1. CASE StreamParks
    BY <2>1 DEF StreamParks
  <2>2. CASE StreamDelivers
    BY <2>2 DEF StreamDelivers
  <2>3. CASE StreamGivesUp
    BY <2>3 DEF StreamGivesUp
  <2>4. CASE StreamPanics
    BY <2>4 DEF StreamPanics
  <2>5. QED
    BY <1>9, <2>1, <2>2, <2>3, <2>4 DEF StreamStep
<1>10. CASE MainStep
  BY <1>10 DEF MainStep, MainSpawns, MainCounts, MainBegins, MainHasNoReplay,
       MainSent, MainConfigured, MainGivesUp, MainStreams, StartSend, Registers,
       Stages, Fail, Advance
<1>11. CASE ConsumerStep \/ SupervisorStep
  BY <1>11 DEF ConsumerStep, SupervisorStep, ConsumerPublished, ConsumerExits,
       SupervisorReacts, SupervisorWaited
<1>12. CASE ServerPushes \/ Break \/ Shutdown
  <2>1. CASE ServerPushes
    <3>1. [kind |-> "DATA", n |-> srv.pushed + 1].kind = "DATA"
      OBVIOUS
    <3>2. QED
      BY <2>1, <3>1 DEF ServerPushes
  <2>2. CASE Break \/ Shutdown
    BY <2>2 DEF Break, Shutdown
  <2>3. QED
    BY <1>12, <2>1, <2>2
<1>13. QED
  BY <1>1, <1>2, <1>3, <1>4, <1>5, <1>6, <1>7, <1>8, <1>9, <1>10, <1>11, <1>12 DEF Next, Alive

(* The server is never more than a frame away from main's stage. *)
LEMMA StageInvStep ==
    ASSUME IInv, Next
    PROVE  StageInv'
<1> USE ClientAssumption DEF sendVars, callVars, readVars, lifeVars, feedVars,
       netVars, IInv, Control, TypeOK, NetTypes, SendTypes, MainInv, StageInv,
       Senders
<1>1. ASSUME NEW s \in Senders, SendAborted(s) \/ WriterTake(s) PROVE StageInv'
  BY <1>1 DEF SendAborted, WriterTake
<1>2. ASSUME NEW p \in Callers, CallerSend(p) \/ CallerReturn(p) PROVE StageInv'
  BY <1>2 DEF CallerSend, CallerReturn, StartSend
<1>3. CASE KeepaliveTick \/ KeepaliveStops
  BY <1>3 DEF KeepaliveTick, KeepaliveStops, StartSend
<1>4. CASE WriterStep
  <2>1. CASE WriterWrites
    <3>1. /\ srv'.seen \in 0..5 /\ srv'.token = srv.token
          /\ srv'.seen >= srv.seen
          /\ srv'.seen = srv.seen \/ srv'.seen = FrameOf(writer.pay)
      BY <2>1, WriteFacts
    <3>2. UNCHANGED <<main, snd>> /\ writer'.at = "ack" /\ writer.at = "write"
      BY <2>1 DEF WriterWrites
    <3>3. CASE writer.pay = "main"
      <4>1. FrameOf(writer.pay) = main.stage
        BY <3>3 DEF FrameOf
      <4>2. snd["main"] # "offer" /\ main.ph \notin {"spawn", "count", "begin"}
        BY <3>2, <3>3
      <4>3. QED
        BY <3>1, <3>2, <3>3, <4>1, <4>2
    <3>4. CASE writer.pay = "keepalive"
      <4>1. FrameOf(writer.pay) = 0
        BY <3>4 DEF FrameOf
      <4>2. srv'.seen = srv.seen
        BY <3>1, <4>1
      <4>3. QED
        BY <3>1, <3>2, <4>2
    <3>5. CASE writer.pay \in Callers
      <4>1. FrameOf(writer.pay) = 5 /\ main.stage >= 5
        BY <3>2, <3>5 DEF FrameOf
      <4>2. QED
        BY <3>1, <3>2, <4>1
    <3>6. QED
      BY <3>3, <3>4, <3>5
  <2>2. CASE WriterAcks \/ WriterExits
    BY <2>2 DEF WriterAcks, WriterExits
  <2>3. QED
    BY <1>4, <2>1, <2>2 DEF WriterStep
<1>5. CASE ReaderStep
  BY <1>5 DEF ReaderStep, ReaderRead, ReaderExits
<1>6. CASE DispatchStep
  BY <1>6 DEF DispatchStep, DispatchTake, DispatchWaited, DispatchExits, LoopExit
<1>7. ASSUME NEW h \in Handlers, HandlerStep(h) PROVE StageInv'
  <2>1. CASE HandlerReports(h)
    <3>1. CASE disp.msg.kind = "UNAUTH"
      BY <2>1, <3>1 DEF HandlerReports, Fail
    <3>2. CASE disp.msg.kind # "UNAUTH"
      <4>1. /\ main' = [stage |-> main.stage + 1, ph |-> "begin"]
            /\ main.ph = "wait" /\ main.stage \in 1..4
            /\ UNCHANGED <<snd, writer, srv>>
        BY <2>1, <3>2 DEF HandlerReports, Advance
      <4>2. srv.seen = main.stage /\ (main.stage = 2 => srv.token)
        <5>1. main.stage \in {1, 2, 3}
          BY <2>1, <4>1 DEF HandlerReports, Stages, Handlers
        <5>2. /\ main.stage = 1 => disp.msg.kind = "SETUP"
              /\ main.stage = 2 => disp.msg.kind = "AUTHOK"
              /\ main.stage = 3 => disp.msg.kind = "OPENED"
          <6>1. h # "stream" /\ disp.msg.kind \in Wanted(h)
            BY <2>1 DEF HandlerReports, HandlerInv
          <6>2. Stages[main.stage] = h
            BY <2>1 DEF HandlerReports
          <6>3. /\ main.stage = 1 => h = "setup"
                /\ main.stage = 2 => h = "auth"
                /\ main.stage = 3 => h = "open"
            BY <5>1, <6>2 DEF Stages
          <6>4. QED
            BY <3>2, <6>1, <6>3 DEF Wanted
        <5>3. QED
          BY <5>1, <5>2 DEF AnswerInv, Due
      <4>3. QED
        BY <4>1, <4>2
    <3>3. QED
      BY <3>1, <3>2
  <2>2. CASE HandlerIgnores(h)
    BY <2>2 DEF HandlerIgnores
  <2>3. CASE HandlerAccepts(h)
    BY <2>3 DEF HandlerAccepts
  <2>4. QED
    BY <1>7, <2>1, <2>2, <2>3 DEF HandlerStep
<1>8. CASE ConfigReports \/ CloserRuns
  BY <1>8 DEF ConfigReports, CloserRuns
<1>9. CASE StreamStep
  <2>1. CASE StreamParks
    BY <2>1 DEF StreamParks
  <2>2. CASE StreamDelivers
    BY <2>2 DEF StreamDelivers
  <2>3. CASE StreamGivesUp
    BY <2>3 DEF StreamGivesUp
  <2>4. CASE StreamPanics
    BY <2>4 DEF StreamPanics
  <2>5. QED
    BY <1>9, <2>1, <2>2, <2>3, <2>4 DEF StreamStep
<1>10. CASE MainStep
  <2>1. CASE MainSpawns
    BY <2>1 DEF MainSpawns
  <2>2. CASE MainCounts
    BY <2>2 DEF MainCounts
  <2>3. CASE MainBegins
    BY <2>3 DEF MainBegins, StartSend
  <2>4. CASE MainHasNoReplay
    BY <2>4 DEF MainHasNoReplay, Advance
  <2>5. CASE MainSent
    <3>1. CASE main'.stage = main.stage /\ main'.ph \in {"wait", "failed"}
      BY <2>5, <3>1 DEF MainSent
    <3>2. CASE main.stage = 5 /\ main'.stage = 6 /\ main'.ph = "begin"
      <4>1. ~(writer.at = "write" /\ writer.pay = "main")
        BY <2>5, <3>2 DEF MainSent, Fail
      <4>2. QED
        BY <2>5, <3>2, <4>1 DEF MainSent
    <3>3. QED
      BY <2>5, <3>1, <3>2 DEF MainSent, Fail, Advance
  <2>6. CASE MainConfigured
    BY <2>6 DEF MainConfigured, Advance, AnswerInv
  <2>7. CASE MainGivesUp
    BY <2>7 DEF MainGivesUp, Fail
  <2>8. CASE MainStreams
    BY <2>8 DEF MainStreams
  <2>9. QED
    BY <1>10, <2>1, <2>2, <2>3, <2>4, <2>5, <2>6, <2>7, <2>8 DEF MainStep
<1>11. CASE ConsumerStep \/ SupervisorStep
  BY <1>11 DEF ConsumerStep, SupervisorStep, ConsumerPublished, ConsumerExits,
       SupervisorReacts, SupervisorWaited
<1>12. CASE ServerPushes \/ Break \/ Shutdown
  <2>1. UNCHANGED <<main, snd, writer>>
    BY <1>12 DEF ServerPushes, Break, Shutdown
  <2>2. srv'.seen = srv.seen /\ srv'.token = srv.token
    BY <1>12 DEF ServerPushes, Break, Shutdown
  <2>3. QED
    BY <2>1, <2>2
<1>13. QED
  BY <1>1, <1>2, <1>3, <1>4, <1>5, <1>6, <1>7, <1>8, <1>9, <1>10, <1>11, <1>12 DEF Next, Alive

(* main sends and waits in its first five stages. *)
LEMMA Staged ==
    ASSUME IInv, main.ph \in {"send", "wait"}
    PROVE  main.stage \in 1..5
<1>1. main.stage \in 1..6 /\ (main.stage <= 5 \/ main.stage <= 4)
  BY DEF IInv, Control, TypeOK, SendTypes, MainInv
<1>2. QED
  BY <1>1

(* What the reader holds and when the stream is open. *)
LEMMA PipeInvStep ==
    ASSUME IInv, Next
    PROVE  PipeInv'
<1> USE ClientAssumption DEF sendVars, callVars, readVars, lifeVars, feedVars,
       netVars, IInv, Control, TypeOK, PipeInv, SendTypes, ReadTypes, LifeTypes
<1>1. ASSUME NEW s \in Senders, SendAborted(s) \/ WriterTake(s) PROVE PipeInv'
  BY <1>1 DEF SendAborted, WriterTake
<1>2. ASSUME NEW p \in Callers, CallerSend(p) \/ CallerReturn(p) PROVE PipeInv'
  BY <1>2 DEF CallerSend, CallerReturn, StartSend
<1>3. CASE KeepaliveTick \/ KeepaliveStops
  BY <1>3 DEF KeepaliveTick, KeepaliveStops, StartSend
<1>4. CASE WriterStep
  BY <1>4 DEF WriterStep, WriterWrites, WriterAcks, WriterExits, FrameOf,
       AnswersTo, LoopExit
<1>5. CASE ReaderStep
  <2>1. CASE ReaderRead
    BY <2>1 DEF ReaderRead
  <2>2. CASE ReaderExits
    BY <2>2 DEF ReaderExits
  <2>3. QED
    BY <1>5, <2>1, <2>2 DEF ReaderStep
<1>6. CASE DispatchStep
  <2>1. CASE DispatchTake
    BY <2>1 DEF DispatchTake, LoopExit
  <2>2. CASE DispatchWaited
    BY <2>2 DEF DispatchWaited, LoopExit
  <2>3. CASE DispatchExits
    BY <2>3 DEF DispatchExits, LoopExit
  <2>4. QED
    BY <1>6, <2>1, <2>2, <2>3 DEF DispatchStep
<1>7. ASSUME NEW h \in Handlers, HandlerStep(h) PROVE PipeInv'
  <2>1. CASE HandlerIgnores(h)
    BY <2>1 DEF HandlerIgnores
  <2>2. CASE HandlerAccepts(h)
    <3>1. h # "stream"
      BY <2>2 DEF HandlerAccepts, Wanted
    <3>2. QED
      BY <2>2, <3>1 DEF HandlerAccepts
  <2>3. CASE HandlerReports(h)
    BY <2>3 DEF HandlerReports
  <2>4. QED
    BY <1>7, <2>1, <2>2, <2>3 DEF HandlerStep
<1>8. CASE ConfigReports \/ CloserRuns
  BY <1>8 DEF ConfigReports, CloserRuns
<1>9. CASE StreamStep
  <2>1. CASE StreamDelivers
    BY <2>1 DEF StreamDelivers
  <2>2. CASE StreamParks \/ StreamGivesUp \/ StreamPanics
    BY <2>2 DEF StreamParks, StreamGivesUp, StreamPanics
  <2>3. QED
    BY <1>9, <2>1, <2>2 DEF StreamStep
<1>10. CASE MainStep
  <2>1. CASE MainSent \/ MainGivesUp
    <3>1. "stream" \notin Registers(main.stage)
      <4>1. main.stage \in 1..5
        BY <2>1, Staged DEF MainSent, MainGivesUp
      <4>2. QED
        BY <4>1, RegistersHandlers
    <3>2. UNCHANGED <<reader, out, cons, done>>
      BY <2>1 DEF MainSent, MainGivesUp
    <3>3. handlers' = handlers \/ handlers' = handlers \ Registers(main.stage)
      BY <2>1 DEF MainSent, MainGivesUp
    <3>4. QED
      BY <3>1, <3>2, <3>3
  <2>2. CASE MainBegins
    BY <2>2 DEF MainBegins
  <2>3. CASE MainSpawns
    BY <2>3 DEF MainSpawns, MainInv
  <2>4. CASE MainCounts \/ MainHasNoReplay \/ MainConfigured
    BY <2>4 DEF MainCounts, MainHasNoReplay, MainConfigured
  <2>5. CASE MainStreams
    BY <2>5 DEF MainStreams
  <2>6. QED
    BY <1>10, <2>1, <2>2, <2>3, <2>4, <2>5 DEF MainStep
<1>11. CASE ConsumerStep \/ SupervisorStep
  BY <1>11 DEF ConsumerStep, SupervisorStep, ConsumerPublished, ConsumerExits,
       SupervisorReacts, SupervisorWaited
<1>12. CASE ServerPushes \/ Break \/ Shutdown
  BY <1>12 DEF ServerPushes, Break, Shutdown
<1>13. QED
  BY <1>1, <1>2, <1>3, <1>4, <1>5, <1>6, <1>7, <1>8, <1>9, <1>10, <1>11, <1>12 DEF Next, Alive

(* A step that leaves the data frames where they are. *)
LEMMA FlowFrame ==
    ASSUME FlowInv, UNCHANGED <<inbox, reader>>, disp'.msg = disp.msg,
           srv'.pushed = srv.pushed, cons'.got = cons.got,
           running'["stream"] = running["stream"], done => done'
    PROVE  FlowInv'
BY DEF FlowInv, FlowAt, Handed, Delivered

(* Where the data frames are, from the server to the ingress loop. *)
LEMMA FlowInvStep ==
    ASSUME IInv, Next
    PROVE  FlowInv'
<1>a. /\ FlowInv /\ PipeInv
      /\ srv.pushed \in Nat /\ cons.got \in Nat /\ inbox \in Seq(Frames)
      /\ running \in [Handlers -> {"off", "enter", "send"}] /\ "stream" \in Handlers
      /\ disp.at # "run" => running["stream"] = "off"
      /\ main.ph = "spawn" => reader.at = "off"
      /\ srv \in [seen : 0..5, token : BOOLEAN, pushed : 0..MaxData]
      /\ cons \in [at : {"off", "recv", "busy", "exited"}, got : 0..MaxData]
      /\ out \in {"none", "open", "closed"}
  <2>1. /\ srv \in [seen : 0..5, token : BOOLEAN, pushed : 0..MaxData]
        /\ cons \in [at : {"off", "recv", "busy", "exited"}, got : 0..MaxData]
        /\ out \in {"none", "open", "closed"} /\ inbox \in Seq(Frames)
    BY DEF IInv, Control, TypeOK, NetTypes, LifeTypes, Frames
  <2>2. srv.pushed \in Nat /\ cons.got \in Nat
    BY <2>1, ClientAssumption
  <2>3. /\ running \in [Handlers -> {"off", "enter", "send"}] /\ "stream" \in Handlers
        /\ disp.at # "run" => running["stream"] = "off"
        /\ main.ph = "spawn" => reader.at = "off"
    BY DEF IInv, Control, TypeOK, ReadTypes, MainInv, HandlerInv, Handlers
  <2>4. QED
    BY <2>1, <2>2, <2>3 DEF IInv
<1> USE ClientAssumption DEF sendVars, callVars, readVars, lifeVars, feedVars,
       netVars
<1>1. ASSUME NEW s \in Senders, SendAborted(s) \/ WriterTake(s) PROVE FlowInv'
  BY <1>1, <1>a, FlowFrame DEF SendAborted, WriterTake
<1>2. ASSUME NEW p \in Callers, CallerSend(p) \/ CallerReturn(p) PROVE FlowInv'
  BY <1>2, <1>a, FlowFrame DEF CallerSend, CallerReturn
<1>3. CASE KeepaliveTick \/ KeepaliveStops
  BY <1>3, <1>a, FlowFrame DEF KeepaliveTick, KeepaliveStops
<1>4. CASE WriterStep
  <2>1. CASE WriterWrites
    <3>0. UNCHANGED <<reader, disp, cons, running, done>> /\ srv'.pushed = srv.pushed
      BY <2>1, WriteFacts DEF WriterWrites
    <3>1. CASE inbox' = inbox
      BY <3>0, <3>1, <1>a, FlowFrame
    <3>2. ASSUME NEW a \in Seq(Replies), inbox' = inbox \o a, \A i \in 1..Len(a) : a[i].kind # "DATA"
          PROVE  FlowInv'
      <4>1. PICK m \in 0..srv.pushed, d \in 0..srv.pushed : FlowAt(m, d)
        BY <1>a DEF FlowInv
      <4>2. /\ m \in Nat /\ srv.pushed \in Nat
            /\ inbox \in Seq(Frames) /\ a \in Seq(Frames)
        <5>1. a \in Seq(Frames)
          BY SeqMonotonic DEF Frames
        <5>2. QED
          BY <1>a, <5>1
      <4>3. Holds(inbox', m, srv.pushed)
        BY <3>2, <4>1, <4>2, HoldsAnswers DEF FlowAt
      <4>4. FlowAt(m, d)'
        BY <3>0, <4>1, <4>3 DEF FlowAt, Handed, Delivered
      <4>5. QED
        BY <3>0, <4>4 DEF FlowInv
    <3>3. QED
      BY <2>1, <3>1, <3>2, WriteFacts
  <2>2. CASE WriterAcks \/ WriterExits
    BY <2>2, <1>a, FlowFrame DEF WriterAcks, WriterExits, LoopExit
  <2>3. QED
    BY <1>4, <2>1, <2>2 DEF WriterStep
<1>5. CASE ReaderStep
  <2>1. CASE ReaderRead
    <3>1. PICK m \in 0..srv.pushed, d \in 0..srv.pushed : FlowAt(m, d)
      BY <1>a DEF FlowInv
    <3>2. /\ m \in Nat /\ d \in Nat /\ srv.pushed \in Nat /\ cons.got \in Nat
          /\ m <= srv.pushed /\ d <= srv.pushed
      BY <1>a
    <3>3. /\ reader.msg.kind # "DATA" /\ d = m /\ Holds(inbox, m, srv.pushed)
          /\ inbox \in Seq(Frames) /\ inbox # <<>>
      BY <1>a, <2>1, <3>1, Kinds DEF ReaderRead, FlowAt, Handed, PipeInv
    <3>4. /\ UNCHANGED <<disp, cons, srv, running, done>> /\ reader' = [at |-> "offer", msg |-> Head(inbox)]
          /\ inbox' = Tail(inbox)
      BY <2>1 DEF ReaderRead
    <3>5. CASE Head(inbox).kind = "DATA"
      <4>1. Head(inbox).n = m + 1 /\ m + 1 <= srv.pushed /\ Holds(Tail(inbox), m + 1, srv.pushed)
        BY <3>2, <3>3, <3>5, HoldsHead
      <4>2. m + 1 \in 0..srv.pushed /\ (m + 1) - 1 = m /\ d <= m + 1
        BY <3>2, <3>3, <4>1
      <4>3. FlowAt(m + 1, d)'
        BY <3>1, <3>3, <3>4, <3>5, <4>1, <4>2 DEF FlowAt, Handed, Delivered
      <4>4. QED
        BY <3>4, <4>2, <4>3 DEF FlowInv
    <3>6. CASE Head(inbox).kind # "DATA"
      <4>1. Holds(Tail(inbox), m, srv.pushed)
        BY <3>2, <3>3, <3>6, HoldsHead
      <4>2. FlowAt(m, d)'
        BY <3>1, <3>3, <3>4, <3>6, <4>1 DEF FlowAt, Handed, Delivered
      <4>3. QED
        BY <3>4, <4>2 DEF FlowInv
    <3>7. QED
      BY <3>5, <3>6
  <2>2. CASE ReaderExits
    <3>1. PICK m \in 0..srv.pushed, d \in 0..srv.pushed : FlowAt(m, d)
      BY <1>a DEF FlowInv
    <3>2. /\ m \in Nat /\ d \in Nat /\ srv.pushed \in Nat /\ cons.got \in Nat
          /\ m <= srv.pushed /\ d <= srv.pushed
      BY <1>a
    <3>3. FlowAt(m, d)'
      BY <2>2, <3>1, Kinds DEF ReaderExits, FlowAt, Handed, Delivered
    <3>4. srv' = srv
      BY <2>2 DEF ReaderExits
    <3>5. QED
      BY <3>3, <3>4 DEF FlowInv
  <2>3. QED
    BY <1>5, <2>1, <2>2 DEF ReaderStep
<1>6. CASE DispatchStep
  <2>1. CASE DispatchTake
    <3>1. PICK m \in 0..srv.pushed, d \in 0..srv.pushed : FlowAt(m, d)
      BY <1>a DEF FlowInv
    <3>2. /\ m \in Nat /\ d \in Nat /\ srv.pushed \in Nat /\ cons.got \in Nat
          /\ m <= srv.pushed /\ d <= srv.pushed
      BY <1>a
    <3>3. /\ UNCHANGED <<inbox, srv, cons, out, done, handlers>>
          /\ disp' = [at |-> "run", msg |-> reader.msg] /\ reader' = [at |-> "read", msg |-> NoMsg]
          /\ running'["stream"] = IF "stream" \in handlers THEN "enter" ELSE "off"
          /\ reader.at = "offer" /\ disp.at = "select"
      BY <2>1 DEF DispatchTake, Handlers
    <3>4. d = Handed(m) /\ Delivered(d) = d
      BY <1>a, <3>1, <3>3 DEF FlowAt, Delivered
    <3>5. NoMsg.kind = "NONE"
      BY Kinds
    <3>6. CASE reader.msg.kind = "DATA"
      <4>1. reader.msg.n = m /\ d = m - 1 /\ cons.got <= d /\ (cons.got = d \/ cons.got = 0 \/ done)
        BY <3>1, <3>4, <3>6 DEF FlowAt, Handed
      <4>2. CASE "stream" \in handlers
        <5>1. Delivered(m)' = d
          BY <3>3, <3>6, <4>1, <4>2 DEF Delivered
        <5>2. FlowAt(m, m)'
          BY <3>1, <3>2, <3>3, <3>5, <4>1, <5>1 DEF FlowAt, Handed
        <5>3. QED
          BY <3>3, <5>2 DEF FlowInv
      <4>3. CASE "stream" \notin handlers
        <5>1. Delivered(m)' = m /\ (cons.got = 0 \/ done) /\ cons.got <= m
          BY <1>a, <3>2, <3>3, <3>6, <4>1, <4>3 DEF Delivered, PipeInv
        <5>2. FlowAt(m, m)'
          BY <3>1, <3>2, <3>3, <3>5, <4>1, <5>1 DEF FlowAt, Handed
        <5>3. QED
          BY <3>3, <5>2 DEF FlowInv
      <4>4. QED
        BY <4>2, <4>3
    <3>7. CASE reader.msg.kind # "DATA"
      <4>1. FlowAt(m, d)'
        BY <3>1, <3>3, <3>4, <3>5, <3>7 DEF FlowAt, Handed, Delivered
      <4>2. QED
        BY <3>3, <4>1 DEF FlowInv
    <3>8. QED
      BY <3>6, <3>7
  <2>2. CASE DispatchWaited \/ DispatchExits
    <3>1. PICK m \in 0..srv.pushed, d \in 0..srv.pushed : FlowAt(m, d)
      BY <1>a DEF FlowInv
    <3>2. /\ m \in Nat /\ d \in Nat /\ srv.pushed \in Nat /\ cons.got \in Nat
          /\ m <= srv.pushed /\ d <= srv.pushed
      BY <1>a
    <3>3. /\ UNCHANGED <<inbox, srv, cons, reader, running>> /\ disp'.msg = NoMsg
          /\ running["stream"] = "off" /\ (done => done')
      BY <1>a, <2>2 DEF DispatchWaited, DispatchExits, LoopExit, Handlers
    <3>4. FlowAt(m, d)'
      BY <3>1, <3>3, Kinds DEF FlowAt, Handed, Delivered
    <3>5. QED
      BY <3>3, <3>4 DEF FlowInv
  <2>3. QED
    BY <1>6, <2>1, <2>2 DEF DispatchStep
<1>7. ASSUME NEW h \in Handlers, HandlerStep(h) PROVE FlowInv'
  <2>1. h # "stream" \/ running' = running
    BY <1>7 DEF HandlerStep, HandlerIgnores, HandlerAccepts, HandlerReports, Wanted
  <2>2. running'["stream"] = running["stream"]
    BY <1>a, <1>7, <2>1 DEF HandlerStep, HandlerIgnores, HandlerAccepts, HandlerReports
  <2>3. UNCHANGED <<inbox, reader, disp, srv, cons, done>>
    BY <1>7 DEF HandlerStep, HandlerIgnores, HandlerAccepts, HandlerReports
  <2>4. QED
    BY <1>a, <2>2, <2>3, FlowFrame
<1>8. CASE ConfigReports \/ CloserRuns
  BY <1>8, <1>a, FlowFrame DEF ConfigReports, CloserRuns
<1>9. CASE StreamStep
  <2>1. CASE StreamDelivers
    <3>1. PICK m \in 0..srv.pushed, d \in 0..srv.pushed : FlowAt(m, d)
      BY <1>a DEF FlowInv
    <3>2. /\ m \in Nat /\ d \in Nat /\ srv.pushed \in Nat /\ cons.got \in Nat
          /\ m <= srv.pushed /\ d <= srv.pushed
      BY <1>a
    <3>3. /\ UNCHANGED <<inbox, srv, reader, disp, done>>
          /\ running["stream"] # "off" /\ running'["stream"] = "off"
          /\ cons'.got = IF disp.msg.kind = "DATA" THEN disp.msg.n ELSE cons.got
      BY <1>a, <2>1 DEF StreamDelivers
    <3>4. FlowAt(m, d)'
      BY <3>1, <3>2, <3>3 DEF FlowAt, Handed, Delivered
    <3>5. QED
      BY <3>3, <3>4 DEF FlowInv
  <2>2. CASE StreamGivesUp
    <3>1. PICK m \in 0..srv.pushed, d \in 0..srv.pushed : FlowAt(m, d)
      BY <1>a DEF FlowInv
    <3>2. /\ m \in Nat /\ d \in Nat /\ srv.pushed \in Nat /\ cons.got \in Nat
          /\ m <= srv.pushed /\ d <= srv.pushed
      BY <1>a
    <3>3. /\ UNCHANGED <<inbox, srv, reader, disp, cons, done>> /\ done
          /\ running["stream"] # "off" /\ running'["stream"] = "off"
      BY <1>a, <2>2 DEF StreamGivesUp
    <3>4. cons.got <= d
      BY <3>1, <3>2 DEF FlowAt, Delivered
    <3>5. FlowAt(m, d)'
      BY <3>1, <3>3, <3>4 DEF FlowAt, Handed, Delivered
    <3>6. QED
      BY <3>3, <3>5 DEF FlowInv
  <2>3. CASE StreamParks
    <3>1. PICK m \in 0..srv.pushed, d \in 0..srv.pushed : FlowAt(m, d)
      BY <1>a DEF FlowInv
    <3>2. /\ m \in Nat /\ d \in Nat /\ srv.pushed \in Nat /\ cons.got \in Nat
          /\ m <= srv.pushed /\ d <= srv.pushed
      BY <1>a
    <3>3. /\ UNCHANGED <<inbox, srv, reader, disp, cons, done>>
          /\ running["stream"] = "enter" /\ running'["stream"] = "send"
      BY <1>a, <2>3 DEF StreamParks
    <3>4. FlowAt(m, d)'
      BY <3>1, <3>3 DEF FlowAt, Handed, Delivered
    <3>5. QED
      BY <3>3, <3>4 DEF FlowInv
  <2>4. CASE StreamPanics
    BY <2>4, <1>a, FlowFrame DEF StreamPanics
  <2>5. QED
    BY <1>9, <2>1, <2>2, <2>3, <2>4 DEF StreamStep
<1>10. CASE MainStep
  <2>1. CASE MainSpawns
    <3>1. PICK m \in 0..srv.pushed, d \in 0..srv.pushed : FlowAt(m, d)
      BY <1>a DEF FlowInv
    <3>2. /\ m \in Nat /\ d \in Nat /\ srv.pushed \in Nat /\ cons.got \in Nat
          /\ m <= srv.pushed /\ d <= srv.pushed
      BY <1>a
    <3>3. /\ UNCHANGED <<inbox, srv, cons, running, done>> /\ reader.at = "off"
          /\ reader'.at = "read" /\ reader'.msg = reader.msg /\ disp'.msg = disp.msg
      BY <1>a, <2>1 DEF MainSpawns
    <3>4. FlowAt(m, d)'
      BY <3>1, <3>3 DEF FlowAt, Handed, Delivered
    <3>5. QED
      BY <3>3, <3>4 DEF FlowInv
  <2>2. CASE MainCounts \/ MainBegins \/ MainHasNoReplay \/ MainSent \/ MainConfigured \/ MainGivesUp
    BY <2>2, <1>a, FlowFrame DEF MainCounts, MainBegins, MainHasNoReplay, MainSent, MainConfigured, MainGivesUp
  <2>3. CASE MainStreams
    BY <2>3, <1>a, FlowFrame DEF MainStreams
  <2>4. QED
    BY <1>10, <2>1, <2>2, <2>3 DEF MainStep
<1>11. CASE ConsumerStep \/ SupervisorStep
  BY <1>11, <1>a, FlowFrame DEF ConsumerStep, ConsumerPublished, ConsumerExits,
       SupervisorStep, SupervisorReacts, SupervisorWaited
<1>12. CASE ServerPushes \/ Break \/ Shutdown
  <2>1. CASE ServerPushes
    <3>1. PICK m \in 0..srv.pushed, d \in 0..srv.pushed : FlowAt(m, d)
      BY <1>a DEF FlowInv
    <3>2. /\ m \in Nat /\ d \in Nat /\ srv.pushed \in Nat /\ cons.got \in Nat
          /\ m <= srv.pushed /\ d <= srv.pushed
      BY <1>a
    <3>3. /\ UNCHANGED <<reader, disp, cons, running, done>> /\ srv'.pushed = srv.pushed + 1
          /\ inbox' = Append(inbox, [kind |-> "DATA", n |-> srv.pushed + 1])
          /\ srv.pushed + 1 \in 1..MaxData
      BY <1>a, <2>1 DEF ServerPushes
    <3>4. Holds(inbox', m, srv.pushed + 1)
      <4> DEFINE x == [kind |-> "DATA", n |-> srv.pushed + 1]
      <4>1. x \in Frames /\ x.kind = "DATA" /\ x.n = srv.pushed + 1
        BY <3>3 DEF Frames, Data
      <4>2. inbox \in Seq(Frames) /\ m <= srv.pushed /\ Holds(inbox, m, srv.pushed)
        BY <1>a, <3>1, <3>2 DEF FlowAt
      <4> HIDE DEF x
      <4>3. Holds(Append(inbox, x), m, srv.pushed + 1)
        BY <3>2, <4>1, <4>2, HoldsPushed
      <4>4. QED
        BY <3>3, <4>3 DEF x
    <3>5. FlowAt(m, d)'
      BY <3>1, <3>3, <3>4 DEF FlowAt, Handed, Delivered
    <3>6. m \in 0..srv'.pushed /\ d \in 0..srv'.pushed
      BY <3>2, <3>3
    <3>7. QED
      BY <3>5, <3>6 DEF FlowInv
  <2>2. CASE Break \/ Shutdown
    BY <2>2, <1>a, FlowFrame DEF Break, Shutdown
  <2>3. QED
    BY <1>12, <2>1, <2>2
<1>13. QED
  BY <1>1, <1>2, <1>3, <1>4, <1>5, <1>6, <1>7, <1>8, <1>9, <1>10, <1>11, <1>12 DEF Next, Alive

-----------------------------------------------------------------------------
(* The invariant and what follows from it.                                 *)

(* The dialled connection, with nothing sent yet. *)
LEMMA InitIInv == Init => IInv
<1> SUFFICES ASSUME Init PROVE IInv
  OBVIOUS
<1>0. NoMsg.kind = "NONE" /\ <<>> \in Seq(Data \cup Replies) /\ Len(<<>>) = 0
  BY Kinds
<1>1. srv \in [seen : 0..5, token : BOOLEAN, pushed : 0..MaxData] /\ srv.seen = 0 /\ srv.pushed = 0
  BY ClientAssumption DEF Init
<1>2. SendTypes
  BY DEF Init, SendTypes, Senders
<1>3. ReadTypes
  BY DEF Init, ReadTypes
<1>4. FlagTypes
  BY DEF Init, FlagTypes
<1>5. LifeTypes
  <2>1. cons \in [at : {"off", "recv", "busy", "exited"}, got : 0..MaxData]
    BY ClientAssumption DEF Init
  <2>2. strikes \in 0..1
    BY DEF Init
  <2>3. QED
    BY <2>1, <2>2 DEF Init, LifeTypes
<1>6. NetTypes
  BY <1>0, <1>1 DEF Init, NetTypes
<1>7. MainInv /\ HandlerInv
  BY DEF Init, MainInv, HandlerInv, Handlers, Senders
<1>8. SendInv
  BY DEF Init, SendInv, Senders
<1>9. AnswerInv
  BY <1>0 DEF Init, AnswerInv, Due
<1>10. StageInv
  BY <1>1 DEF Init, StageInv, Senders
<1>11. PipeInv
  BY DEF Init, PipeInv
<1>12. FlowInv
  <2>1. Holds(inbox, 0, srv.pushed)
    BY <1>0, <1>1 DEF Init, Holds
  <2>2. FlowAt(0, 0)
    BY <1>0, <2>1 DEF Init, FlowAt, Handed, Delivered
  <2>3. QED
    BY <1>1, <2>2 DEF FlowInv
<1>13. QED
  BY <1>2, <1>3, <1>4, <1>5, <1>6, <1>7, <1>8, <1>9, <1>10, <1>11, <1>12
     DEF IInv, Control, TypeOK

(* A stuttering step. *)
LEMMA Stutters == IInv /\ UNCHANGED vars => IInv'
<1> SUFFICES ASSUME IInv, UNCHANGED vars PROVE IInv'
  OBVIOUS
<1> USE DEF vars, sendVars, callVars, readVars, lifeVars, feedVars, netVars
<1>1. TypeOK'
  <2>1. SendTypes' /\ ReadTypes'
    BY DEF IInv, Control, TypeOK, SendTypes, ReadTypes
  <2>2. FlagTypes'
    BY DEF IInv, Control, TypeOK, FlagTypes
  <2>3. LifeTypes' /\ NetTypes'
    BY DEF IInv, Control, TypeOK, LifeTypes, NetTypes
  <2>4. QED
    BY <2>1, <2>2, <2>3 DEF TypeOK
<1>2. MainInv' /\ HandlerInv' /\ SendInv'
  BY DEF IInv, Control, MainInv, HandlerInv, SendInv
<1>3. AnswerInv' /\ StageInv' /\ PipeInv'
  BY DEF IInv, AnswerInv, Due, StageInv, PipeInv
<1>4. FlowInv'
  BY FlowFrame DEF IInv
<1>5. QED
  BY <1>1, <1>2, <1>3, <1>4 DEF IInv, Control

(* The parts together are inductive. *)
LEMMA Inductive == IInv /\ [Next]_vars => IInv'
<1> SUFFICES ASSUME IInv, [Next]_vars PROVE IInv'
  OBVIOUS
<1>1. CASE Next
  BY <1>1, SendTypesStep, ReadTypesStep, FlagTypesStep, LifeTypesStep, NetTypesStep,
     MainInvStep, HandlerInvStep, SendInvStep, AnswerInvStep, StageInvStep, PipeInvStep,
     FlowInvStep
     DEF IInv, Control, TypeOK
<1>2. CASE UNCHANGED vars
  BY <1>2, Stutters
<1>3. QED
  BY <1>1, <1>2

(* The invariant of a connection, however its goroutines interleave and    *)
(* whenever the socket breaks or the service shuts down.                   *)
THEOREM Invariance == Spec => []IInv
BY InitIInv, Inductive, PTL DEF Spec

(* Every variable keeps its type. *)
THEOREM TypeCorrect == Spec => []TypeOK
<1>1. IInv => TypeOK
  BY DEF IInv, Control
<1>2. QED
  BY <1>1, Invariance, PTL

(* Send returns nil only after the writer put this caller's own frame on   *)
(* the socket (client.go:275), for any number of concurrent senders.       *)
THEOREM NilWritten == Spec => []NilMeansWritten
<1>1. IInv => NilMeansWritten
  BY DEF IInv, SendInv, NilMeansWritten
<1>2. QED
  BY <1>1, Invariance, PTL

(* The handshake frames reach the server one after the other, and no       *)
(* channel is requested with a token the server refused.                   *)
THEOREM Handshake == Spec => HandshakeInOrder
<1>1. IInv /\ [Next]_vars =>
        [(WriterWrites /\ sock = "up" /\ FrameOf(writer.pay) # 0) =>
           /\ \/ FrameOf(writer.pay) = srv.seen + 1
              \/ FrameOf(writer.pay) = 5 /\ srv.seen = 5
           /\ FrameOf(writer.pay) >= 3 => srv.token]_vars
  BY WrittenFrame DEF WriterWrites
<1>2. QED
  BY <1>1, Invariance, PTL DEF Spec, HandshakeInOrder

(* Only the stream handler hands a data frame over, and the frame it holds *)
(* is the one after the last: the others are behind it in the reader or in *)
(* the queue.                                                              *)
LEMMA OnlyStreamDelivers ==
    ASSUME IInv, [Next]_vars, cons'.got # cons.got
    PROVE  StreamDelivers
<1> USE DEF sendVars, callVars, readVars, lifeVars, feedVars, netVars
<1>1. cons \in [at : {"off", "recv", "busy", "exited"}, got : 0..MaxData]
  BY DEF IInv, Control, TypeOK, LifeTypes
<1>2. CASE UNCHANGED vars
  BY <1>2 DEF vars
<1>3. ASSUME NEW s \in Senders, SendAborted(s) \/ WriterTake(s) PROVE FALSE
  BY <1>3 DEF SendAborted, WriterTake
<1>4. ASSUME NEW p \in Callers, CallerSend(p) \/ CallerReturn(p) PROVE FALSE
  BY <1>4 DEF CallerSend, CallerReturn
<1>5. ASSUME KeepaliveTick \/ KeepaliveStops PROVE FALSE
  BY <1>5 DEF KeepaliveTick, KeepaliveStops
<1>6. ASSUME WriterStep PROVE FALSE
  BY <1>6 DEF WriterStep, WriterWrites, WriterAcks, WriterExits
<1>7. ASSUME ReaderStep \/ DispatchStep PROVE FALSE
  BY <1>7 DEF ReaderStep, ReaderRead, ReaderExits, DispatchStep, DispatchTake, DispatchWaited,
     DispatchExits
<1>8. ASSUME NEW h \in Handlers, HandlerStep(h) PROVE FALSE
  BY <1>8 DEF HandlerStep, HandlerIgnores, HandlerAccepts, HandlerReports
<1>9. ASSUME ConfigReports \/ CloserRuns \/ StreamParks \/ StreamGivesUp \/ StreamPanics PROVE FALSE
  BY <1>9 DEF ConfigReports, CloserRuns, StreamParks, StreamGivesUp, StreamPanics
<1>10. ASSUME MainStep PROVE FALSE
  BY <1>1, <1>10 DEF MainStep, MainSpawns, MainCounts, MainBegins, MainHasNoReplay, MainSent,
     MainConfigured, MainGivesUp, MainStreams
<1>11. ASSUME ConsumerStep \/ SupervisorStep PROVE FALSE
  BY <1>1, <1>11 DEF ConsumerStep, ConsumerPublished, ConsumerExits, SupervisorStep,
     SupervisorReacts, SupervisorWaited
<1>12. ASSUME ServerPushes \/ Break \/ Shutdown PROVE FALSE
  BY <1>12 DEF ServerPushes, Break, Shutdown
<1>13. QED
  BY <1>2, <1>3, <1>4, <1>5, <1>6, <1>7, <1>8, <1>9, <1>10, <1>11, <1>12
     DEF Next, Alive, StreamStep

(* The ingress loop gets the data frames in the order the server sent      *)
(* them, and from the first one on none is left out while the connection   *)
(* lives, for any number of frames.                                        *)
THEOREM Delivery == Spec => DeliveredInOrder
<1>1. ASSUME IInv, [Next]_vars, cons'.got # cons.got
      PROVE  /\ cons'.got > cons.got
             /\ cons'.got = cons.got + 1 \/ cons.got = 0 \/ done
  <2>1. StreamDelivers
    BY <1>1, OnlyStreamDelivers
  <2>2. /\ disp.msg.kind = "DATA" /\ cons'.got = disp.msg.n
        /\ running["stream"] # "off"
    BY <1>1, <2>1 DEF StreamDelivers
  <2>3. PICK m \in 0..srv.pushed, d \in 0..srv.pushed : FlowAt(m, d)
    BY <1>1 DEF IInv, FlowInv
  <2>4. srv.pushed \in Nat /\ cons.got \in Nat
    <3>1. srv.pushed \in 0..MaxData /\ cons.got \in 0..MaxData
      BY <1>1 DEF IInv, Control, TypeOK, NetTypes, LifeTypes
    <3>2. QED
      BY <3>1, ClientAssumption
  <2>5. /\ cons'.got = d /\ cons.got <= d - 1
        /\ cons.got = d - 1 \/ cons.got = 0 \/ done
    BY <2>2, <2>3 DEF FlowAt, Delivered
  <2>6. QED
    BY <2>3, <2>4, <2>5
<1>2. IInv /\ [Next]_vars =>
        [cons'.got # cons.got => /\ cons'.got > cons.got
                                 /\ cons'.got = cons.got + 1 \/ cons.got = 0 \/ done]_vars
  BY <1>1
<1>3. QED
  BY <1>2, Invariance, PTL DEF Spec, DeliveredInOrder

=============================================================================
