---------------------------- MODULE BrokerProofs ----------------------------
(***************************************************************************)
(* The broker: the port forwards keep every listener in the table or in the *)
(* hands of a request; every request is logged once and sent as it was      *)
(* decided; no more requests pass in a window than the limit; the log is     *)
(* read in order; and a broker that is replaced hands its socket, its pid    *)
(* file and its address over. For every number of requests, boxes, ports,    *)
(* secrets, destinations, files, lines, writes, readers, broker processes,   *)
(* commands and rounds, every limit and every window.                       *)
(***************************************************************************)
EXTENDS Forwards, Requests, BrokerLog, BrokerDaemon, FiniteSetTheorems, TLAPS

ForwardsSpec == ForwardsInit /\ [][ForwardsNext]_forwardVars

\* Which locals each phase of a request about forwards has set.
ForwardsFormed ==
    \A h \in Handlers :
        LET x == job[h] IN
        /\ x.pc = "idle" => x = NoJob
        /\ x.pc \in {"unpublish", "listen", "undo"} \/ (x.pc = "close" /\ x.op # "closeAll")
             => x.box \in Boxes
        /\ x.pc \in {"listen", "undo"} => x.op = "publish"
        /\ x.op # "closeAll" => x.boxes = {}
        /\ x.pc # "close" \/ x.box = NoBox => x.closing = {}
        /\ x.pc \in {"idle", "unpublish", "close"} => x.opened = {}
        /\ \A l \in x.opened : l.box = x.box /\ l.port \in x.ask
        /\ x.op = "closeAll" /\ x.pc # "idle" => stopping

\* Requests about one box exclude each other, and the shutdown all of them.
OneRequest ==
    \A g, h \in Handlers :
        g # h /\ job[g].pc # "idle" /\ job[h].pc # "idle" =>
            job[g].box # job[h].box /\ job[g].op # "closeAll" /\ job[h].op # "closeAll"

\* What listens for a box that no request has in its hands is in the table,
\* and is what its last publish asked for.
RestingBoxes ==
    \A b \in Boxes :
        (\A h \in Handlers : job[h].box # b)
            => Of(b) = byBox[b] /\ byBox[b] = To(b, result[b])

\* What listens for a box that a request is about is in the table up to the
\* Take of the request, and after that in its hands.
HandledBoxes ==
    \A h \in Handlers :
        LET x == job[h] IN
        x.box \in Boxes =>
            /\ x.pc = "unpublish" => Of(x.box) = byBox[x.box]
            /\ x.pc = "close" => byBox[x.box] = {} /\ Of(x.box) = x.closing
            /\ x.pc \in {"listen", "undo"} => byBox[x.box] = {} /\ Of(x.box) = x.opened
            /\ x.op = "closeAll" => result[x.box] = {}

OnePerPort == \A l, m \in listening : l.port = m.port => l = m

ForwardsInv ==
    /\ ForwardsTypeOK /\ ForwardsFormed /\ OneRequest
    /\ RestingBoxes /\ HandledBoxes /\ OnePerPort

----------------------------------------------------------------------------
LEMMA NoJobFields ==
    /\ NoJob \in Job /\ NoJob.pc = "idle" /\ NoJob.op = "publish" /\ NoJob.box = NoBox
    /\ NoJob.closing = {} /\ NoJob.opened = {} /\ NoJob.boxes = {} /\ NoJob.ask = {}
BY DEF NoJob, Job, Phases, Ops

LEMMA ForwardsInitInv == ForwardsInit => ForwardsInv
<1> SUFFICES ASSUME ForwardsInit PROVE ForwardsInv
  OBVIOUS
<1>1. \A h \in Handlers : job[h] = NoJob
  BY DEF ForwardsInit
<1>2. ForwardsTypeOK
  BY NoJobFields DEF ForwardsInit, ForwardsTypeOK
<1>3. ForwardsFormed /\ OneRequest
  BY <1>1, NoJobFields DEF ForwardsFormed, OneRequest
<1>4. RestingBoxes /\ HandledBoxes /\ OnePerPort
  BY <1>1, NoJobFields, ForwardsNoBox
     DEF ForwardsInit, RestingBoxes, HandledBoxes, OnePerPort, Of, To
<1>5. QED
  BY <1>2, <1>3, <1>4 DEF ForwardsInv

\* The part of the invariant about the boxes and listeners that a step does not
\* change stays, when the handler's own part does.
LEMMA ForwardsFrame ==
    ASSUME ForwardsInv, NEW h \in Handlers, NEW after \in Job,
           job' = [job EXCEPT ![h] = after]
    PROVE  /\ job' \in [Handlers -> Job] /\ job'[h] = after
           /\ \A o \in Handlers \ {h} : job'[o] = job[o]
BY DEF ForwardsInv, ForwardsTypeOK

\* A request begins: it is alone with its box.
LEMMA AcceptKeeps ==
    ASSUME ForwardsInv, Exclusive = TRUE, NEW h \in Handlers, NEW request \in Job,
           request.pc = "unpublish", request.box \in Boxes, request.op # "closeAll",
           request.opened = {}, request.closing = {}, request.boxes = {},
           Accept(h, request)
    PROVE  ForwardsInv'
<1>1. /\ job' \in [Handlers -> Job] /\ job'[h] = request
      /\ \A o \in Handlers \ {h} : job'[o] = job[o]
  BY ForwardsFrame DEF Accept
<1>2. UNCHANGED <<byBox, listening, busy, stopping, result>> /\ job[h] = NoJob
  BY DEF Accept, Idle, At, ForwardsInv, ForwardsFormed
<1>3. \A o \in Handlers :
        job[o].pc # "idle" => job[o].box # request.box /\ job[o].op # "closeAll"
  BY DEF Accept, Working, Idle, At
<1>4. \A o \in Handlers : job[o].pc = "idle" => job[o].box # request.box
  BY NoJobFields, ForwardsNoBox DEF ForwardsInv, ForwardsFormed
<1>5. ForwardsTypeOK'
  BY <1>1, <1>2 DEF ForwardsInv, ForwardsTypeOK
<1>6. ForwardsFormed'
  BY <1>1, <1>2 DEF ForwardsInv, ForwardsFormed
<1>7. OneRequest'
  BY <1>1, <1>3 DEF ForwardsInv, OneRequest
<1>8. RestingBoxes'
  BY <1>1, <1>2, NoJobFields, ForwardsNoBox DEF ForwardsInv, RestingBoxes, Of
<1>9. HandledBoxes'
  <2>1. Of(request.box) = byBox[request.box]
    BY <1>3, <1>4 DEF ForwardsInv, RestingBoxes
  <2>2. QED
    BY <1>1, <1>2, <2>1 DEF ForwardsInv, HandledBoxes, Of
<1>10. OnePerPort'
  BY <1>2 DEF ForwardsInv, OnePerPort
<1>11. QED
  BY <1>5, <1>6, <1>7, <1>8, <1>9, <1>10 DEF ForwardsInv

LEMMA RequestsBegin ==
    ASSUME ForwardsInv, Exclusive = TRUE, NEW h \in Handlers, Publish(h) \/ Unpublish(h)
    PROVE  ForwardsInv'
<1>1. CASE Publish(h)
  <2>1. PICK b \in Boxes, ports \in SUBSET Ports :
          Accept(h, [NoJob EXCEPT !.pc = "unpublish", !.box = b, !.ask = ports])
    BY <1>1 DEF Publish
  <2> DEFINE request == [NoJob EXCEPT !.pc = "unpublish", !.box = b, !.ask = ports]
  <2>2. /\ request \in Job /\ request.pc = "unpublish" /\ request.box = b
        /\ request.op = "publish" /\ request.opened = {} /\ request.closing = {}
        /\ request.boxes = {}
    BY DEF NoJob, Job, Phases, Ops
  <2> HIDE DEF request
  <2>3. QED
    BY <2>1, <2>2, AcceptKeeps DEF request
<1>2. CASE Unpublish(h)
  <2>1. PICK b \in Boxes :
          Accept(h, [NoJob EXCEPT !.pc = "unpublish", !.op = "unpublish", !.box = b])
    BY <1>2 DEF Unpublish
  <2> DEFINE request == [NoJob EXCEPT !.pc = "unpublish", !.op = "unpublish", !.box = b]
  <2>2. /\ request \in Job /\ request.pc = "unpublish" /\ request.box = b
        /\ request.op = "unpublish" /\ request.opened = {} /\ request.closing = {}
        /\ request.boxes = {}
    BY DEF NoJob, Job, Phases, Ops
  <2> HIDE DEF request
  <2>3. QED
    BY <2>1, <2>2, AcceptKeeps DEF request
<1>3. QED
  BY <1>1, <1>2

LEMMA CloseAllKeeps ==
    ASSUME ForwardsInv, Exclusive = TRUE, NEW h \in Handlers, CloseAll(h)
    PROVE  ForwardsInv'
<1> DEFINE after == [NoJob EXCEPT !.op = "closeAll", !.pc = "close",
                                 !.boxes = {b \in Boxes : byBox[b] # {}}]
<1>1. /\ after \in Job /\ after.op = "closeAll" /\ after.pc = "close" /\ after.box = NoBox
      /\ after.closing = {} /\ after.opened = {}
  BY DEF NoJob, Job, Phases, Ops
<1>2. job' = [job EXCEPT ![h] = after] /\ UNCHANGED <<byBox, listening, busy, result>>
      /\ stopping' = TRUE /\ \A o \in Handlers : job[o].pc = "idle"
  BY DEF CloseAll, Idle, At
<1> HIDE DEF after
<1>3. /\ job' \in [Handlers -> Job] /\ job'[h] = after
      /\ \A o \in Handlers \ {h} : job'[o] = job[o]
  BY <1>1, <1>2, ForwardsFrame
<1>4. \A o \in Handlers : job[o] = NoJob
  BY <1>2 DEF ForwardsInv, ForwardsFormed
<1>5. ForwardsTypeOK' /\ OnePerPort'
  BY <1>2, <1>3 DEF ForwardsInv, ForwardsTypeOK, OnePerPort
<1>6. ForwardsFormed' /\ OneRequest'
  BY <1>1, <1>2, <1>3, <1>4, NoJobFields, ForwardsNoBox DEF ForwardsFormed, OneRequest
<1>7. RestingBoxes' /\ HandledBoxes'
  BY <1>1, <1>2, <1>3, <1>4, NoJobFields, ForwardsNoBox
     DEF ForwardsInv, RestingBoxes, HandledBoxes, Of
<1>8. QED
  BY <1>5, <1>6, <1>7 DEF ForwardsInv

\* What listens for a box after a step.
OfNext(b) == {l \in listening' : l.box = b}

\* A request changes nothing of another box, and nobody else is at work with
\* its own: what is left to show of a step is about that box.
LEMMA OwnBox ==
    ASSUME ForwardsInv, NEW h \in Handlers, NEW after \in Job, NEW b \in Boxes,
           job' = [job EXCEPT ![h] = after],
           job[h].pc # "idle", job[h].box = b,
           \A c \in Boxes \ {b} :
             byBox'[c] = byBox[c] /\ result'[c] = result[c] /\ OfNext(c) = Of(c),
           \/ /\ after = NoJob
              /\ OfNext(b) = byBox'[b] /\ byBox'[b] = To(b, result'[b])
           \/ /\ after.box = b /\ after.op = job[h].op
              /\ after.pc = "unpublish" => OfNext(b) = byBox'[b]
              /\ after.pc = "close" => byBox'[b] = {} /\ OfNext(b) = after.closing
              /\ after.pc \in {"listen", "undo"} => byBox'[b] = {} /\ OfNext(b) = after.opened
              /\ after.op = "closeAll" => result'[b] = {}
    PROVE  OneRequest' /\ RestingBoxes' /\ HandledBoxes'
<1>1. /\ job'[h] = after /\ \A o \in Handlers \ {h} : job'[o] = job[o]
  BY ForwardsFrame
<1>2. \A o \in Handlers \ {h} : job[o].box # b
  <2>1. \A o \in Handlers \ {h} : job[o].pc # "idle" => job[o].box # b
    BY DEF ForwardsInv, OneRequest
  <2>2. \A o \in Handlers : job[o].pc = "idle" => job[o].box = NoBox
    BY NoJobFields DEF ForwardsInv, ForwardsFormed
  <2>3. QED
    BY <2>1, <2>2, ForwardsNoBox
<1>3. OneRequest'
  BY <1>1, NoJobFields DEF ForwardsInv, OneRequest
<1>4. RestingBoxes'
  <2>1. SUFFICES ASSUME NEW c \in Boxes, \A o \in Handlers : job'[o].box # c
                 PROVE  OfNext(c) = byBox'[c] /\ byBox'[c] = To(c, result'[c])
    BY DEF RestingBoxes, To, Of, OfNext
  <2>2. CASE c = b
    BY <1>1, <2>1, <2>2
  <2>3. CASE c # b
    <3>1. \A o \in Handlers : job[o].box # c
      BY <1>1, <2>1, <2>3
    <3>2. QED
      BY <2>3, <3>1 DEF ForwardsInv, RestingBoxes
  <2>4. QED
    BY <2>2, <2>3
<1>5. HandledBoxes'
  <2>1. SUFFICES ASSUME NEW o \in Handlers, NEW c \in Boxes, job'[o].box = c
                 PROVE  /\ job'[o].pc = "unpublish" => OfNext(c) = byBox'[c]
                        /\ job'[o].pc = "close" => byBox'[c] = {} /\ OfNext(c) = job'[o].closing
                        /\ job'[o].pc \in {"listen", "undo"}
                             => byBox'[c] = {} /\ OfNext(c) = job'[o].opened
                        /\ job'[o].op = "closeAll" => result'[c] = {}
    BY DEF HandledBoxes, Of, OfNext
  <2>2. CASE o = h
    BY <1>1, <2>1, <2>2, NoJobFields, ForwardsNoBox
  <2>3. CASE o # h
    <3>1. job'[o] = job[o] /\ job[o].box = c /\ c \in Boxes \ {b}
      BY <1>1, <1>2, <2>1, <2>3
    <3>2. QED
      BY <3>1 DEF ForwardsInv, HandledBoxes
  <2>4. QED
    BY <2>2, <2>3
<1>6. QED
  BY <1>3, <1>4, <1>5

LEMMA TakeKeeps ==
    ASSUME ForwardsInv, NEW h \in Handlers, Take(h)
    PROVE  ForwardsInv'
<1> DEFINE b == job[h].box
           after == [job[h] EXCEPT !.pc = "close", !.closing = byBox[b]]
<1>1. /\ job[h].pc = "unpublish" /\ b \in Boxes /\ job[h] \in Job /\ job[h].opened = {}
      /\ byBox[b] \subseteq Listener /\ Of(b) = byBox[b] /\ byBox \in [Boxes -> SUBSET Listener]
  BY DEF Take, At, ForwardsInv, ForwardsFormed, ForwardsTypeOK, HandledBoxes
<1>2. /\ after \in Job /\ after.pc = "close" /\ after.closing = byBox[b] /\ after.box = b
      /\ after.op = job[h].op /\ after.opened = {} /\ after.boxes = job[h].boxes
  BY <1>1 DEF Job, Phases
<1>3. /\ job' = [job EXCEPT ![h] = after] /\ byBox' = [byBox EXCEPT ![b] = {}]
      /\ UNCHANGED <<listening, busy, stopping, result>>
  BY DEF Take, ForwardsInv, ForwardsTypeOK
<1> HIDE DEF after
<1>4. /\ job' \in [Handlers -> Job] /\ job'[h] = after
      /\ \A o \in Handlers \ {h} : job'[o] = job[o]
  BY <1>2, <1>3, ForwardsFrame
<1>5. ForwardsTypeOK' /\ OnePerPort'
  BY <1>1, <1>3, <1>4 DEF ForwardsInv, ForwardsTypeOK, OnePerPort
<1>6. ForwardsFormed'
  BY <1>1, <1>2, <1>3, <1>4, ForwardsNoBox DEF ForwardsInv, ForwardsFormed
<1>7. \A c \in Boxes : OfNext(c) = Of(c)
  BY <1>3 DEF Of, OfNext
<1>8. job[h].op = "closeAll" => result[b] = {}
  BY <1>1 DEF ForwardsInv, HandledBoxes
<1>9. OneRequest' /\ RestingBoxes' /\ HandledBoxes'
  <2>1. \A c \in Boxes \ {b} : byBox'[c] = byBox[c] /\ result'[c] = result[c] /\ OfNext(c) = Of(c)
    BY <1>1, <1>3, <1>7
  <2>2. byBox'[b] = {} /\ OfNext(b) = after.closing
    BY <1>1, <1>2, <1>3, <1>7
  <2>3. QED
    BY <1>1, <1>2, <1>3, <1>8, <2>1, <2>2, OwnBox
<1>10. QED
  BY <1>5, <1>6, <1>9 DEF ForwardsInv

LEMMA CloseKeeps ==
    ASSUME ForwardsInv, NEW h \in Handlers, Close(h)
    PROVE  ForwardsInv'
<1> DEFINE b == job[h].box
<1>1. PICK l \in job[h].closing :
        /\ listening' = listening \ {l}
        /\ job' = [job EXCEPT ![h].closing = @ \ {l}]
  BY DEF Close
<1> DEFINE after == [job[h] EXCEPT !.closing = @ \ {l}]
<1>2. /\ job[h].pc = "close" /\ job[h] \in Job /\ b \in Boxes /\ job[h].opened = {}
      /\ UNCHANGED <<byBox, busy, stopping, result>>
  BY <1>1 DEF Close, At, ForwardsInv, ForwardsFormed, ForwardsTypeOK, Job
<1>3. /\ after \in Job /\ after.pc = "close" /\ after.closing = job[h].closing \ {l}
      /\ after.box = b /\ after.op = job[h].op /\ after.opened = {} /\ after.boxes = job[h].boxes
  BY <1>2 DEF Job
<1>4. job' = [job EXCEPT ![h] = after]
  BY <1>1 DEF ForwardsInv, ForwardsTypeOK
<1> HIDE DEF after
<1>5. /\ job' \in [Handlers -> Job] /\ job'[h] = after
      /\ \A o \in Handlers \ {h} : job'[o] = job[o]
  BY <1>3, <1>4, ForwardsFrame
<1>6. byBox[b] = {} /\ Of(b) = job[h].closing /\ l.box = b
      /\ (job[h].op = "closeAll" => result[b] = {})
  BY <1>1, <1>2 DEF ForwardsInv, HandledBoxes, Of
<1>7. ForwardsTypeOK' /\ OnePerPort'
  BY <1>1, <1>2, <1>5 DEF ForwardsInv, ForwardsTypeOK, OnePerPort
<1>8. ForwardsFormed'
  BY <1>2, <1>3, <1>5, ForwardsNoBox DEF ForwardsInv, ForwardsFormed
<1>9. /\ \A c \in Boxes \ {b} : OfNext(c) = Of(c)
      /\ OfNext(b) = after.closing
  BY <1>1, <1>3, <1>6 DEF Of, OfNext
<1>10. OneRequest' /\ RestingBoxes' /\ HandledBoxes'
  BY <1>2, <1>3, <1>4, <1>6, <1>9, OwnBox
<1>11. QED
  BY <1>7, <1>8, <1>10 DEF ForwardsInv

LEMMA ListenKeeps ==
    ASSUME ForwardsInv, NEW h \in Handlers, Listen(h)
    PROVE  ForwardsInv'
<1> DEFINE b == job[h].box
<1>1. /\ job[h].pc = "listen" /\ job[h] \in Job /\ b \in Boxes /\ job[h].op = "publish"
      /\ job[h].closing = {} /\ job[h].boxes = {}
      /\ UNCHANGED <<byBox, busy, stopping, result>>
  BY DEF Listen, At, ForwardsInv, ForwardsFormed, ForwardsTypeOK
<1>2. byBox[b] = {} /\ Of(b) = job[h].opened
  BY <1>1 DEF ForwardsInv, HandledBoxes
<1>3. PICK x \in Missing(h) :
        \/ /\ x \notin Taken
           /\ listening' = listening \cup To(b, {x})
           /\ job' = [job EXCEPT ![h].opened = @ \cup To(b, {x})]
        \/ /\ x \in Taken
           /\ job' = [job EXCEPT ![h].pc = "undo"]
           /\ UNCHANGED listening
  BY DEF Listen
<1>4. x \in job[h].ask /\ x \in Ports
  BY <1>1 DEF Missing, Job
<1>5. CASE /\ x \notin Taken
           /\ listening' = listening \cup To(b, {x})
           /\ job' = [job EXCEPT ![h].opened = @ \cup To(b, {x})]
  <2> DEFINE after == [job[h] EXCEPT !.opened = @ \cup To(b, {x})]
             new == [port |-> x, box |-> b]
  <2>1. To(b, {x}) = {new} /\ new \in Listener /\ new.port = x /\ new.box = b
    BY <1>1, <1>4 DEF To, Listener
  <2> HIDE DEF new
  <2>2. /\ after \in Job /\ after.pc = "listen" /\ after.opened = job[h].opened \cup {new}
        /\ after.box = b /\ after.op = "publish" /\ after.closing = {} /\ after.boxes = {}
        /\ after.ask = job[h].ask
    BY <1>1, <2>1 DEF Job
  <2>3. job' = [job EXCEPT ![h] = after]
    BY <1>5 DEF ForwardsInv, ForwardsTypeOK
  <2> HIDE DEF after
  <2>4. /\ job' \in [Handlers -> Job] /\ job'[h] = after
        /\ \A o \in Handlers \ {h} : job'[o] = job[o]
    BY <2>2, <2>3, ForwardsFrame
  <2>5. ForwardsTypeOK'
    BY <1>1, <1>5, <2>1, <2>4 DEF ForwardsInv, ForwardsTypeOK
  <2>6. OnePerPort'
    BY <1>5, <2>1 DEF ForwardsInv, OnePerPort, Taken
  <2>7. ForwardsFormed'
    BY <1>1, <1>4, <2>1, <2>2, <2>4, ForwardsNoBox DEF ForwardsInv, ForwardsFormed
  <2>8. /\ \A c \in Boxes \ {b} : OfNext(c) = Of(c)
        /\ OfNext(b) = after.opened
    BY <1>2, <1>5, <2>1, <2>2 DEF Of, OfNext
  <2>9. OneRequest' /\ RestingBoxes' /\ HandledBoxes'
    BY <1>1, <1>2, <2>2, <2>3, <2>8, OwnBox
  <2>10. QED
    BY <2>5, <2>6, <2>7, <2>9 DEF ForwardsInv
<1>6. CASE job' = [job EXCEPT ![h].pc = "undo"] /\ UNCHANGED listening
  <2> DEFINE after == [job[h] EXCEPT !.pc = "undo"]
  <2>1. /\ after \in Job /\ after.pc = "undo" /\ after.opened = job[h].opened
        /\ after.box = b /\ after.op = "publish" /\ after.closing = {} /\ after.boxes = {}
        /\ after.ask = job[h].ask
    BY <1>1 DEF Job, Phases
  <2>2. job' = [job EXCEPT ![h] = after]
    BY <1>6 DEF ForwardsInv, ForwardsTypeOK
  <2> HIDE DEF after
  <2>3. /\ job' \in [Handlers -> Job] /\ job'[h] = after
        /\ \A o \in Handlers \ {h} : job'[o] = job[o]
    BY <2>1, <2>2, ForwardsFrame
  <2>4. ForwardsTypeOK' /\ OnePerPort'
    BY <1>1, <1>6, <2>3 DEF ForwardsInv, ForwardsTypeOK, OnePerPort
  <2>5. ForwardsFormed'
    BY <1>1, <2>1, <2>3, ForwardsNoBox DEF ForwardsInv, ForwardsFormed
  <2>6. \A c \in Boxes : OfNext(c) = Of(c)
    BY <1>6 DEF Of, OfNext
  <2>7. OneRequest' /\ RestingBoxes' /\ HandledBoxes'
    BY <1>1, <1>2, <2>1, <2>2, <2>6, OwnBox
  <2>8. QED
    BY <2>4, <2>5, <2>7 DEF ForwardsInv
<1>7. QED
  BY <1>3, <1>5, <1>6

\* The shutdown is alone: what it does to its boxes is seen by nobody.
LEMMA AloneInShutdown ==
    ASSUME ForwardsInv, NEW h \in Handlers, job[h].pc = "close", job[h].op = "closeAll"
    PROVE  \A o \in Handlers \ {h} : job[o] = NoJob
BY DEF ForwardsInv, OneRequest, ForwardsFormed

\* The box whose listeners have been closed has none.
LEMMA ClosedBox ==
    ASSUME ForwardsInv, NEW h \in Handlers, Closed(h), NEW c \in Boxes, job[h].box = c
    PROVE  /\ Of(c) = {} /\ byBox[c] = {} /\ To(c, {}) = {}
           /\ job[h].op = "closeAll" => result[c] = {}
BY DEF Closed, At, ForwardsInv, HandledBoxes, To

LEMMA ClosedGoesOn ==
    ASSUME ForwardsInv, NEW h \in Handlers, Closed(h),
           job[h].op = "publish", job' = [job EXCEPT ![h].pc = "listen"], UNCHANGED result
    PROVE  ForwardsInv'
<1> DEFINE after == [job[h] EXCEPT !.pc = "listen"]
<1>1. /\ job[h].pc = "close" /\ job[h] \in Job /\ job[h].box \in Boxes /\ job[h].closing = {}
      /\ job[h].opened = {} /\ job[h].boxes = {}
      /\ UNCHANGED <<byBox, listening, busy, stopping>>
  BY DEF Closed, At, ForwardsInv, ForwardsFormed, ForwardsTypeOK
<1>2. PICK b \in Boxes : job[h].box = b
  BY <1>1
<1>3. /\ after \in Job /\ after.pc = "listen" /\ after.opened = {} /\ after.closing = {}
      /\ after.box = b /\ after.op = "publish" /\ after.boxes = {}
  BY <1>1, <1>2 DEF Job, Phases
<1>4. job' = [job EXCEPT ![h] = after]
  BY DEF ForwardsInv, ForwardsTypeOK
<1> HIDE DEF after
<1>5. /\ job' \in [Handlers -> Job] /\ job'[h] = after
      /\ \A o \in Handlers \ {h} : job'[o] = job[o]
  BY <1>3, <1>4, ForwardsFrame
<1>6. ForwardsTypeOK' /\ OnePerPort'
  BY <1>1, <1>5 DEF ForwardsInv, ForwardsTypeOK, OnePerPort
<1>7. ForwardsFormed'
  BY <1>1, <1>3, <1>5, ForwardsNoBox DEF ForwardsInv, ForwardsFormed
<1>8. \A c \in Boxes : OfNext(c) = Of(c)
  BY <1>1 DEF Of, OfNext
<1>9. OneRequest' /\ RestingBoxes' /\ HandledBoxes'
  <2>1. Of(b) = {} /\ byBox[b] = {}
    BY <1>2, ClosedBox
  <2>2. \A c \in Boxes \ {b} :
          byBox'[c] = byBox[c] /\ result'[c] = result[c] /\ OfNext(c) = Of(c)
    BY <1>1, <1>8
  <2>3. byBox'[b] = {} /\ OfNext(b) = after.opened
    BY <1>1, <1>3, <1>8, <2>1
  <2>4. /\ job[h].pc # "idle" /\ after.op = job[h].op
        /\ after.pc # "unpublish" /\ after.pc # "close" /\ after.op # "closeAll"
    BY <1>1, <1>3
  <2>5. QED
    BY <1>2, <1>3, <1>4, <2>2, <2>3, <2>4, OwnBox
<1>10. QED
  BY <1>6, <1>7, <1>9 DEF ForwardsInv

LEMMA ClosedEnds ==
    ASSUME ForwardsInv, NEW h \in Handlers, Closed(h), job[h].op # "publish",
           job' = [job EXCEPT ![h] = NoJob],
           IF job[h].box \in Boxes THEN Left(job[h].box, {}) ELSE UNCHANGED result
    PROVE  ForwardsInv'
<1>1. /\ job[h].pc = "close" /\ job[h] \in Job
      /\ UNCHANGED <<byBox, listening, busy, stopping>>
  BY DEF Closed, At, ForwardsInv, ForwardsTypeOK
<1>2. /\ job' \in [Handlers -> Job] /\ job'[h] = NoJob
      /\ \A o \in Handlers \ {h} : job'[o] = job[o]
  BY NoJobFields, ForwardsFrame
<1>3. ForwardsTypeOK' /\ OnePerPort'
  <2>1. result' \in [Boxes -> SUBSET Ports]
    <3>1. CASE job[h].box \in Boxes
      BY <3>1 DEF Left, ForwardsInv, ForwardsTypeOK
    <3>2. CASE job[h].box \notin Boxes
      BY <3>2 DEF ForwardsInv, ForwardsTypeOK
    <3>3. QED
      BY <3>1, <3>2
  <2>2. QED
    BY <1>1, <1>2, <2>1 DEF ForwardsInv, ForwardsTypeOK, OnePerPort
<1>4. ForwardsFormed'
  BY <1>1, <1>2, NoJobFields, ForwardsNoBox DEF ForwardsInv, ForwardsFormed
<1>5. \A c \in Boxes : OfNext(c) = Of(c)
  BY <1>1 DEF Of, OfNext
<1>6. OneRequest' /\ RestingBoxes' /\ HandledBoxes'
  <2>1. CASE job[h].box \in Boxes
    <3>1. PICK b \in Boxes : job[h].box = b
      BY <2>1
    <3>2. result' = [result EXCEPT ![b] = {}] /\ result \in [Boxes -> SUBSET Ports]
      BY <3>1 DEF Left, ForwardsInv, ForwardsTypeOK
    <3>3. OfNext(b) = byBox'[b] /\ byBox'[b] = To(b, result'[b])
      BY <1>1, <1>5, <3>1, <3>2, ClosedBox
    <3>4. \A c \in Boxes \ {b} :
            byBox'[c] = byBox[c] /\ result'[c] = result[c] /\ OfNext(c) = Of(c)
      BY <1>1, <1>5, <3>2
    <3>5. QED
      BY <1>1, <3>1, <3>3, <3>4, NoJobFields, OwnBox
  <2>2. CASE job[h].box \notin Boxes
    <3>1. job[h].op = "closeAll" /\ UNCHANGED result
      BY <1>1, <2>2 DEF ForwardsInv, ForwardsFormed
    <3>2. \A o \in Handlers : job'[o] = NoJob
      BY <1>1, <1>2, <3>1, AloneInShutdown
    <3>3. \A c \in Boxes : \A o \in Handlers : job[o].box # c
      BY <1>1, <2>2, <3>1, AloneInShutdown, NoJobFields, ForwardsNoBox
    <3>4. \A c \in Boxes : Of(c) = byBox[c] /\ byBox[c] = To(c, result[c])
      BY <3>3 DEF ForwardsInv, RestingBoxes
    <3>5. QED
      BY <1>1, <3>1, <3>2, <3>4, NoJobFields, ForwardsNoBox
         DEF OneRequest, RestingBoxes, HandledBoxes, Of, To
  <2>3. QED
    BY <2>1, <2>2
<1>7. QED
  BY <1>3, <1>4, <1>6 DEF ForwardsInv

LEMMA ClosedTakesNext ==
    ASSUME ForwardsInv, NEW h \in Handlers, Closed(h), job[h].op = "closeAll",
           NEW b \in job[h].boxes,
           job' = [job EXCEPT ![h].pc = "unpublish", ![h].box = b, ![h].boxes = @ \ {b}],
           Left(b, {})
    PROVE  ForwardsInv'
<1> DEFINE after == [job[h] EXCEPT !.pc = "unpublish", !.box = b, !.boxes = @ \ {b}]
<1>1. /\ job[h].pc = "close" /\ job[h] \in Job /\ b \in Boxes /\ job[h].closing = {}
      /\ job[h].opened = {} /\ stopping
      /\ UNCHANGED <<byBox, listening, busy, stopping>>
  BY DEF Closed, At, ForwardsInv, ForwardsFormed, ForwardsTypeOK, Job
<1>2. /\ after \in Job /\ after.pc = "unpublish" /\ after.box = b /\ after.op = "closeAll"
      /\ after.opened = {} /\ after.closing = {}
  BY <1>1 DEF Job, Phases
<1>3. job' = [job EXCEPT ![h] = after]
  BY DEF ForwardsInv, ForwardsTypeOK
<1> HIDE DEF after
<1>4. /\ job' \in [Handlers -> Job] /\ job'[h] = after
      /\ \A o \in Handlers \ {h} : job'[o] = job[o]
  BY <1>2, <1>3, ForwardsFrame
<1>5. result \in [Boxes -> SUBSET Ports] /\ result' = [result EXCEPT ![b] = {}]
  BY DEF Left, ForwardsInv, ForwardsTypeOK
<1>6. ForwardsTypeOK' /\ OnePerPort'
  BY <1>1, <1>4, <1>5 DEF ForwardsInv, ForwardsTypeOK, OnePerPort
<1>7. ForwardsFormed'
  BY <1>1, <1>2, <1>4, ForwardsNoBox DEF ForwardsInv, ForwardsFormed
<1>8. \A o \in Handlers \ {h} : job[o] = NoJob /\ job'[o] = NoJob
  BY <1>1, <1>4, AloneInShutdown
<1>9. OneRequest'
  BY <1>2, <1>4, <1>8, NoJobFields DEF OneRequest
<1>10. \A c \in Boxes : Of(c) = byBox[c]
  <2>1. SUFFICES ASSUME NEW c \in Boxes PROVE Of(c) = byBox[c]
    OBVIOUS
  <2>2. CASE job[h].box = c
    BY <2>2, ClosedBox
  <2>3. CASE job[h].box # c
    BY <1>8, <2>3, NoJobFields, ForwardsNoBox DEF ForwardsInv, RestingBoxes
  <2>4. QED
    BY <2>2, <2>3
<1>11. \A c \in Boxes \ {b} : byBox[c] = To(c, result[c])
  <2>1. SUFFICES ASSUME NEW c \in Boxes \ {b} PROVE byBox[c] = To(c, result[c])
    OBVIOUS
  <2>2. CASE job[h].box = c
    BY <2>2, ClosedBox
  <2>3. CASE job[h].box # c
    BY <1>8, <2>3, NoJobFields, ForwardsNoBox DEF ForwardsInv, RestingBoxes
  <2>4. QED
    BY <2>2, <2>3
<1>12. RestingBoxes'
  BY <1>1, <1>2, <1>4, <1>5, <1>10, <1>11 DEF RestingBoxes, Of, To
<1>13. HandledBoxes'
  BY <1>1, <1>2, <1>4, <1>5, <1>8, <1>10, NoJobFields, ForwardsNoBox DEF HandledBoxes, Of
<1>14. QED
  BY <1>6, <1>7, <1>9, <1>12, <1>13 DEF ForwardsInv

LEMMA ClosedKeeps ==
    ASSUME ForwardsInv, NEW h \in Handlers, Closed(h)
    PROVE  ForwardsInv'
<1>1. CASE job[h].op = "publish"
  BY <1>1, ClosedGoesOn DEF Closed
<1>2. CASE job[h].op # "publish"
  <2>1. \/ /\ job[h].op = "closeAll"
           /\ \E b \in job[h].boxes :
                /\ job' = [job EXCEPT ![h].pc = "unpublish", ![h].box = b,
                                      ![h].boxes = @ \ {b}]
                /\ Left(b, {})
        \/ /\ job' = [job EXCEPT ![h] = NoJob]
           /\ IF job[h].box \in Boxes THEN Left(job[h].box, {}) ELSE UNCHANGED result
    BY <1>2 DEF Closed
  <2>2. QED
    BY <1>2, <2>1, ClosedTakesNext, ClosedEnds
<1>3. QED
  BY <1>1, <1>2

LEMMA UndoKeeps ==
    ASSUME ForwardsInv, NEW h \in Handlers, Undo(h)
    PROVE  ForwardsInv'
<1>1. /\ job[h].pc = "undo" /\ job[h] \in Job /\ job[h].box \in Boxes /\ job[h].op = "publish"
      /\ job[h].closing = {} /\ job[h].boxes = {}
      /\ UNCHANGED <<byBox, busy, stopping>>
  BY DEF Undo, At, ForwardsInv, ForwardsFormed, ForwardsTypeOK
<1>2. PICK b \in Boxes : job[h].box = b
  BY <1>1
<1>3. /\ byBox[b] = {} /\ Of(b) = job[h].opened
      /\ byBox \in [Boxes -> SUBSET Listener] /\ result \in [Boxes -> SUBSET Ports]
  BY <1>1, <1>2 DEF ForwardsInv, HandledBoxes, ForwardsTypeOK
<1>4. CASE \E l \in job[h].opened :
             /\ listening' = listening \ {l}
             /\ job' = [job EXCEPT ![h].opened = @ \ {l}]
             /\ UNCHANGED result
  <2>1. PICK l \in job[h].opened :
          /\ listening' = listening \ {l}
          /\ job' = [job EXCEPT ![h].opened = @ \ {l}]
          /\ UNCHANGED result
    BY <1>4
  <2> DEFINE after == [job[h] EXCEPT !.opened = @ \ {l}]
  <2>2. /\ after \in Job /\ after.pc = "undo" /\ after.opened = job[h].opened \ {l}
        /\ after.box = b /\ after.op = "publish" /\ after.closing = {} /\ after.boxes = {}
        /\ after.ask = job[h].ask
    BY <1>1, <1>2 DEF Job
  <2>3. job' = [job EXCEPT ![h] = after]
    BY <2>1 DEF ForwardsInv, ForwardsTypeOK
  <2> HIDE DEF after
  <2>4. /\ job' \in [Handlers -> Job] /\ job'[h] = after
        /\ \A o \in Handlers \ {h} : job'[o] = job[o]
    BY <2>2, <2>3, ForwardsFrame
  <2>5. ForwardsTypeOK' /\ OnePerPort'
    BY <1>1, <2>1, <2>4 DEF ForwardsInv, ForwardsTypeOK, OnePerPort
  <2>6. ForwardsFormed'
    BY <1>1, <1>2, <2>2, <2>4, ForwardsNoBox DEF ForwardsInv, ForwardsFormed
  <2>7. /\ \A c \in Boxes \ {b} : OfNext(c) = Of(c)
        /\ OfNext(b) = after.opened
    BY <1>3, <2>1, <2>2 DEF Of, OfNext
  <2>8. OneRequest' /\ RestingBoxes' /\ HandledBoxes'
    <3>1. /\ \A c \in Boxes \ {b} :
               byBox'[c] = byBox[c] /\ result'[c] = result[c] /\ OfNext(c) = Of(c)
          /\ byBox'[b] = {} /\ OfNext(b) = after.opened
      BY <1>1, <1>3, <2>1, <2>7
    <3>2. QED
      BY <1>1, <1>2, <2>2, <2>3, <3>1, OwnBox
  <2>9. QED
    BY <2>5, <2>6, <2>8 DEF ForwardsInv
<1>5. CASE /\ job[h].opened = {} /\ job' = [job EXCEPT ![h] = NoJob]
           /\ Left(job[h].box, {}) /\ UNCHANGED listening
  <2>1. /\ job' \in [Handlers -> Job] /\ job'[h] = NoJob
        /\ \A o \in Handlers \ {h} : job'[o] = job[o]
    BY <1>5, NoJobFields, ForwardsFrame
  <2>2. result' = [result EXCEPT ![b] = {}]
    BY <1>2, <1>5 DEF Left
  <2>3. ForwardsTypeOK' /\ OnePerPort'
    BY <1>1, <1>3, <1>5, <2>1, <2>2 DEF ForwardsInv, ForwardsTypeOK, OnePerPort
  <2>4. ForwardsFormed'
    BY <1>1, <2>1, NoJobFields, ForwardsNoBox DEF ForwardsInv, ForwardsFormed
  <2>5. /\ \A c \in Boxes \ {b} :
             byBox'[c] = byBox[c] /\ result'[c] = result[c] /\ OfNext(c) = Of(c)
        /\ OfNext(b) = byBox'[b] /\ byBox'[b] = To(b, result'[b])
    BY <1>1, <1>3, <1>5, <2>2 DEF Of, OfNext, To
  <2>6. OneRequest' /\ RestingBoxes' /\ HandledBoxes'
    BY <1>1, <1>2, <1>5, <2>5, NoJobFields, OwnBox
  <2>7. QED
    BY <2>3, <2>4, <2>6 DEF ForwardsInv
<1>6. QED
  BY <1>4, <1>5 DEF Undo

LEMMA StoreKeeps ==
    ASSUME ForwardsInv, NEW h \in Handlers, Store(h)
    PROVE  ForwardsInv'
<1>1. /\ job[h].pc = "listen" /\ job[h] \in Job /\ job[h].box \in Boxes /\ job[h].op = "publish"
      /\ UNCHANGED <<listening, busy, stopping>>
  BY DEF Store, At, ForwardsInv, ForwardsFormed, ForwardsTypeOK
<1>2. PICK b \in Boxes : job[h].box = b
  BY <1>1
<1>3. /\ Of(b) = job[h].opened /\ job[h].ask \subseteq Ports /\ job[h].opened \subseteq Listener
      /\ byBox \in [Boxes -> SUBSET Listener] /\ result \in [Boxes -> SUBSET Ports]
  BY <1>1, <1>2 DEF ForwardsInv, HandledBoxes, ForwardsTypeOK, Job
\* Every port that was asked for is open, and no other.
<1>4. job[h].opened = To(b, job[h].ask)
  <2>1. \A l \in job[h].opened : l.box = b /\ l.port \in job[h].ask
    BY <1>2 DEF ForwardsInv, ForwardsFormed
  <2>2. \A x \in job[h].ask : \E l \in job[h].opened : l.port = x
    BY DEF Store, Missing
  <2>3. \A l \in job[h].opened : l = [port |-> l.port, box |-> l.box]
    BY <1>3 DEF Listener
  <2>4. QED
    BY <2>1, <2>2, <2>3 DEF To
<1>5. /\ job' = [job EXCEPT ![h] = NoJob] /\ byBox' = [byBox EXCEPT ![b] = job[h].opened]
      /\ result' = [result EXCEPT ![b] = job[h].ask]
  BY <1>2 DEF Store, Left
<1>6. /\ job' \in [Handlers -> Job] /\ job'[h] = NoJob
      /\ \A o \in Handlers \ {h} : job'[o] = job[o]
  BY <1>5, NoJobFields, ForwardsFrame
<1>7. ForwardsTypeOK' /\ OnePerPort'
  BY <1>1, <1>3, <1>5, <1>6 DEF ForwardsInv, ForwardsTypeOK, OnePerPort
<1>8. ForwardsFormed'
  BY <1>1, <1>6, NoJobFields, ForwardsNoBox DEF ForwardsInv, ForwardsFormed
<1>9. /\ \A c \in Boxes \ {b} :
           byBox'[c] = byBox[c] /\ result'[c] = result[c] /\ OfNext(c) = Of(c)
      /\ OfNext(b) = byBox'[b] /\ byBox'[b] = To(b, result'[b])
  <2>1. \A c \in Boxes : OfNext(c) = Of(c)
    BY <1>1 DEF Of, OfNext
  <2>2. byBox'[b] = job[h].opened /\ result'[b] = job[h].ask
    BY <1>3, <1>5
  <2>3. QED
    BY <1>3, <1>4, <1>5, <2>1, <2>2
<1>10. OneRequest' /\ RestingBoxes' /\ HandledBoxes'
  BY <1>1, <1>2, <1>5, <1>9, NoJobFields, OwnBox
<1>11. QED
  BY <1>7, <1>8, <1>10 DEF ForwardsInv

LEMMA OthersKeep ==
    ASSUME ForwardsInv, OtherProgram \/ UNCHANGED forwardVars
    PROVE  ForwardsInv'
<1>1. UNCHANGED <<byBox, listening, stopping, job, result>> /\ busy' \subseteq Ports
  BY DEF OtherProgram, forwardVars, ForwardsInv, ForwardsTypeOK
<1>2. ForwardsTypeOK' /\ ForwardsFormed' /\ OneRequest'
  BY <1>1 DEF ForwardsInv, ForwardsTypeOK, ForwardsFormed, OneRequest
<1>3. RestingBoxes' /\ HandledBoxes' /\ OnePerPort'
  BY <1>1 DEF ForwardsInv, RestingBoxes, HandledBoxes, OnePerPort, Of
<1>4. QED
  BY <1>2, <1>3 DEF ForwardsInv

LEMMA ForwardsStepKeeps ==
    ASSUME ForwardsInv, Exclusive = TRUE, [ForwardsNext]_forwardVars
    PROVE  ForwardsInv'
BY RequestsBegin, CloseAllKeeps, TakeKeeps, CloseKeeps, ClosedKeeps, ListenKeeps, UndoKeeps,
   StoreKeeps, OthersKeep DEF ForwardsNext

LEMMA ForwardsInvariant == ASSUME Exclusive = TRUE PROVE ForwardsSpec => []ForwardsInv
<1>1. ForwardsInit => ForwardsInv
  BY ForwardsInitInv
<1>2. ForwardsInv /\ [ForwardsNext]_forwardVars => ForwardsInv'
  BY ForwardsStepKeeps
<1>3. QED
  BY <1>1, <1>2, PTL DEF ForwardsSpec

\* The invariant gives both properties of the forwards: a listener leads to a
\* box that is resting, and then it is in the table, or to the one that a
\* request is about.
LEMMA ListenersAreFound == ForwardsInv => NoListenerLost
<1> SUFFICES ASSUME ForwardsInv PROVE NoListenerLost
  OBVIOUS
<1>1. /\ listening \subseteq Listener /\ OnePerPort
      /\ \A b \in Boxes : byBox[b] \subseteq Listener
      /\ \A h \in Handlers : job[h].pc \in Phases
  BY DEF ForwardsInv, ForwardsTypeOK, Job
<1>2. ASSUME NEW l \in listening, l \notin byBox[l.box]
      PROVE  \E h \in Handlers : l \in job[h].opened \cup job[h].closing
  <2>1. PICK b \in Boxes : l.box = b
    BY <1>1 DEF Listener
  <2>2. l \in Of(b) /\ Of(b) # byBox[b]
    BY <1>2, <2>1 DEF Of
  <2>3. PICK h \in Handlers : job[h].box = b
    BY <2>2 DEF ForwardsInv, RestingBoxes
  <2>4. job[h].pc # "idle"
    BY <2>3, NoJobFields, ForwardsNoBox DEF ForwardsInv, ForwardsFormed
  <2>5. job[h].pc \in {"close", "listen", "undo"}
    BY <1>1, <2>2, <2>3, <2>4 DEF ForwardsInv, HandledBoxes, Phases
  <2>6. QED
    BY <2>2, <2>3, <2>5 DEF ForwardsInv, HandledBoxes
<1>3. ASSUME NEW b \in Boxes
      PROVE  byBox[b] \subseteq Of(b)
  <2>1. CASE \A h \in Handlers : job[h].box # b
    BY <2>1 DEF ForwardsInv, RestingBoxes
  <2>2. CASE \E h \in Handlers : job[h].box = b
    <3>1. PICK h \in Handlers : job[h].box = b
      BY <2>2
    <3>2. job[h].pc # "idle"
      BY <3>1, NoJobFields, ForwardsNoBox DEF ForwardsInv, ForwardsFormed
    <3>3. QED
      BY <1>1, <3>1, <3>2 DEF ForwardsInv, HandledBoxes, Phases
  <2>3. QED
    BY <2>1, <2>2
<1>4. QED
  BY <1>1, <1>2, <1>3 DEF NoListenerLost, OnePerPort

LEMMA RestingAreReplaced == ForwardsInv => ForwardsReplaced
<1> SUFFICES ASSUME ForwardsInv, NEW b \in Boxes, Working(b) = {}
             PROVE  Of(b) = To(b, result[b])
  BY DEF ForwardsReplaced
<1>1. \A h \in Handlers : job[h].box # b
  BY NoJobFields, ForwardsNoBox DEF Working, Idle, At, ForwardsInv, ForwardsFormed
<1>2. QED
  BY <1>1 DEF ForwardsInv, RestingBoxes

\* As long as requests about one box wait for each other, no listener of a box
\* is ever lost and the table names only open listeners of the box itself
\* (publish, unpublish and closeAll of forwards.go).
THEOREM ListenersStayFound == ASSUME Exclusive = TRUE PROVE ForwardsSpec => []NoListenerLost
<1>1. ForwardsInv => NoListenerLost
  BY ListenersAreFound
<1>2. QED
  BY <1>1, ForwardsInvariant, PTL

\* And a box without a request about it has exactly the forwards of its last
\* publish, none after a failure or an unpublish (forwards.go:27-28).
THEOREM ForwardsStayReplaced == ASSUME Exclusive = TRUE PROVE ForwardsSpec => []ForwardsReplaced
<1>1. ForwardsInv => ForwardsReplaced
  BY RestingAreReplaced
<1>2. QED
  BY <1>1, ForwardsInvariant, PTL

----------------------------------------------------------------------------
RequestsSpec == RequestsInit /\ [][RequestsNext]_requestVars

\* The types that the entries and the decisions rest on.
RequestTypes ==
    /\ grants \in (SUBSET Secrets) \cup {Nothing}
    /\ unlocked \in BOOLEAN
    /\ secrets \in [Secrets -> Records \cup {Nothing}]
    /\ clock \in 0..MaxTime
    /\ conn \in [Connections -> Conn]

\* Requests that a route of a secret serves.
RouteKinds == {"named", "intercepted"}
Served == {"project", "secret", "moment", "limit", "forward", "proxy", "upgrade", "body"}

\* Which phases each kind of a request passes through.
KindInv(x) ==
    /\ x.pc = "idle" => x = NoConn
    /\ x.pc \in {"intercept", "dial", "splice"} => x.kind = "raw"
    /\ x.pc = "allow" => x.kind \in {"raw", "uri"}
    /\ x.pc = "acknowledge" => x.kind # "uri"
    /\ x.tunnel \/ x.pc = "tunnel" => x.kind \notin {"raw", "uri"}
    /\ x.pc \in {"secret", "moment", "limit", "forward"} => x.kind # "inmate"
    /\ x.pc = "credential" => x.kind = "inmate"

\* A request has left no entry before it ends, but when it switched protocols;
\* which must leave one is known only after FindProject and Allow.
EntriesInv(x) ==
    /\ x.pc \notin {"upgrade", "ended"} => x.entries = 0 /\ ~x.once
    /\ x.pc = "upgrade" => x.entries = 1 /\ x.once
    /\ x.pc = "ended" => ~x.once /\ (x.entries = 1 \/ (~x.due /\ x.entries = 0))
    /\ x.pc \in {"idle", "intercept", "allow", "tunnel", "project"} => ~x.due
    /\ x.pc = "acknowledge" /\ x.kind # "raw" => ~x.due

\* What a request has seen of its secret includes what the secret is now, and
\* its record is one of what it has seen.
SeenInv(x) ==
    /\ x.kind \in RouteKinds => x.name \in Secrets
    /\ x.kind \in RouteKinds /\ x.pc \in Served => x.seen # {}
    /\ x.pc \notin Served \cup {"credential"} => x.seen = {}
    /\ x.seen # {} =>
         /\ x.name \in Secrets /\ Vault(x.name) \in x.seen
         /\ grants # Nothing /\ x.name \in grants => x.granted
    /\ x.pc = "secret" /\ x.seen # {} /\ x.name \in x.snapshot => x.granted
    /\ x.kind \in RouteKinds /\ x.pc \in Served \ {"project", "secret"}
         => x.granted /\ x.rec \in x.seen \ {Nothing}

\* As long as no grant and no secret has changed since the CONNECT, what its two
\* lookups found is what there is.
LookupInv(x) ==
    ~x.changed =>
        /\ x.kind = "intercepted" => Vault(x.name) # Nothing /\ Vault(x.name).upstream = x.to
        /\ x.kind = "intercepted" /\ x.pc \in {"moment", "limit", "forward", "proxy"}
             => x.rec = Vault(x.name)
        /\ x.kind = "raw" /\ x.pc = "allow"
             => \A s \in interceptRoutes(x.snapshot) : Vault(s).upstream # x.to
        /\ x.kind = "raw" /\ x.pc \in {"dial", "acknowledge", "splice"} => x.to \in Egress

RequestInv(x) == KindInv(x) /\ EntriesInv(x) /\ SeenInv(x) /\ LookupInv(x)

RequestsInv == RequestTypes /\ \A c \in Connections : RequestInv(conn[c])

\* The entries and the kinds of a request depend on nothing but the request;
\* what it has seen and looked up depends on the grants and the open vault.
LEMMA ConnKeeps ==
    ASSUME RequestsInv, NEW c \in Connections, NEW after \in Conn,
           conn' = [conn EXCEPT ![c] = after], RequestInv(after),
           UNCHANGED <<grants, unlocked, secrets, clock>>
    PROVE  RequestsInv'
<1>1. /\ conn' \in [Connections -> Conn] /\ conn'[c] = after
      /\ \A o \in Connections \ {c} : conn'[o] = conn[o]
  BY DEF RequestsInv, RequestTypes
<1>2. RequestTypes'
  BY <1>1 DEF RequestsInv, RequestTypes
<1>3. ASSUME NEW o \in Connections PROVE RequestInv(conn[o])'
  <2>1. RequestInv(conn'[o])
    BY <1>1 DEF RequestsInv
  <2>2. KindInv(conn[o])' /\ EntriesInv(conn[o])'
    BY <2>1 DEF RequestInv, KindInv, EntriesInv
  <2>3. SeenInv(conn[o])'
    BY <2>1 DEF RequestInv, SeenInv, Vault
  <2>4. LookupInv(conn[o])'
    BY <2>1 DEF RequestInv, LookupInv, Vault, interceptRoutes
  <2>5. QED
    BY <2>2, <2>3, <2>4 DEF RequestInv
<1>4. QED
  BY <1>2, <1>3 DEF RequestsInv

LEMMA NoConnFields ==
    /\ NoConn \in Conn /\ NoConn.pc = "idle" /\ NoConn.kind = "raw" /\ NoConn.to = Nothing
    /\ NoConn.name = Nothing /\ NoConn.snapshot = {} /\ NoConn.rec = Nothing
    /\ NoConn.moment = 0 /\ ~NoConn.once /\ ~NoConn.tunnel /\ NoConn.entries = 0
    /\ ~NoConn.due /\ NoConn.seen = {} /\ ~NoConn.granted /\ ~NoConn.changed
BY RequestsBounds DEF NoConn, Conn

LEMMA NoConnInv == RequestInv(NoConn)
BY NoConnFields DEF RequestInv, KindInv, EntriesInv, SeenInv, LookupInv, RouteKinds, Served

\* What an ended request leaves: an entry when it must, and its tunnel.
LEMMA EndsKeeps ==
    ASSUME RequestsInv, NEW c \in Connections, NEW entries \in {0, 1}, EndsWith(c, entries),
           entries = 1 \/ ~conn[c].due, UNCHANGED <<grants, unlocked, secrets, clock>>
    PROVE  RequestsInv'
<1> DEFINE name == IF conn[c].kind = "sign" THEN Nothing ELSE conn[c].name
<1>1. conn[c] \in Conn /\ RequestInv(conn[c])
  BY DEF RequestsInv, RequestTypes
<1>2. PICK end \in Conn :
        /\ end = [NoConn EXCEPT !.pc = "ended", !.entries = entries, !.due = conn[c].due]
        /\ end.pc = "ended" /\ end.entries = entries /\ end.due = conn[c].due
        /\ end.once = FALSE /\ end.tunnel = FALSE /\ end.kind = "raw" /\ end.seen = {}
        /\ end.name = Nothing
  <2> DEFINE x == [NoConn EXCEPT !.pc = "ended", !.entries = entries, !.due = conn[c].due]
  <2>1. entries \in 0..2
    OBVIOUS
  <2>2. /\ x \in Conn /\ x.pc = "ended" /\ x.entries = entries /\ x.due = conn[c].due
        /\ x.once = FALSE /\ x.tunnel = FALSE /\ x.kind = "raw" /\ x.seen = {}
        /\ x.name = Nothing
    BY <1>1, <2>1, NoConnFields DEF Conn
  <2>3. QED
    BY <2>2
<1>3. PICK kind \in {"raw", "uri", "named", "intercepted", "sign", "inmate"},
           to \in Destinations \cup {Nothing}, changed \in BOOLEAN,
           left \in Secrets \cup {Nothing} :
        /\ conn[c].kind = kind /\ conn[c].to = to /\ conn[c].changed = changed
        /\ name = left /\ (kind # "sign" => left = conn[c].name)
  BY <1>1 DEF Conn
<1>4. PICK tunnel : tunnel = [end EXCEPT !.tunnel = TRUE, !.kind = kind, !.to = to,
                                         !.changed = changed, !.name = left]
  OBVIOUS
<1>5. conn' = [conn EXCEPT ![c] = IF conn[c].tunnel THEN tunnel ELSE end]
  BY ZenonT(60), <1>2, <1>3, <1>4 DEF EndsWith
<1> HIDE DEF name
<1>6. /\ tunnel \in Conn /\ tunnel.kind = kind /\ tunnel.to = to
      /\ tunnel.changed = changed /\ tunnel.name = left /\ tunnel.pc = end.pc
      /\ tunnel.entries = end.entries /\ tunnel.due = end.due /\ tunnel.once = end.once
      /\ tunnel.seen = end.seen
  <2>1. tunnel \in Conn
    BY ONLY <1>4, ZenonT(60) DEF Conn
  <2>2. /\ tunnel.kind = kind /\ tunnel.to = to /\ tunnel.changed = changed
        /\ tunnel.name = left /\ tunnel.pc = end.pc /\ tunnel.entries = end.entries
        /\ tunnel.due = end.due /\ tunnel.once = end.once /\ tunnel.seen = end.seen
    BY ONLY <1>4 DEF Conn
  <2>3. QED
    BY <2>1, <2>2
<1>7. CASE conn[c].tunnel
  <2>1. RequestInv(tunnel)
    BY <1>1, <1>2, <1>3, <1>6, <1>7
       DEF RequestInv, KindInv, EntriesInv, SeenInv, LookupInv, RouteKinds, Served
  <2>2. conn' = [conn EXCEPT ![c] = tunnel]
    BY <1>5, <1>7
  <2>3. QED
    BY <1>6, <2>1, <2>2, ConnKeeps
<1>8. CASE ~conn[c].tunnel
  <2>1. RequestInv(end)
    BY <1>2 DEF RequestInv, KindInv, EntriesInv, SeenInv, LookupInv, RouteKinds, Served
  <2>2. conn' = [conn EXCEPT ![c] = end]
    BY <1>5, <1>8
  <2>3. QED
    BY <1>2, <2>1, <2>2, ConnKeeps
<1>9. QED
  BY <1>7, <1>8

\* A request that is logged as it ends has no entry yet.
LEMMA LogsKeeps ==
    ASSUME RequestsInv, NEW c \in Connections, conn[c].pc \notin {"upgrade", "ended"}, Logs(c),
           UNCHANGED <<grants, unlocked, secrets, clock>>
    PROVE  RequestsInv'
<1>1. conn[c].entries + 1 = 1
  BY DEF RequestsInv, RequestInv, EntriesInv
<1>2. EndsWith(c, 1)
  BY <1>1 DEF Logs
<1>3. QED
  BY <1>2, EndsKeeps

\* One without an entry is one that need not leave any.
LEMMA EndsUnloggedKeeps ==
    ASSUME RequestsInv, NEW c \in Connections, conn[c].pc \in {"idle", "project", "upgrade"},
           EndsUnlogged(c), UNCHANGED <<grants, unlocked, secrets, clock>>
    PROVE  RequestsInv'
<1>1. conn[c].entries \in {0, 1} /\ (conn[c].entries = 1 \/ ~conn[c].due)
  BY DEF RequestsInv, RequestInv, EntriesInv
<1>2. EndsWith(c, conn[c].entries)
  BY DEF EndsUnlogged
<1>3. QED
  BY <1>1, <1>2, EndsKeeps

\* A connection that only goes on to its next phase.
LEMMA GoesKeeps ==
    ASSUME RequestsInv, NEW c \in Connections,
           NEW after \in {"allow", "acknowledge", "proxy", "body"},
           Goes(c, after), UNCHANGED <<grants, unlocked, secrets, clock>>,
           \A x \in Conn :
             /\ x.pc = after /\ x.kind = conn[c].kind /\ x.to = conn[c].to
             /\ x.name = conn[c].name /\ x.snapshot = conn[c].snapshot /\ x.rec = conn[c].rec
             /\ x.once = conn[c].once /\ x.tunnel = conn[c].tunnel
             /\ x.entries = conn[c].entries /\ x.due = conn[c].due /\ x.seen = conn[c].seen
             /\ x.granted = conn[c].granted /\ x.changed = conn[c].changed
             => RequestInv(x)
    PROVE  RequestsInv'
<1> DEFINE x == [conn[c] EXCEPT !.pc = after]
<1>1. conn[c] \in Conn
  BY DEF RequestsInv, RequestTypes
<1>2. /\ x \in Conn
      /\ x.pc = after /\ x.kind = conn[c].kind /\ x.to = conn[c].to
      /\ x.name = conn[c].name /\ x.snapshot = conn[c].snapshot /\ x.rec = conn[c].rec
      /\ x.once = conn[c].once /\ x.tunnel = conn[c].tunnel
      /\ x.entries = conn[c].entries /\ x.due = conn[c].due /\ x.seen = conn[c].seen
      /\ x.granted = conn[c].granted /\ x.changed = conn[c].changed
  BY <1>1 DEF Conn
<1>3. conn' = [conn EXCEPT ![c] = x]
  BY DEF Goes, RequestsInv, RequestTypes
<1> HIDE DEF x
<1>4. QED
  BY <1>2, <1>3, ConnKeeps

\* A request of a tunnel, or one with the absolute URI of a name in the zone,
\* has seen the record and the grant that are there when it begins.
LEMMA AsksKeeps ==
    ASSUME RequestsInv, NEW c \in Connections, NEW s \in Secrets \cup {Nothing},
           NEW request \in Conn, Asks(c, s, request),
           UNCHANGED <<grants, unlocked, secrets, clock>>,
           request.entries = 0, request.once = FALSE, request.due = FALSE,
           request.kind \in {"named", "intercepted", "sign", "inmate"},
           request.kind \in RouteKinds => s # Nothing,
           request.kind = "intercepted" => s = request.name /\ LookupInv(request)
    PROVE  RequestsInv'
<1>1. Vault(s) \in Records \cup {Nothing} \/ s = Nothing
  BY DEF Vault, RequestsInv, RequestTypes
<1>2. PICK seen \in SUBSET (Records \cup {Nothing}) :
        seen = IF s = Nothing THEN {} ELSE {Vault(s)}
  BY <1>1
<1>3. PICK granted \in BOOLEAN : granted = (grants # Nothing /\ s \in grants)
  OBVIOUS
<1>4. PICK after : after = [request EXCEPT !.pc = "project", !.name = s, !.seen = seen,
                                         !.granted = granted]
  OBVIOUS
<1>5. conn' = [conn EXCEPT ![c] = after]
  BY <1>2, <1>3, <1>4 DEF Asks
<1>6. after \in Conn
  BY ONLY <1>4, Zenon DEF Conn
<1>7. /\ after.pc = "project" /\ after.name = s /\ after.seen = seen /\ after.granted = granted
      /\ after.entries = request.entries /\ after.once = request.once
      /\ after.due = request.due /\ after.kind = request.kind /\ after.to = request.to
      /\ after.changed = request.changed
  BY ONLY <1>4 DEF Conn
<1>8. KindInv(after) /\ EntriesInv(after)
  BY <1>7 DEF KindInv, EntriesInv
<1>9. SeenInv(after)
  BY <1>2, <1>3, <1>7, RequestsRecords DEF SeenInv, RouteKinds, Served
<1>10. LookupInv(after)
  BY <1>7 DEF LookupInv
<1>11. QED
  BY <1>5, <1>6, <1>8, <1>9, <1>10, ConnKeeps DEF RequestInv

LEMMA IdleIsNew ==
    ASSUME RequestsInv, NEW c \in Connections, Doing(c, "idle")
    PROVE  conn[c] = NoConn
BY DEF Doing, RequestsInv, RequestInv, KindInv

LEMMA RefuseKeeps ==
    ASSUME RequestsInv, NEW c \in Connections, Refuse(c)
    PROVE  RequestsInv'
BY LogsKeeps DEF Refuse, Doing, OnlyConn

LEMMA ConnectKeeps ==
    ASSUME RequestsInv, NEW c \in Connections, Connect(c)
    PROVE  RequestsInv'
<1>0. UNCHANGED <<grants, unlocked, secrets, clock>> /\ grants \in SUBSET Secrets
  BY DEF Connect, OnlyConn, RequestsInv, RequestTypes
<1>1. PICK new \in Conn : new = conn[c] /\ new = NoConn
  <2>1. Doing(c, "idle")
    BY DEF Connect
  <2>2. conn[c] = NoConn /\ NoConn \in Conn
    BY <2>1, IdleIsNew, NoConnFields
  <2>3. QED
    BY <2>2
<1>2. CASE Logs(c)
  BY <1>0, <1>1, <1>2, LogsKeeps, NoConnFields
<1>3. ASSUME NEW d \in Destinations,
             conn' = [conn EXCEPT ![c].kind = "raw", ![c].to = d, ![c].snapshot = grants,
                                  ![c].pc = "intercept"]
      PROVE  RequestsInv'
  <2>1. PICK granted \in SUBSET Secrets : granted = grants
    BY <1>0
  <2>2. PICK after : after = [new EXCEPT !.kind = "raw", !.to = d, !.snapshot = granted,
                                          !.pc = "intercept"]
    OBVIOUS
  <2>3. conn' = [conn EXCEPT ![c] = after]
    BY <1>1, <1>3, <2>1, <2>2 DEF RequestsInv, RequestTypes
  <2>4. /\ after \in Conn /\ after.kind = "raw" /\ after.pc = "intercept" /\ after.entries = 0
        /\ after.once = FALSE /\ after.due = FALSE /\ after.tunnel = FALSE /\ after.seen = {}
    <3>1. after \in Conn
      BY ONLY <2>2, Zenon DEF Conn
    <3>2. /\ after.kind = "raw" /\ after.pc = "intercept" /\ after.entries = new.entries
          /\ after.once = new.once /\ after.due = new.due /\ after.tunnel = new.tunnel
          /\ after.seen = new.seen
      BY ONLY <2>2 DEF Conn
    <3>3. QED
      BY <1>1, <3>1, <3>2, NoConnFields
  <2>5. RequestInv(after)
    BY <2>4 DEF RequestInv, KindInv, EntriesInv, SeenInv, LookupInv, RouteKinds, Served
  <2>6. QED
    BY <1>0, <2>3, <2>4, <2>5, ConnKeeps
<1>4. ASSUME NEW kind \in ZoneKinds, NEW s \in Secrets,
             conn' = [conn EXCEPT ![c].kind = kind, ![c].pc = "acknowledge",
                                  ![c].name = IF kind = "named" THEN s ELSE Nothing]
      PROVE  RequestsInv'
  <2>1. PICK name \in Secrets \cup {Nothing} : name = IF kind = "named" THEN s ELSE Nothing
    OBVIOUS
  <2>2. PICK after : after = [new EXCEPT !.kind = kind, !.pc = "acknowledge", !.name = name]
    OBVIOUS
  <2>3. conn' = [conn EXCEPT ![c] = after]
    BY <1>1, <1>4, <2>1, <2>2 DEF RequestsInv, RequestTypes
  <2>4. /\ after \in Conn /\ after.kind = kind /\ after.pc = "acknowledge" /\ after.entries = 0
        /\ after.once = FALSE /\ after.due = FALSE /\ after.tunnel = FALSE /\ after.seen = {}
        /\ after.name = name
    <3>1. after \in Conn
      BY ONLY <2>2, Zenon DEF Conn, ZoneKinds
    <3>2. /\ after.kind = kind /\ after.pc = "acknowledge" /\ after.entries = new.entries
          /\ after.once = new.once /\ after.due = new.due /\ after.tunnel = new.tunnel
          /\ after.seen = new.seen /\ after.name = name
      BY ONLY <2>2 DEF Conn
    <3>3. QED
      BY <1>1, <3>1, <3>2, NoConnFields
  <2>5. RequestInv(after)
    BY <2>1, <2>4
       DEF RequestInv, KindInv, EntriesInv, SeenInv, LookupInv, RouteKinds, Served, ZoneKinds
  <2>6. QED
    BY <1>0, <2>3, <2>4, <2>5, ConnKeeps
<1>5. QED
  BY <1>2, <1>3, <1>4 DEF Connect

LEMMA AbsoluteURIKeeps ==
    ASSUME RequestsInv, NEW c \in Connections, AbsoluteURI(c)
    PROVE  RequestsInv'
<1>0. UNCHANGED <<grants, unlocked, secrets, clock>> /\ grants \in SUBSET Secrets
  BY DEF AbsoluteURI, OnlyConn, RequestsInv, RequestTypes
<1>1. PICK new \in Conn : new = conn[c] /\ new = NoConn
  <2>1. Doing(c, "idle")
    BY DEF AbsoluteURI
  <2>2. conn[c] = NoConn /\ NoConn \in Conn
    BY <2>1, IdleIsNew, NoConnFields
  <2>3. QED
    BY <2>2
<1>2. CASE EndsUnlogged(c)
  BY <1>0, <1>1, <1>2, EndsUnloggedKeeps, NoConnFields
<1>3. ASSUME NEW d \in Destinations,
             conn' = [conn EXCEPT ![c].kind = "uri", ![c].to = d, ![c].snapshot = grants,
                                  ![c].pc = "allow"]
      PROVE  RequestsInv'
  <2>1. PICK granted \in SUBSET Secrets : granted = grants
    BY <1>0
  <2>2. PICK after : after = [new EXCEPT !.kind = "uri", !.to = d, !.snapshot = granted,
                                       !.pc = "allow"]
    OBVIOUS
  <2>3. conn' = [conn EXCEPT ![c] = after]
    BY <1>1, <1>3, <2>1, <2>2 DEF RequestsInv, RequestTypes
  <2>4. /\ after \in Conn /\ after.kind = "uri" /\ after.pc = "allow" /\ after.entries = 0
        /\ after.once = FALSE /\ after.due = FALSE /\ after.tunnel = FALSE /\ after.seen = {}
    <3>1. after \in Conn
      BY ONLY <2>2, Zenon DEF Conn
    <3>2. /\ after.kind = "uri" /\ after.pc = "allow" /\ after.entries = new.entries
          /\ after.once = new.once /\ after.due = new.due /\ after.tunnel = new.tunnel
          /\ after.seen = new.seen
      BY ONLY <2>2 DEF Conn
    <3>3. QED
      BY <1>1, <3>1, <3>2, NoConnFields
  <2>5. RequestInv(after)
    BY <2>4 DEF RequestInv, KindInv, EntriesInv, SeenInv, LookupInv, RouteKinds, Served
  <2>6. QED
    BY <1>0, <2>3, <2>4, <2>5, ConnKeeps
<1>4. ASSUME NEW kind \in ZoneKinds, NEW s \in Secrets,
             Asks(c, IF kind = "inmate" THEN Nothing ELSE s, [conn[c] EXCEPT !.kind = kind])
      PROVE  RequestsInv'
  <2>1. PICK name \in Secrets \cup {Nothing} : name = IF kind = "inmate" THEN Nothing ELSE s
    OBVIOUS
  <2>2. PICK request : request = [new EXCEPT !.kind = kind]
    OBVIOUS
  <2>3. /\ request \in Conn /\ request.kind = kind /\ request.entries = 0
        /\ request.once = FALSE /\ request.due = FALSE
    BY <1>1, <2>2, NoConnFields DEF Conn, ZoneKinds
  <2>4. Asks(c, name, request)
    BY <1>1, <1>4, <2>1, <2>2
  <2>5. /\ request.kind \in {"named", "intercepted", "sign", "inmate"}
        /\ request.kind # "intercepted" /\ (request.kind \in RouteKinds => name # Nothing)
    BY <2>1, <2>3, RequestsRecords DEF ZoneKinds, RouteKinds
  <2>6. QED
    BY <1>0, <2>3, <2>4, <2>5, AsksKeeps
<1>5. QED
  BY <1>2, <1>3, <1>4 DEF AbsoluteURI

\* The lookup of interceptRouteFor: what it finds is there, and what it does not
\* find is not.
LEMMA InterceptKeeps ==
    ASSUME RequestsInv, NEW c \in Connections, Intercept(c)
    PROVE  RequestsInv'
<1>0. /\ UNCHANGED <<grants, unlocked, secrets, clock>> /\ conn[c].pc = "intercept"
      /\ conn[c] \in Conn /\ conn[c].snapshot \subseteq Secrets
  BY DEF Intercept, OnlyConn, Doing, RequestsInv, RequestTypes, Conn
<1>1. RequestInv(conn[c])
  BY DEF RequestsInv
<1>2. CASE Logs(c)
  BY <1>0, <1>2, LogsKeeps
<1>3. ASSUME Goes(c, "allow"),
             \A s \in interceptRoutes(conn[c].snapshot) : Vault(s).upstream # conn[c].to
      PROVE  RequestsInv'
  <2>1. SUFFICES ASSUME NEW x \in Conn, x.pc = "allow", x.kind = conn[c].kind,
                        x.to = conn[c].to, x.name = conn[c].name,
                        x.snapshot = conn[c].snapshot, x.once = conn[c].once,
                        x.tunnel = conn[c].tunnel, x.entries = conn[c].entries,
                        x.due = conn[c].due, x.seen = conn[c].seen,
                        x.granted = conn[c].granted, x.changed = conn[c].changed
                 PROVE  RequestInv(x)
    BY <1>0, <1>3, GoesKeeps
  <2>2. KindInv(x) /\ EntriesInv(x)
    BY <1>0, <1>1, <2>1 DEF RequestInv, KindInv, EntriesInv
  <2>3. SeenInv(x)
    BY <1>0, <1>1, <2>1 DEF RequestInv, KindInv, SeenInv, RouteKinds, Served
  <2>4. LookupInv(x)
    BY <1>0, <1>1, <1>3, <2>1 DEF RequestInv, KindInv, LookupInv
  <2>5. QED
    BY <2>2, <2>3, <2>4 DEF RequestInv
<1>4. ASSUME NEW s \in interceptRoutes(conn[c].snapshot), Vault(s).upstream = conn[c].to,
             conn' = [conn EXCEPT ![c].kind = "intercepted", ![c].name = s,
                                  ![c].pc = "acknowledge", ![c].snapshot = {}]
      PROVE  RequestsInv'
  <2>1. s \in Secrets /\ Vault(s) # Nothing
    BY <1>0, <1>4 DEF interceptRoutes
  <2>2. PICK old \in Conn, name \in Secrets : old = conn[c] /\ name = s
    BY <1>0, <2>1
  <2>3. PICK after : after = [old EXCEPT !.kind = "intercepted", !.name = name,
                                       !.pc = "acknowledge", !.snapshot = {}]
    OBVIOUS
  <2>4. conn' = [conn EXCEPT ![c] = after]
    BY <1>4, <2>2, <2>3 DEF RequestsInv, RequestTypes
  <2>5. after \in Conn
    BY ONLY <2>3, Zenon DEF Conn
  <2>6. /\ after.kind = "intercepted" /\ after.pc = "acknowledge" /\ after.name = name
        /\ after.to = old.to /\ after.entries = old.entries /\ after.once = old.once
        /\ after.due = old.due /\ after.tunnel = old.tunnel /\ after.seen = old.seen
        /\ after.granted = old.granted /\ after.changed = old.changed
    BY ONLY <2>3 DEF Conn
  <2>7. KindInv(after) /\ EntriesInv(after)
    BY <1>0, <1>1, <2>2, <2>6 DEF RequestInv, KindInv, EntriesInv
  <2>8. SeenInv(after)
    BY <1>0, <1>1, <2>1, <2>2, <2>6 DEF RequestInv, KindInv, SeenInv, RouteKinds, Served
  <2>9. LookupInv(after)
    BY <1>4, <2>1, <2>2, <2>6 DEF LookupInv
  <2>10. QED
    BY <1>0, <2>4, <2>5, <2>7, <2>8, <2>9, ConnKeeps DEF RequestInv
<1>5. QED
  BY <1>2, <1>3, <1>4 DEF Intercept

\* The second lookup, of allowListFor: when nothing has changed since the first,
\* the destination is not the upstream of a route that intercepts.
LEMMA AllowKeeps ==
    ASSUME RequestsInv, NEW c \in Connections, Allow(c)
    PROVE  RequestsInv'
<1>0. /\ UNCHANGED <<grants, unlocked, secrets, clock>> /\ conn[c].pc = "allow"
      /\ conn[c] \in Conn
  BY DEF Allow, OnlyConn, Doing, RequestsInv, RequestTypes
<1>1. RequestInv(conn[c])
  BY DEF RequestsInv
<1> DEFINE listed == Egress \cup {Vault(s).upstream : s \in interceptRoutes(conn[c].snapshot)}
<1>2. CASE conn[c].to \notin listed
  <2>1. Logs(c)
    BY <1>2 DEF Allow
  <2>2. QED
    BY <1>0, <2>1, LogsKeeps
<1>3. CASE conn[c].to \in listed
  <2>1. conn' = [conn EXCEPT ![c].pc = IF conn[c].kind = "raw" THEN "dial" ELSE "proxy",
                             ![c].due = TRUE]
    BY <1>3 DEF Allow
  <2>2. PICK old \in Conn, pc \in {"dial", "proxy"} :
          old = conn[c] /\ pc = IF conn[c].kind = "raw" THEN "dial" ELSE "proxy"
    BY <1>0
  <2>3. PICK after : after = [old EXCEPT !.pc = pc, !.due = TRUE]
    OBVIOUS
  <2>4. conn' = [conn EXCEPT ![c] = after]
    BY <2>1, <2>2, <2>3 DEF RequestsInv, RequestTypes
  <2>5. after \in Conn
    BY ONLY <2>3, Zenon DEF Conn
  <2>6. /\ after.pc = pc /\ after.kind = old.kind /\ after.to = old.to /\ after.name = old.name
        /\ after.entries = old.entries /\ after.once = old.once /\ after.tunnel = old.tunnel
        /\ after.seen = old.seen /\ after.changed = old.changed
    BY ONLY <2>3 DEF Conn
  <2>7. KindInv(after) /\ EntriesInv(after)
    BY <1>0, <1>1, <2>2, <2>6 DEF RequestInv, KindInv, EntriesInv
  <2>8. SeenInv(after)
    BY <1>0, <1>1, <2>2, <2>6 DEF RequestInv, KindInv, SeenInv, RouteKinds, Served
  <2>9. LookupInv(after)
    <3>1. conn[c].kind = "raw" /\ ~conn[c].changed => conn[c].to \in Egress
      BY <1>0, <1>1, <1>3 DEF RequestInv, LookupInv
    <3>2. QED
      BY <1>0, <1>1, <2>2, <2>6, <3>1 DEF RequestInv, KindInv, LookupInv
  <2>10. QED
    BY <1>0, <2>4, <2>5, <2>7, <2>8, <2>9, ConnKeeps DEF RequestInv
<1>4. QED
  BY <1>2, <1>3

LEMMA DialKeeps ==
    ASSUME RequestsInv, NEW c \in Connections, Dial(c)
    PROVE  RequestsInv'
<1>0. UNCHANGED <<grants, unlocked, secrets, clock>> /\ conn[c].pc = "dial"
  BY DEF Dial, OnlyConn, Doing
<1>1. RequestInv(conn[c])
  BY DEF RequestsInv
<1>2. CASE Logs(c)
  BY <1>0, <1>2, LogsKeeps
<1>3. CASE Goes(c, "acknowledge")
  <2>1. SUFFICES ASSUME NEW x \in Conn, x.pc = "acknowledge", x.kind = conn[c].kind,
                        x.to = conn[c].to, x.name = conn[c].name,
                        x.snapshot = conn[c].snapshot, x.once = conn[c].once,
                        x.tunnel = conn[c].tunnel, x.entries = conn[c].entries,
                        x.due = conn[c].due, x.seen = conn[c].seen,
                        x.granted = conn[c].granted, x.changed = conn[c].changed
                 PROVE  RequestInv(x)
    BY <1>0, <1>3, GoesKeeps
  <2>2. QED
    BY <1>0, <1>1, <2>1
       DEF RequestInv, KindInv, EntriesInv, SeenInv, LookupInv, RouteKinds, Served
<1>4. QED
  BY <1>2, <1>3 DEF Dial

LEMMA AcknowledgeKeeps ==
    ASSUME RequestsInv, NEW c \in Connections, Acknowledge(c)
    PROVE  RequestsInv'
<1>0. /\ UNCHANGED <<grants, unlocked, secrets, clock>> /\ conn[c].pc = "acknowledge"
      /\ conn[c] \in Conn
  BY DEF Acknowledge, OnlyConn, Doing, RequestsInv, RequestTypes
<1>1. RequestInv(conn[c])
  BY DEF RequestsInv
<1>2. CASE conn' = [conn EXCEPT ![c] = [NoConn EXCEPT !.pc = "ended"]]
  <2> DEFINE after == [NoConn EXCEPT !.pc = "ended"]
  <2>1. /\ after \in Conn /\ after.pc = "ended" /\ after.kind = "raw" /\ after.entries = 0
        /\ after.once = FALSE /\ after.due = FALSE /\ after.tunnel = FALSE /\ after.seen = {}
    BY NoConnFields DEF Conn
  <2> HIDE DEF after
  <2>2. RequestInv(after)
    BY <2>1 DEF RequestInv, KindInv, EntriesInv, SeenInv, LookupInv, RouteKinds, Served
  <2>3. QED
    BY <1>0, <1>2, <2>1, <2>2, ConnKeeps DEF after
<1>3. CASE conn' = [conn EXCEPT ![c].pc = IF ToHandler(c) THEN "tunnel" ELSE "splice",
                                ![c].tunnel = ToHandler(c), ![c].snapshot = {}]
  <2>1. PICK old \in Conn, pc \in {"tunnel", "splice"}, tunnel \in BOOLEAN :
          /\ old = conn[c] /\ pc = (IF ToHandler(c) THEN "tunnel" ELSE "splice")
          /\ tunnel = ToHandler(c)
    <3>1. CASE ToHandler(c)
      BY <1>0, <3>1
    <3>2. CASE ~ToHandler(c)
      <4>1. ToHandler(c) = FALSE
        BY <3>2 DEF ToHandler
      <4>2. QED
        BY <1>0, <4>1
    <3>3. QED
      BY <3>1, <3>2
  <2>2. PICK after : after = [old EXCEPT !.pc = pc, !.tunnel = tunnel, !.snapshot = {}]
    OBVIOUS
  <2>3. conn' = [conn EXCEPT ![c] = after]
    BY <1>3, <2>1, <2>2 DEF RequestsInv, RequestTypes
  <2>4. after \in Conn
    BY ONLY <2>2, Zenon DEF Conn
  <2>5. /\ after.pc = pc /\ after.tunnel = tunnel /\ after.kind = old.kind /\ after.to = old.to
        /\ after.name = old.name /\ after.entries = old.entries /\ after.once = old.once
        /\ after.due = old.due /\ after.seen = old.seen /\ after.changed = old.changed
    BY ONLY <2>2 DEF Conn
  <2>6. /\ pc = "tunnel" => tunnel /\ old.kind \in {"named", "sign", "inmate", "intercepted"}
        /\ pc = "splice" => ~tunnel /\ old.kind \in {"raw", "uri"}
    BY <1>0, <2>1 DEF ToHandler, ZoneKinds, Conn
  <2>7. old.kind # "uri"
    BY <1>0, <1>1, <2>1 DEF RequestInv, KindInv
  <2>8. KindInv(after) /\ EntriesInv(after)
    BY <1>0, <1>1, <2>1, <2>5, <2>6, <2>7 DEF RequestInv, KindInv, EntriesInv
  <2>9. SeenInv(after) /\ LookupInv(after)
    BY <1>0, <1>1, <2>1, <2>5, <2>6
       DEF RequestInv, KindInv, SeenInv, LookupInv, RouteKinds, Served
  <2>10. QED
    BY <1>0, <2>3, <2>4, <2>8, <2>9, ConnKeeps DEF RequestInv
<1>4. QED
  BY <1>2, <1>3 DEF Acknowledge

LEMMA TunnelEndsKeep ==
    ASSUME RequestsInv, NEW c \in Connections, Splice(c) \/ RefusedByTunnel(c)
    PROVE  RequestsInv'
<1>1. CASE Splice(c)
  BY <1>1, LogsKeeps DEF Splice, Doing, OnlyConn
<1>2. CASE RefusedByTunnel(c)
  BY <1>2, EndsUnloggedKeeps DEF RefusedByTunnel, Doing, OnlyConn
<1>3. QED
  BY <1>1, <1>2

LEMMA AskKeeps ==
    ASSUME RequestsInv, NEW c \in Connections, Ask(c)
    PROVE  RequestsInv'
<1>0. /\ UNCHANGED <<grants, unlocked, secrets, clock>> /\ conn[c].pc = "tunnel"
      /\ conn[c] \in Conn
  BY DEF Ask, OnlyConn, Doing, RequestsInv, RequestTypes
<1>1. RequestInv(conn[c])
  BY DEF RequestsInv
<1>2. PICK s \in IF conn[c].kind = "sign" THEN Secrets ELSE {conn[c].name} : Asks(c, s, conn[c])
  BY DEF Ask
<1>3. PICK old \in Conn : old = conn[c]
  BY <1>0
<1>4. /\ s \in Secrets \cup {Nothing} /\ (old.kind # "sign" => s = old.name)
      /\ old.kind \in {"raw", "uri", "named", "intercepted", "sign", "inmate"}
  BY <1>2, <1>3 DEF Conn
<1>5. /\ old.entries = 0 /\ old.once = FALSE /\ old.due = FALSE
      /\ old.kind \notin {"raw", "uri"}
  BY <1>0, <1>1, <1>3 DEF RequestInv, KindInv, EntriesInv, Conn
<1>6. /\ old.kind \in RouteKinds => s # Nothing
      /\ old.kind = "intercepted" => s = old.name
  BY <1>1, <1>3, <1>4, RequestsRecords DEF RequestInv, SeenInv, RouteKinds
<1>7. LookupInv(old)
  BY <1>1, <1>3 DEF RequestInv
<1>8. QED
  BY <1>0, <1>2, <1>3, <1>4, <1>5, <1>6, <1>7, AsksKeeps

\* From FindProject on the request must leave an entry, and knows the grants.
LEMMA FindProjectKeeps ==
    ASSUME RequestsInv, NEW c \in Connections, FindProject(c)
    PROVE  RequestsInv'
<1>0. /\ UNCHANGED <<grants, unlocked, secrets, clock>> /\ conn[c].pc = "project"
      /\ conn[c] \in Conn
  BY DEF FindProject, OnlyConn, Doing, RequestsInv, RequestTypes
<1>1. RequestInv(conn[c])
  BY DEF RequestsInv
<1>2. CASE grants = Nothing
  BY <1>0, <1>2, LogsKeeps, EndsUnloggedKeeps DEF FindProject
<1>3. CASE grants # Nothing
  <2>1. conn' = [conn EXCEPT ![c].due = TRUE, ![c].snapshot = grants,
                   ![c].pc = IF conn[c].kind = "inmate" THEN "credential" ELSE "secret"]
    BY <1>3 DEF FindProject
  <2>2. grants \in SUBSET Secrets
    BY <1>3 DEF RequestsInv, RequestTypes
  <2>3. PICK old \in Conn, granted \in SUBSET Secrets, pc \in {"credential", "secret"} :
          /\ old = conn[c] /\ granted = grants
          /\ pc = IF conn[c].kind = "inmate" THEN "credential" ELSE "secret"
    BY <1>0, <2>2
  <2>4. PICK after : after = [old EXCEPT !.due = TRUE, !.snapshot = granted, !.pc = pc]
    OBVIOUS
  <2>5. conn' = [conn EXCEPT ![c] = after]
    BY <2>1, <2>3, <2>4 DEF RequestsInv, RequestTypes
  <2>6. after \in Conn
    BY ONLY <2>4, Zenon DEF Conn
  <2>7. /\ after.pc = pc /\ after.snapshot = granted /\ after.kind = old.kind /\ after.to = old.to
        /\ after.name = old.name /\ after.entries = old.entries /\ after.once = old.once
        /\ after.tunnel = old.tunnel /\ after.seen = old.seen /\ after.changed = old.changed
        /\ after.granted = old.granted
    BY ONLY <2>4 DEF Conn
  <2>8. KindInv(after) /\ EntriesInv(after)
    BY <1>0, <1>1, <2>3, <2>7 DEF RequestInv, KindInv, EntriesInv
  <2>9. SeenInv(after)
    BY <1>0, <1>1, <1>3, <2>3, <2>7 DEF RequestInv, KindInv, SeenInv, RouteKinds, Served
  <2>10. LookupInv(after)
    BY <1>0, <1>1, <2>3, <2>7 DEF RequestInv, LookupInv
  <2>11. QED
    BY <1>0, <2>5, <2>6, <2>8, <2>9, <2>10, ConnKeeps DEF RequestInv
<1>4. QED
  BY <1>2, <1>3

\* grantedSecret takes the record that the vault holds now, of a secret that the
\* project had during the request.
LEMMA SecretKeeps ==
    ASSUME RequestsInv, NEW c \in Connections, Secret(c)
    PROVE  RequestsInv'
<1>0. /\ UNCHANGED <<grants, unlocked, secrets, clock>> /\ conn[c].pc = "secret"
      /\ conn[c] \in Conn /\ conn[c].snapshot \subseteq Secrets
  BY DEF Secret, OnlyConn, Doing, RequestsInv, RequestTypes, Conn
<1>1. RequestInv(conn[c])
  BY DEF RequestsInv
<1> DEFINE s == conn[c].name
           found == IF s \in conn[c].snapshot THEN Vault(s) ELSE Nothing
<1>2. CASE Logs(c)
  BY <1>0, <1>2, LogsKeeps
<1>3. ASSUME found # Nothing,
             conn' = [conn EXCEPT ![c].rec = found, ![c].snapshot = {},
                                  ![c].pc = IF found.limit = 0 THEN "forward" ELSE "moment"]
      PROVE  RequestsInv'
  <2>1. s \in conn[c].snapshot /\ found = Vault(s) /\ found \in Records
    BY <1>0, <1>3 DEF Vault, RequestsInv, RequestTypes
  <2>2. PICK old \in Conn, rec \in Records, pc \in {"forward", "moment"} :
          /\ old = conn[c] /\ rec = found
          /\ pc = IF found.limit = 0 THEN "forward" ELSE "moment"
    BY <1>0, <2>1
  <2> HIDE DEF found
  <2>3. PICK after : after = [old EXCEPT !.rec = rec, !.snapshot = {}, !.pc = pc]
    OBVIOUS
  <2>4. conn' = [conn EXCEPT ![c] = after]
    BY <1>3, <2>2, <2>3 DEF RequestsInv, RequestTypes
  <2>5. after \in Conn
    BY ONLY <2>3, Zenon DEF Conn
  <2>6. /\ after.pc = pc /\ after.rec = rec /\ after.kind = old.kind /\ after.to = old.to
        /\ after.name = old.name /\ after.entries = old.entries /\ after.once = old.once
        /\ after.tunnel = old.tunnel /\ after.seen = old.seen /\ after.changed = old.changed
        /\ after.granted = old.granted
    BY ONLY <2>3 DEF Conn
  <2>7. KindInv(after) /\ EntriesInv(after)
    BY <1>0, <1>1, <2>2, <2>6 DEF RequestInv, KindInv, EntriesInv
  <2>8. SeenInv(after)
    BY <1>0, <1>1, <2>1, <2>2, <2>6, RequestsRecords
       DEF RequestInv, KindInv, SeenInv, RouteKinds, Served
  <2>9. LookupInv(after)
    BY <1>0, <1>1, <2>1, <2>2, <2>6 DEF RequestInv, LookupInv
  <2>10. QED
    BY <1>0, <2>4, <2>5, <2>7, <2>8, <2>9, ConnKeeps DEF RequestInv
<1>4. QED
  BY <1>2, <1>3 DEF Secret

LEMMA MomentKeeps ==
    ASSUME RequestsInv, NEW c \in Connections, Moment(c)
    PROVE  RequestsInv'
<1>0. /\ UNCHANGED <<grants, unlocked, secrets, clock>> /\ conn[c].pc = "moment"
      /\ conn[c] \in Conn
      /\ conn' = [conn EXCEPT ![c].pc = "limit", ![c].moment = clock]
  BY DEF Moment, OnlyConn, Doing, RequestsInv, RequestTypes
<1>1. RequestInv(conn[c])
  BY DEF RequestsInv
<1>2. PICK old \in Conn, moment \in 0..MaxTime : old = conn[c] /\ moment = clock
  BY <1>0 DEF RequestsInv, RequestTypes
<1>3. PICK after : after = [old EXCEPT !.pc = "limit", !.moment = moment]
  OBVIOUS
<1>4. conn' = [conn EXCEPT ![c] = after]
  BY <1>0, <1>2, <1>3 DEF RequestsInv, RequestTypes
<1>5. after \in Conn
  BY ONLY <1>3, Zenon DEF Conn
<1>6. /\ after.pc = "limit" /\ after.rec = old.rec /\ after.kind = old.kind /\ after.to = old.to
      /\ after.name = old.name /\ after.entries = old.entries /\ after.once = old.once
      /\ after.tunnel = old.tunnel /\ after.seen = old.seen /\ after.changed = old.changed
      /\ after.granted = old.granted /\ after.due = old.due
  BY ONLY <1>3 DEF Conn
<1>7. KindInv(after) /\ EntriesInv(after)
  BY <1>0, <1>1, <1>2, <1>6 DEF RequestInv, KindInv, EntriesInv
<1>8. SeenInv(after) /\ LookupInv(after)
  BY <1>0, <1>1, <1>2, <1>6 DEF RequestInv, SeenInv, LookupInv, RouteKinds, Served
<1>9. QED
  BY <1>0, <1>4, <1>5, <1>7, <1>8, ConnKeeps DEF RequestInv

\* The limiter changes its stamps, which nothing else reads.
LEMMA LimitKeeps ==
    ASSUME RequestsInv, NEW c \in Connections, Limit(c)
    PROVE  RequestsInv'
<1>0. /\ UNCHANGED <<grants, unlocked, secrets, clock>> /\ conn[c].pc = "limit"
      /\ conn[c] \in Conn
      /\ Logs(c) \/ conn' = [conn EXCEPT ![c].pc = "forward", ![c].moment = 0]
  BY DEF Limit, Doing, RequestsInv, RequestTypes
<1>1. RequestInv(conn[c])
  BY DEF RequestsInv
<1>2. CASE Logs(c)
  BY <1>0, <1>2, LogsKeeps
<1>3. CASE conn' = [conn EXCEPT ![c].pc = "forward", ![c].moment = 0]
  <2>1. PICK old \in Conn, moment \in 0..MaxTime : old = conn[c] /\ moment = 0
    BY <1>0, RequestsBounds
  <2>2. PICK after : after = [old EXCEPT !.pc = "forward", !.moment = moment]
    OBVIOUS
  <2>3. conn' = [conn EXCEPT ![c] = after]
    BY <1>3, <2>1, <2>2 DEF RequestsInv, RequestTypes
  <2>4. after \in Conn
    BY ONLY <2>2, Zenon DEF Conn
  <2>5. /\ after.pc = "forward" /\ after.rec = old.rec /\ after.kind = old.kind
        /\ after.to = old.to /\ after.name = old.name /\ after.entries = old.entries
        /\ after.once = old.once /\ after.tunnel = old.tunnel /\ after.seen = old.seen
        /\ after.changed = old.changed /\ after.granted = old.granted /\ after.due = old.due
    BY ONLY <2>2 DEF Conn
  <2>6. KindInv(after) /\ EntriesInv(after)
    BY <1>0, <1>1, <2>1, <2>5 DEF RequestInv, KindInv, EntriesInv
  <2>7. SeenInv(after) /\ LookupInv(after)
    BY <1>0, <1>1, <2>1, <2>5 DEF RequestInv, SeenInv, LookupInv, RouteKinds, Served
  <2>8. QED
    BY <1>0, <2>3, <2>4, <2>6, <2>7, ConnKeeps DEF RequestInv
<1>4. QED
  BY <1>0, <1>2, <1>3

\* Only a request with its record, one of an inmate and one with the URI of an
\* allowed destination reach the proxy.
LEMMA SendsKeeps ==
    ASSUME RequestsInv, NEW c \in Connections, Sends(c),
           \/ conn[c].pc = "forward"
           \/ conn[c].pc = "credential" /\ conn[c].kind \notin RouteKinds,
           UNCHANGED <<grants, unlocked, secrets, clock>>
    PROVE  RequestsInv'
<1>1. RequestInv(conn[c])
  BY DEF RequestsInv
<1>2. SUFFICES ASSUME NEW x \in Conn, x.pc = "proxy", x.kind = conn[c].kind,
                      x.to = conn[c].to, x.name = conn[c].name,
                      x.snapshot = conn[c].snapshot, x.rec = conn[c].rec,
                      x.once = conn[c].once, x.tunnel = conn[c].tunnel,
                      x.entries = conn[c].entries, x.due = conn[c].due,
                      x.seen = conn[c].seen, x.granted = conn[c].granted,
                      x.changed = conn[c].changed
               PROVE  RequestInv(x)
  BY GoesKeeps DEF Sends
<1>3. KindInv(x) /\ EntriesInv(x)
  BY <1>1, <1>2 DEF RequestInv, KindInv, EntriesInv
<1>4. SeenInv(x) /\ LookupInv(x)
  BY <1>1, <1>2 DEF RequestInv, SeenInv, LookupInv, RouteKinds, Served
<1>5. QED
  BY <1>3, <1>4 DEF RequestInv

LEMMA ForwardKeeps ==
    ASSUME RequestsInv, NEW c \in Connections, Forward(c) \/ Sign(c)
    PROVE  RequestsInv'
<1>1. CASE Forward(c)
  BY <1>1, LogsKeeps, SendsKeeps DEF Forward, Doing, OnlyConn
<1>2. CASE Sign(c)
  BY <1>2, LogsKeeps DEF Sign, Doing, OnlyConn
<1>3. QED
  BY <1>1, <1>2

LEMMA CredentialKeeps ==
    ASSUME RequestsInv, NEW c \in Connections, Credential(c)
    PROVE  RequestsInv'
<1>1. /\ UNCHANGED <<grants, unlocked, secrets, clock>> /\ conn[c].pc = "credential"
      /\ Logs(c) \/ Sends(c)
  BY DEF Credential, OnlyConn, Doing
<1>2. conn[c].kind \notin RouteKinds
  BY <1>1 DEF RequestsInv, RequestInv, KindInv, RouteKinds
<1>3. QED
  BY <1>1, <1>2, LogsKeeps, SendsKeeps

\* The entry of a request is written by the call of finish that comes first.
LEMMA FinishKeeps ==
    ASSUME RequestsInv, NEW c \in Connections, Fails(c) \/ CloseBody(c) \/ UpgradeEnds(c)
    PROVE  RequestsInv'
<1>1. UNCHANGED <<grants, unlocked, secrets, clock>> /\ conn[c].pc \in {"proxy", "body", "upgrade"}
  BY DEF Fails, CloseBody, UpgradeEnds, OnlyConn, Doing
<1>2. Finish(c) = 1
  BY <1>1 DEF Finish, RequestsInv, RequestInv, EntriesInv
<1>3. EndsWith(c, 1) \/ (conn[c].pc = "upgrade" /\ EndsUnlogged(c))
  BY <1>2 DEF Fails, CloseBody, UpgradeEnds, Doing
<1>4. QED
  BY <1>1, <1>3, EndsKeeps, EndsUnloggedKeeps

LEMMA AnswersKeeps ==
    ASSUME RequestsInv, NEW c \in Connections, Answers(c)
    PROVE  RequestsInv'
<1>0. /\ UNCHANGED <<grants, unlocked, secrets, clock>> /\ conn[c].pc = "proxy"
      /\ conn[c] \in Conn
  BY DEF Answers, OnlyConn, Doing, RequestsInv, RequestTypes
<1>1. RequestInv(conn[c])
  BY DEF RequestsInv
<1>2. CASE Goes(c, "body")
  <2>1. SUFFICES ASSUME NEW x \in Conn, x.pc = "body", x.kind = conn[c].kind,
                        x.to = conn[c].to, x.name = conn[c].name,
                        x.snapshot = conn[c].snapshot, x.rec = conn[c].rec,
                        x.once = conn[c].once, x.tunnel = conn[c].tunnel,
                        x.entries = conn[c].entries, x.due = conn[c].due,
                        x.seen = conn[c].seen, x.granted = conn[c].granted,
                        x.changed = conn[c].changed
                 PROVE  RequestInv(x)
    BY <1>0, <1>2, GoesKeeps
  <2>2. KindInv(x) /\ EntriesInv(x)
    BY <1>0, <1>1, <2>1 DEF RequestInv, KindInv, EntriesInv
  <2>3. SeenInv(x) /\ LookupInv(x)
    BY <1>0, <1>1, <2>1 DEF RequestInv, SeenInv, LookupInv, RouteKinds, Served
  <2>4. QED
    BY <2>2, <2>3 DEF RequestInv
<1>3. CASE conn' = [conn EXCEPT ![c].pc = "upgrade", ![c].entries = Finish(c), ![c].once = TRUE]
  <2>1. Finish(c) = 1
    BY <1>0, <1>1 DEF Finish, RequestInv, EntriesInv
  <2>2. PICK old \in Conn, entries \in 0..2 : old = conn[c] /\ entries = 1
    BY <1>0
  <2>3. PICK after : after = [old EXCEPT !.pc = "upgrade", !.entries = entries, !.once = TRUE]
    OBVIOUS
  <2>4. conn' = [conn EXCEPT ![c] = after]
    BY <1>3, <2>1, <2>2, <2>3 DEF RequestsInv, RequestTypes
  <2>5. after \in Conn
    BY ONLY <2>3, Zenon DEF Conn
  <2>6. /\ after.pc = "upgrade" /\ after.entries = entries /\ after.once = TRUE
        /\ after.rec = old.rec /\ after.kind = old.kind /\ after.to = old.to
        /\ after.name = old.name /\ after.tunnel = old.tunnel /\ after.seen = old.seen
        /\ after.changed = old.changed /\ after.granted = old.granted /\ after.due = old.due
    BY ONLY <2>3 DEF Conn
  <2>7. KindInv(after) /\ EntriesInv(after)
    BY <1>0, <1>1, <2>2, <2>6 DEF RequestInv, KindInv, EntriesInv
  <2>8. SeenInv(after) /\ LookupInv(after)
    BY <1>0, <1>1, <2>2, <2>6 DEF RequestInv, SeenInv, LookupInv, RouteKinds, Served
  <2>9. QED
    BY <1>0, <2>4, <2>5, <2>7, <2>8, ConnKeeps DEF RequestInv
<1>4. QED
  BY <1>2, <1>3 DEF Answers

LEMMA LeaveKeeps ==
    ASSUME RequestsInv, NEW c \in Connections, Leave(c)
    PROVE  RequestsInv'
<1>0. UNCHANGED <<grants, unlocked, secrets, clock>> /\ conn[c] \in Conn
  BY DEF Leave, OnlyConn, RequestsInv, RequestTypes
<1>1. RequestInv(conn[c])
  BY DEF RequestsInv
<1>2. CASE conn' = [conn EXCEPT ![c] = NoConn]
  BY <1>0, <1>2, ConnKeeps, NoConnFields, NoConnInv
<1>3. CASE /\ Doing(c, "ended") /\ conn[c].tunnel
           /\ conn' = [conn EXCEPT ![c].pc = "tunnel", ![c].entries = 0, ![c].due = FALSE]
  <2>1. PICK old \in Conn, entries \in 0..2 : old = conn[c] /\ entries = 0
    BY <1>0
  <2>2. PICK after : after = [old EXCEPT !.pc = "tunnel", !.entries = entries, !.due = FALSE]
    OBVIOUS
  <2>3. conn' = [conn EXCEPT ![c] = after]
    BY <1>3, <2>1, <2>2 DEF RequestsInv, RequestTypes
  <2>4. after \in Conn
    BY ONLY <2>2, Zenon DEF Conn
  <2>5. /\ after.pc = "tunnel" /\ after.entries = entries /\ after.due = FALSE
        /\ after.kind = old.kind /\ after.to = old.to /\ after.name = old.name
        /\ after.tunnel = old.tunnel /\ after.seen = old.seen
        /\ after.changed = old.changed /\ after.once = old.once
    BY ONLY <2>2 DEF Conn
  <2>6. old.pc = "ended" /\ old.tunnel = TRUE
    BY <1>3, <2>1 DEF Doing, Conn
  <2>7. KindInv(after) /\ EntriesInv(after)
    BY <1>1, <2>1, <2>5, <2>6 DEF RequestInv, KindInv, EntriesInv
  <2>8. SeenInv(after) /\ LookupInv(after)
    BY <1>1, <2>1, <2>5, <2>6 DEF RequestInv, SeenInv, LookupInv, RouteKinds, Served
  <2>9. QED
    BY <1>0, <2>3, <2>4, <2>7, <2>8, ConnKeeps DEF RequestInv
<1>4. QED
  BY <1>2, <1>3 DEF Leave

\* A change of the grants or of the vault is seen by every request that is under
\* way: it adds to what they have seen, and what they have decided stands.
LEMMA ObservedKeeps ==
    ASSUME RequestsInv, Observed, grants' \in (SUBSET Secrets) \cup {Nothing},
           unlocked' \in BOOLEAN, secrets' \in [Secrets -> Records \cup {Nothing}],
           clock' = clock
    PROVE  RequestsInv'
<1> DEFINE Now(s) == IF unlocked' THEN secrets'[s] ELSE Nothing
           Changed(c) ==
             IF conn[c].pc = "idle" THEN conn[c]
             ELSE IF conn[c].seen # {}
             THEN [conn[c] EXCEPT !.changed = TRUE, !.seen = @ \cup {Now(conn[c].name)},
                     !.granted = @ \/ (grants' # Nothing /\ conn[c].name \in grants')]
             ELSE [conn[c] EXCEPT !.changed = TRUE]
<1>1. conn' = [c \in Connections |-> Changed(c)]
  BY DEF Observed, Doing
<1>2. ASSUME NEW c \in Connections
      PROVE  conn'[c] \in Conn /\ RequestInv(conn[c])'
  <2>1. PICK old \in Conn : old = conn[c]
    BY DEF RequestsInv, RequestTypes
  <2>2. RequestInv(old) /\ conn'[c] = Changed(c)
    BY <1>1, <2>1 DEF RequestsInv
  <2>3. CASE old.pc = "idle"
    <3>1. conn'[c] = NoConn
      BY <2>1, <2>2, <2>3 DEF RequestInv, KindInv
    <3>2. QED
      BY <3>1, NoConnFields
         DEF RequestInv, KindInv, EntriesInv, SeenInv, LookupInv, RouteKinds, Served
  <2>4. CASE old.pc # "idle" /\ old.seen = {}
    <3>1. PICK after : after = [old EXCEPT !.changed = TRUE]
      OBVIOUS
    <3>2. conn'[c] = after
      BY <2>1, <2>2, <2>4, <3>1
    <3>3. after \in Conn
      BY ONLY <3>1, Zenon DEF Conn
    <3>4. /\ after.changed = TRUE /\ after.pc = old.pc /\ after.kind = old.kind
          /\ after.to = old.to /\ after.name = old.name /\ after.tunnel = old.tunnel
          /\ after.entries = old.entries /\ after.once = old.once /\ after.due = old.due
          /\ after.seen = old.seen /\ after.granted = old.granted
          /\ after.rec = old.rec /\ after.snapshot = old.snapshot
      BY ONLY <3>1 DEF Conn
    <3>5. (KindInv(conn[c]) /\ EntriesInv(conn[c]))'
      BY <2>2, <2>4, <3>2, <3>4 DEF RequestInv, KindInv, EntriesInv
    <3>6. SeenInv(conn[c])' /\ LookupInv(conn[c])'
      BY <2>2, <2>4, <3>2, <3>4 DEF RequestInv, SeenInv, LookupInv
    <3>7. QED
      BY <3>2, <3>3, <3>5, <3>6 DEF RequestInv
  <2>5. CASE old.pc # "idle" /\ old.seen # {}
    <3>1. old.name \in Secrets
      BY <2>2, <2>5 DEF RequestInv, SeenInv
    <3>2. PICK seen \in SUBSET (Records \cup {Nothing}) :
            seen = old.seen \cup {Now(old.name)}
      BY <3>1 DEF Conn
    <3>3. PICK granted \in BOOLEAN :
            granted = (old.granted \/ (grants' # Nothing /\ old.name \in grants'))
      OBVIOUS
    <3>4. PICK after : after = [old EXCEPT !.changed = TRUE, !.seen = seen, !.granted = granted]
      OBVIOUS
    <3>5. conn'[c] = after
      BY <2>1, <2>2, <2>5, <3>2, <3>3, <3>4
    <3>6. after \in Conn
      BY ONLY <3>4, Zenon DEF Conn
    <3>7. /\ after.changed = TRUE /\ after.pc = old.pc /\ after.kind = old.kind
          /\ after.to = old.to /\ after.name = old.name /\ after.tunnel = old.tunnel
          /\ after.entries = old.entries /\ after.once = old.once /\ after.due = old.due
          /\ after.seen = seen /\ after.granted = granted
          /\ after.rec = old.rec /\ after.snapshot = old.snapshot
      BY ONLY <3>4 DEF Conn
    <3>8. (KindInv(conn[c]) /\ EntriesInv(conn[c]))'
      BY <2>2, <2>5, <3>5, <3>7 DEF RequestInv, KindInv, EntriesInv
    <3>9. SeenInv(conn[c])'
      BY <2>2, <2>5, <3>1, <3>2, <3>3, <3>5, <3>7 DEF RequestInv, SeenInv, Vault
    <3>10. LookupInv(conn[c])'
      BY <3>5, <3>7 DEF LookupInv
    <3>11. QED
      BY <3>5, <3>6, <3>8, <3>9, <3>10 DEF RequestInv
  <2>6. QED
    BY <2>3, <2>4, <2>5
<1>3. conn' \in [Connections -> Conn]
  BY <1>1, <1>2
<1>4. RequestTypes'
  BY <1>3 DEF RequestsInv, RequestTypes
<1>5. QED
  BY <1>2, <1>4 DEF RequestsInv

LEMMA CommandsKeep ==
    ASSUME RequestsInv, Reloads \/ Unlocks \/ EditSecret
    PROVE  RequestsInv'
<1>1. Observed /\ clock' = clock
  BY DEF Reloads, Unlocks, EditSecret
<1>2. /\ grants' \in (SUBSET Secrets) \cup {Nothing} /\ unlocked' \in BOOLEAN
      /\ secrets' \in [Secrets -> Records \cup {Nothing}]
  BY DEF Reloads, Unlocks, EditSecret, RequestsInv, RequestTypes
<1>3. QED
  BY <1>1, <1>2, ObservedKeeps

\* What the requests have decided does not depend on the credentials of the
\* inmates, on the clock, or on the stamps.
LEMMA ElsewhereKeeps ==
    ASSUME RequestsInv, mergeCredentials \/ ClockTicks \/ UNCHANGED requestVars
    PROVE  RequestsInv'
<1>1. UNCHANGED <<grants, unlocked, secrets, conn>> /\ clock' \in 0..MaxTime
  BY RequestsBounds
     DEF mergeCredentials, ClockTicks, requestVars, RequestsInv, RequestTypes
<1>2. RequestTypes'
  BY <1>1 DEF RequestsInv, RequestTypes
<1>3. ASSUME NEW c \in Connections PROVE RequestInv(conn[c])'
  <2>1. RequestInv(conn[c])
    BY DEF RequestsInv
  <2>2. (KindInv(conn[c]) /\ EntriesInv(conn[c]))'
    BY <1>1, <2>1 DEF RequestInv, KindInv, EntriesInv
  <2>3. SeenInv(conn[c])' /\ LookupInv(conn[c])'
    BY <1>1, <2>1 DEF RequestInv, SeenInv, LookupInv, Vault, interceptRoutes
  <2>4. QED
    BY <2>2, <2>3 DEF RequestInv
<1>4. QED
  BY <1>2, <1>3 DEF RequestsInv

LEMMA RequestsStepKeeps ==
    ASSUME RequestsInv, [RequestsNext]_requestVars
    PROVE  RequestsInv'
<1>1. ASSUME NEW c \in Connections,
             \/ Refuse(c) \/ Connect(c) \/ AbsoluteURI(c)
             \/ Intercept(c) \/ Allow(c) \/ Dial(c) \/ Acknowledge(c) \/ Splice(c)
      PROVE  RequestsInv'
  BY <1>1, RefuseKeeps, ConnectKeeps, AbsoluteURIKeeps, InterceptKeeps, AllowKeeps, DialKeeps,
     AcknowledgeKeeps, TunnelEndsKeep
<1>2. ASSUME NEW c \in Connections,
             \/ Ask(c) \/ RefusedByTunnel(c) \/ FindProject(c) \/ Secret(c) \/ Moment(c)
             \/ Limit(c) \/ Forward(c) \/ Sign(c) \/ Credential(c)
      PROVE  RequestsInv'
  BY <1>2, AskKeeps, TunnelEndsKeep, FindProjectKeeps, SecretKeeps, MomentKeeps, LimitKeeps,
     ForwardKeeps, CredentialKeeps
<1>3. ASSUME NEW c \in Connections,
             Fails(c) \/ Answers(c) \/ UpgradeEnds(c) \/ CloseBody(c) \/ Leave(c)
      PROVE  RequestsInv'
  BY <1>3, FinishKeeps, AnswersKeeps, LeaveKeeps
<1>4. QED
  BY <1>1, <1>2, <1>3, CommandsKeep, ElsewhereKeeps DEF RequestsNext

LEMMA RequestsInvariant == RequestsSpec => []RequestsInv
<1>1. RequestsInit => RequestsInv
  <2>1. SUFFICES ASSUME RequestsInit PROVE RequestsInv
    OBVIOUS
  <2>2. \A c \in Connections : conn[c] = NoConn
    BY <2>1 DEF RequestsInit
  <2>3. RequestTypes
    <3>1. conn \in [Connections -> Conn]
      <4>1. NoConn \in Conn
        BY NoConnFields
      <4>2. QED
        BY <2>1, <4>1 DEF RequestsInit
    <3>2. clock \in 0..MaxTime
      BY <2>1, RequestsBounds DEF RequestsInit
    <3>3. QED
      BY <2>1, <3>1, <3>2 DEF RequestsInit, RequestTypes
  <2>4. QED
    BY <2>2, <2>3, NoConnInv DEF RequestsInv
<1>2. RequestsInv /\ [RequestsNext]_requestVars => RequestsInv'
  BY RequestsStepKeeps
<1>3. QED
  BY <1>1, <1>2, PTL DEF RequestsSpec

\* Every request that must leave an entry in the log leaves one, and no request
\* leaves two, whichever way through the handlers, the limiter and the reverse
\* proxy (exchange.finish) it ends.
THEOREM RequestsLoggedOnce == RequestsSpec => []LoggedOnce
<1>1. RequestsInv => LoggedOnce
  BY DEF RequestsInv, RequestInv, EntriesInv, LoggedOnce, Doing
<1>2. QED
  BY <1>1, RequestsInvariant, PTL

\* What leaves the broker is what was decided for the request it serves: its
\* record was in the vault, and granted, during the request; and only a change
\* between the two lookups of the vault (dispatch.go) can send an intercepted
\* request elsewhere or tunnel past an interception.
THEOREM RequestsForwardedAsDecided == RequestsSpec => []ForwardedAsDecided
<1>1. RequestsInv => ForwardedAsDecided
  <2>1. SUFFICES ASSUME RequestsInv, NEW c \in Connections, RequestInv(conn[c])
                 PROVE  LET x == conn[c] IN
                        /\ (x.kind \in {"named", "intercepted"}
                              /\ x.pc \in {"proxy", "upgrade", "body"})
                             => x.granted /\ x.rec \in x.seen \ {Nothing}
                        /\ (x.kind = "intercepted" /\ x.pc = "proxy")
                             => x.rec.upstream = x.to \/ x.changed
                        /\ x.pc = "splice" => x.to \in Egress \/ x.changed
    BY DEF ForwardedAsDecided, RequestsInv
  <2>2. QED
    BY <2>1 DEF RequestInv, KindInv, SeenInv, LookupInv, RouteKinds, Served
<1>2. QED
  BY <1>1, RequestsInvariant, PTL

----------------------------------------------------------------------------
(* The rate limit: every request that has passed it and is within a window  *)
(* still has its own stamp.                                                 *)

\* A finite set of numbers has a greatest one.
LEMMA FiniteGreatest ==
    ASSUME NEW S \in SUBSET Nat, IsFiniteSet(S), S # {}
    PROVE  Max(S) \in S /\ \A k \in S : k <= Max(S)
<1>1. PICK T : T = {{j \in S : j > k} : k \in S}
  OBVIOUS
<1>2. IsWellFoundedOn(StrictSubsetOrdering(S), SUBSET S)
  BY FS_StrictSubsetOrderingWellFounded, FS_FiniteSubsetsOfFinite
<1>3. T \subseteq SUBSET S /\ T # {}
  BY <1>1
<1>4. PICK x \in T : \A y \in T : <<y, x>> \notin StrictSubsetOrdering(S)
  BY <1>2, <1>3, WFMin
<1>5. PICK m \in S : x = {j \in S : j > m}
  BY <1>1, <1>4
<1>6. ASSUME NEW k \in S, ~(m >= k) PROVE FALSE
  <2>1. PICK y \in T : y = {j \in S : j > k}
    BY <1>1
  <2>2. m \in Nat /\ k \in Nat /\ k > m /\ S \subseteq Nat
    BY <1>6
  <2>3. y \subseteq x
    <3>1. \A j \in S : j > k => j > m
      BY <2>2
    <3>2. QED
      BY ONLY <1>5, <2>1, <3>1
  <2>4. k \in x /\ k \notin y
    BY <1>5, <2>1, <2>2
  <2>5. <<y, x>> \in StrictSubsetOrdering(S)
    BY <1>3, <2>3, <2>4 DEF StrictSubsetOrdering
  <2>6. QED
    BY <1>4, <2>5
<1>7. \E g \in S : \A k \in S : g >= k
  BY <1>6
<1>8. Max(S) \in S /\ \A k \in S : Max(S) >= k
  BY <1>7 DEF Max
<1>9. QED
  BY <1>8

Pass == [at : Nat, waited : Nat, limit : Nat \ {0}, number : Nat]

\* The stamp of a request that has passed is within a window.
Counts(pass, now) == now - pass.at + pass.waited < Window

\* RateHeld, of the requests for one secret.
Held(passes) ==
    \A i, j \in DOMAIN passes :
        j = i + passes[j].limit =>
            \E k \in i..(j-1) : passes[j].at - passes[i].at + passes[k].waited >= Window

Times(times) ==
    /\ IsFiniteSet(DOMAIN times) /\ DOMAIN times \subseteq Nat \ {0}
    /\ \A n \in DOMAIN times : times[n] \in 0..MaxTime

\* The requests that have passed, in the order of their passing: those within a
\* window have their stamps, under numbers that rise.
Stamped(times, passes, now) ==
    /\ passes \in Seq(Pass)
    /\ \A i \in DOMAIN passes : passes[i].at <= now
    /\ \A i, j \in DOMAIN passes :
         i < j => /\ passes[i].at <= passes[j].at
                  /\ Counts(passes[i], now) => passes[i].number < passes[j].number
    /\ \A i \in DOMAIN passes :
         Counts(passes[i], now) =>
            /\ passes[i].number \in DOMAIN times
            /\ times[passes[i].number] = passes[i].at - passes[i].waited

RateOf(times, passes, now) == Times(times) /\ Stamped(times, passes, now) /\ Held(passes)

LEMMA PassTypes ==
    ASSUME NEW passes \in Seq(Pass)
    PROVE  /\ Len(passes) \in Nat /\ DOMAIN passes = 1..Len(passes)
           /\ \A i \in DOMAIN passes :
                /\ passes[i].at \in Nat /\ passes[i].waited \in Nat
                /\ passes[i].limit \in Nat \ {0} /\ passes[i].number \in Nat
<1>1. \A i \in DOMAIN passes : passes[i] \in Pass
  OBVIOUS
<1>2. QED
  BY <1>1 DEF Pass

\* Time only takes requests out of the window.
LEMMA LaterRate ==
    ASSUME NEW times, NEW passes, NEW now \in Nat, NEW later \in Nat, now <= later,
           RateOf(times, passes, now)
    PROVE  RateOf(times, passes, later)
<1>1. /\ passes \in Seq(Pass) /\ Window \in Nat
      /\ \A i \in DOMAIN passes : passes[i].at \in Nat /\ passes[i].waited \in Nat
  BY RequestsBounds, PassTypes DEF RateOf, Stamped
<1>2. \A i \in DOMAIN passes : Counts(passes[i], later) => Counts(passes[i], now)
  BY <1>1 DEF Counts
<1>3. \A i \in DOMAIN passes : passes[i].at <= later
  BY <1>1 DEF RateOf, Stamped
<1>4. QED
  BY <1>1, <1>2, <1>3 DEF RateOf, Stamped

\* The stamps that count at a moment.
RecentOf(times, moment) == {n \in DOMAIN times : moment - times[n] < Window}

\* A moment in the past counts every stamp that counts now.
LEMMA CountedBefore ==
    ASSUME NEW times, NEW passes, NEW now \in Nat, RateOf(times, passes, now),
           NEW moment \in Nat, moment <= now, NEW i \in DOMAIN passes, Counts(passes[i], now)
    PROVE  passes[i].number \in RecentOf(times, moment)
<1>1. /\ passes[i].at \in Nat /\ passes[i].waited \in Nat /\ Window \in Nat
      /\ passes[i].number \in DOMAIN times
      /\ times[passes[i].number] = passes[i].at - passes[i].waited
  BY RequestsBounds, PassTypes DEF RateOf, Stamped
<1>2. moment - times[passes[i].number] < Window
  BY <1>1 DEF Counts
<1>3. QED
  BY <1>1, <1>2 DEF RecentOf

\* A refused request drops only stamps that count no more.
LEMMA RefusedRate ==
    ASSUME NEW times, NEW passes, NEW now \in Nat, RateOf(times, passes, now),
           NEW moment \in Nat, moment <= now
    PROVE  RateOf([n \in RecentOf(times, moment) |-> times[n]], passes, now)
<1> DEFINE recent == RecentOf(times, moment)
           left == [n \in recent |-> times[n]]
<1>1. recent \subseteq DOMAIN times
  BY DEF RecentOf
<1>2. Times(left)
  BY <1>1, FS_Subset DEF RateOf, Times
<1>3. \A i \in DOMAIN passes : Counts(passes[i], now) => passes[i].number \in recent
  BY CountedBefore
<1> HIDE DEF recent
<1>4. Stamped(left, passes, now)
  BY <1>1, <1>3 DEF RateOf, Stamped
<1>5. QED
  BY <1>2, <1>4 DEF RateOf, recent

\* The first of the requests may be forgotten.
LEMMA ForgottenRate ==
    ASSUME NEW times, NEW passes, NEW now \in Nat, RateOf(times, passes, now), passes # <<>>
    PROVE  RateOf(times, Tail(passes), now)
<1> DEFINE rest == Tail(passes)
<1>1. passes \in Seq(Pass) /\ rest \in Seq(Pass) /\ Len(rest) = Len(passes) - 1
      /\ Len(passes) \in Nat /\ DOMAIN rest = 1..(Len(passes) - 1)
      /\ DOMAIN passes = 1..Len(passes)
  BY DEF RateOf, Stamped
<1>2. \A i \in DOMAIN rest : rest[i] = passes[i + 1] /\ i + 1 \in DOMAIN passes
  BY <1>1
<1> HIDE DEF rest
<1>3. \A i, j \in DOMAIN rest : i \in Int /\ j \in Int /\ (i < j => i + 1 < j + 1)
  BY <1>1
<1>4. Stamped(times, rest, now)
  BY <1>1, <1>2, <1>3 DEF RateOf, Stamped
<1>5. ASSUME NEW i \in DOMAIN rest, NEW j \in DOMAIN rest, j = i + rest[j].limit
      PROVE  \E k \in i..(j-1) : rest[j].at - rest[i].at + rest[k].waited >= Window
  <2>1. i \in Int /\ j \in Int /\ i + 1 \in DOMAIN passes /\ j + 1 \in DOMAIN passes
        /\ rest[i] = passes[i + 1] /\ rest[j] = passes[j + 1] /\ rest[j].limit \in Nat
    BY <1>1, <1>2, <1>3, PassTypes
  <2>2. j + 1 = (i + 1) + passes[j + 1].limit
    BY <1>5, <2>1
  <2>3. PICK k \in (i+1)..((j+1)-1) :
          passes[j + 1].at - passes[i + 1].at + passes[k].waited >= Window
    BY <2>1, <2>2 DEF RateOf, Held
  <2>4. k - 1 \in i..(j-1) /\ k - 1 \in DOMAIN rest /\ (k - 1) + 1 = k
    BY <1>1, <1>5, <2>1, <2>3
  <2>5. rest[k - 1] = passes[k]
    BY <1>2, <2>4
  <2>6. QED
    BY <2>1, <2>3, <2>4, <2>5
<1>6. QED
  BY <1>4, <1>5 DEF RateOf, Held, rest

\* Fewer requests passed within the window than the limit: were they all that
\* the limit lets pass, each would have a stamp of its own that counts.
LEMMA LimitHolds ==
    ASSUME NEW times, NEW passes, NEW now \in Nat, RateOf(times, passes, now),
           NEW moment \in Nat, moment <= now, NEW i \in DOMAIN passes,
           NEW limit \in Nat \ {0}, i + limit = Len(passes) + 1,
           Cardinality(RecentOf(times, moment)) < limit
    PROVE  \E k \in i..Len(passes) : now - passes[i].at + passes[k].waited >= Window
<1> DEFINE recent == RecentOf(times, moment)
           last == Len(passes)
<1>1. /\ last \in Nat /\ DOMAIN passes = 1..last
      /\ \A k \in DOMAIN passes :
           /\ passes[k].at \in Nat /\ passes[k].waited \in Nat /\ passes[k].number \in Nat
  BY PassTypes DEF RateOf, Stamped
<1>2. recent \subseteq DOMAIN times /\ IsFiniteSet(recent) /\ Cardinality(recent) \in Nat
  BY FS_Subset, FS_CardinalityType DEF RateOf, Times, RecentOf
<1> HIDE DEF recent, last
<1>3. SUFFICES ASSUME \A k \in i..last : now - passes[i].at + passes[k].waited < Window
               PROVE  FALSE
  <2>1. SUFFICES ASSUME ~ \E k \in i..last :
                          now - passes[i].at + passes[k].waited >= Window
                 PROVE  FALSE
    BY DEF last
  <2>2. ASSUME NEW k \in i..last
        PROVE  now - passes[i].at + passes[k].waited < Window
    <3>1. k \in DOMAIN passes
      BY <1>1
    <3>2. passes[i].at \in Nat /\ passes[k].waited \in Nat /\ Window \in Nat
      BY <1>1, <3>1, RequestsBounds
    <3>3. ~(now - passes[i].at + passes[k].waited >= Window)
      BY <2>1
    <3>4. QED
      BY <3>2, <3>3
  <2>3. QED
    BY <1>3, <2>2
<1>4. ASSUME NEW k \in i..last
      PROVE  k \in DOMAIN passes /\ Counts(passes[k], now) /\ passes[k].number \in recent
  <2>1. k \in DOMAIN passes /\ i \in Nat /\ k \in Nat
    BY <1>1
  <2>2. /\ passes[i].at \in Nat /\ passes[k].at \in Nat /\ passes[k].waited \in Nat
        /\ Window \in Nat
    BY <1>1, <2>1, RequestsBounds
  <2>3. passes[i].at <= passes[k].at
    BY SMTT(60), <2>1, <2>2 DEF RateOf, Stamped
  <2>4. Counts(passes[k], now)
    <3>1. now - passes[i].at + passes[k].waited < Window
      BY <1>3
    <3>2. now - passes[k].at + passes[k].waited < Window
      <4>1. \A a, b, w, n, bound \in Nat : a <= b /\ n - a + w < bound => n - b + w < bound
        OBVIOUS
      <4>2. QED
        BY ONLY <2>2, <2>3, <3>1, <4>1, now \in Nat
    <3>3. QED
      BY <3>2 DEF Counts
  <2>5. QED
    BY <2>1, <2>4, CountedBefore DEF recent
<1>5. ASSUME NEW k \in i..last, NEW m \in i..last, k # m
      PROVE  passes[k].number # passes[m].number
  <2>1. \A a, b \in DOMAIN passes :
          a < b /\ Counts(passes[a], now) => passes[a].number < passes[b].number
    BY DEF RateOf, Stamped
  <2>2. /\ k \in DOMAIN passes /\ m \in DOMAIN passes /\ k \in Nat /\ m \in Nat
        /\ passes[k].number \in Nat /\ passes[m].number \in Nat
    BY <1>1, <1>4
  <2>3. k < m \/ m < k
    BY <1>5, <2>2
  <2>4. QED
    BY <1>4, <2>1, <2>2, <2>3
<1>6. [k \in i..last |-> passes[k].number] \in Injection(i..last, recent)
  BY <1>4, <1>5 DEF Injection, IsInjective
<1>7. IsFiniteSet(i..last) /\ Cardinality(i..last) <= Cardinality(recent)
  BY <1>2, <1>6, FS_Injection
<1>8. Cardinality(i..last) = limit
  <2>1. i \in Int /\ last \in Int /\ i <= last /\ last - i + 1 = limit
    BY <1>1 DEF last
  <2>2. QED
    BY <2>1, FS_Interval
<1>9. QED
  BY <1>2, <1>7, <1>8 DEF recent

\* A request that passes gets a stamp of its own.
LEMMA PassedRate ==
    ASSUME NEW times, NEW passes, NEW now \in Nat, RateOf(times, passes, now),
           NEW moment \in 0..MaxTime, moment <= now, NEW limit \in Nat \ {0},
           Cardinality(RecentOf(times, moment)) < limit,
           NEW number, number = 1 + Max({0} \cup RecentOf(times, moment)),
           NEW stamped, stamped = [n \in RecentOf(times, moment) \cup {number} |->
                                     IF n = number THEN moment ELSE times[n]],
           NEW pass, pass = [at |-> now, waited |-> now - moment, limit |-> limit,
                             number |-> number]
    PROVE  RateOf(stamped, Append(passes, pass), now)
<1> DEFINE recent == RecentOf(times, moment)
           kept == Append(passes, pass)
           last == Len(passes)
<1>1. /\ passes \in Seq(Pass) /\ last \in Nat /\ DOMAIN passes = 1..last
      /\ \A k \in DOMAIN passes :
           /\ passes[k].at \in Nat /\ passes[k].waited \in Nat /\ passes[k].number \in Nat
           /\ passes[k].limit \in Nat \ {0}
  BY PassTypes DEF RateOf, Stamped
<1>2. recent \subseteq DOMAIN times /\ IsFiniteSet(recent) /\ recent \subseteq Nat \ {0}
  BY FS_Subset DEF RateOf, Times, RecentOf
<1>3. number \in Nat \ {0} /\ \A n \in recent : n < number
  <2>1. {0} \cup recent \in SUBSET Nat /\ {0} \cup recent # {} /\ IsFiniteSet({0} \cup recent)
    BY <1>2, FS_AddElement
  <2>2. Max({0} \cup recent) \in Nat /\ \A n \in {0} \cup recent : n <= Max({0} \cup recent)
    BY <2>1, FiniteGreatest
  <2>3. QED
    BY <1>2, <2>2
<1>4. stamped = [n \in recent \cup {number} |-> IF n = number THEN moment ELSE times[n]]
  OBVIOUS
<1> HIDE DEF recent
<1>5. /\ pass.at = now /\ pass.waited = now - moment /\ pass.limit = limit
      /\ pass.number = number /\ pass \in Pass /\ now - moment \in Nat
  BY <1>3 DEF Pass
<1>6. /\ kept \in Seq(Pass) /\ Len(kept) = last + 1 /\ DOMAIN kept = 1..(last + 1)
      /\ \A i \in DOMAIN passes : kept[i] = passes[i] /\ i \in DOMAIN kept
      /\ kept[last + 1] = pass
  BY <1>1, <1>5
<1> HIDE DEF kept
<1>7. DOMAIN stamped = recent \cup {number} /\ stamped[number] = moment
      /\ \A n \in recent : stamped[n] = times[n]
  BY ONLY <1>2, <1>3, <1>4
<1>8. Times(stamped)
  <2>1. IsFiniteSet(recent \cup {number})
    BY <1>2, FS_AddElement
  <2>2. QED
    BY <1>2, <1>3, <1>7, <2>1 DEF RateOf, Times
<1>9. \A i \in DOMAIN passes : Counts(passes[i], now) => passes[i].number \in recent
  BY RequestsBounds, CountedBefore DEF recent
<1>10. \A i \in DOMAIN kept : i \in DOMAIN passes \/ i = last + 1
  BY <1>1, <1>6
<1>11. Stamped(stamped, kept, now)
  <2>1. \A i \in DOMAIN kept : kept[i].at <= now
    BY <1>5, <1>6, <1>10 DEF RateOf, Stamped
  <2>2. ASSUME NEW i \in DOMAIN kept, NEW j \in DOMAIN kept, i < j
        PROVE  /\ kept[i].at <= kept[j].at
               /\ Counts(kept[i], now) => kept[i].number < kept[j].number
    <3>1. i \in DOMAIN passes /\ kept[i] = passes[i]
      BY <1>1, <1>6, <1>10, <2>2
    <3>2. CASE j \in DOMAIN passes
      BY <1>6, <2>2, <3>1, <3>2 DEF RateOf, Stamped
    <3>3. CASE j = last + 1
      BY <1>3, <1>5, <1>6, <1>9, <3>1, <3>3 DEF RateOf, Stamped
    <3>4. QED
      BY <1>10, <3>2, <3>3
  <2>3. ASSUME NEW i \in DOMAIN kept, Counts(kept[i], now)
        PROVE  /\ kept[i].number \in DOMAIN stamped
               /\ stamped[kept[i].number] = kept[i].at - kept[i].waited
    <3>1. CASE i \in DOMAIN passes
      BY <1>6, <1>7, <1>9, <2>3, <3>1 DEF RateOf, Stamped
    <3>2. CASE i = last + 1
      <4>1. kept[i] = pass /\ now - (now - moment) = moment
        BY <1>6, <3>2
      <4>2. QED
        BY ONLY <1>5, <1>7, <4>1
    <3>3. QED
      BY <1>10, <3>1, <3>2
  <2>4. QED
    BY <1>6, <2>1, <2>2, <2>3 DEF Stamped
<1>12. ASSUME NEW i \in DOMAIN kept, NEW j \in DOMAIN kept, j = i + kept[j].limit
       PROVE  \E k \in i..(j-1) : kept[j].at - kept[i].at + kept[k].waited >= Window
  <2>1. i \in Nat /\ j \in Nat /\ kept[j].limit \in Nat \ {0}
    BY <1>1, <1>5, <1>6, <1>10
  <2>2. i < j
    BY <1>12, <2>1
  <2>3. i \in DOMAIN passes /\ kept[i] = passes[i]
    BY <1>1, <1>6, <1>10, <2>1, <2>2
  <2>4. CASE j \in DOMAIN passes
    <3>1. kept[j] = passes[j] /\ j = i + passes[j].limit
      BY <1>6, <1>12, <2>4
    <3>2. PICK k \in i..(j-1) : passes[j].at - passes[i].at + passes[k].waited >= Window
      BY <2>3, <2>4, <3>1 DEF RateOf, Held
    <3>3. k \in DOMAIN passes
      BY <1>1, <2>1, <2>3, <2>4
    <3>4. kept[k] = passes[k]
      BY <1>6, <3>3
    <3>5. QED
      BY <2>3, <3>1, <3>2, <3>4
  <2>5. CASE j = last + 1
    <3>1. kept[j].at = now /\ i + limit = last + 1
      BY <1>5, <1>6, <1>12, <2>5
    <3>2. PICK k \in i..last : now - passes[i].at + passes[k].waited >= Window
      BY <2>3, <3>1, LimitHolds
    <3>3. k \in i..(j-1) /\ kept[k] = passes[k]
      BY <1>1, <1>6, <2>1, <2>3, <2>5
    <3>4. QED
      BY <2>3, <3>1, <3>2, <3>3
  <2>6. QED
    BY <1>10, <2>4, <2>5
<1>13. Held(kept)
  BY <1>12 DEF Held
<1>14. QED
  BY <1>8, <1>11, <1>13 DEF RateOf, kept

\* A step of a connection that does not come to the limiter.
Apart(c) ==
    /\ conn'[c].pc \notin {"moment", "limit"}
    /\ \A o \in Connections \ {c} : conn'[o] = conn[o]

LEMMA ConnHasPhase ==
    ASSUME RequestTypes, NEW c \in Connections
    PROVE  /\ conn[c] \in Conn /\ c \in DOMAIN conn /\ "pc" \in DOMAIN conn[c]
           /\ conn[c] = [f \in DOMAIN conn[c] |-> conn[c][f]]
           /\ NoConn \in Conn /\ "pc" \in DOMAIN NoConn
<1>1. conn[c] \in Conn /\ c \in DOMAIN conn
  BY DEF RequestTypes
<1>2. NoConn \in Conn
  BY RequestsBounds DEF NoConn, Conn
<1>3. \A x \in Conn : "pc" \in DOMAIN x /\ x = [f \in DOMAIN x |-> x[f]]
  BY DEF Conn
<1>4. QED
  BY <1>1, <1>2, <1>3

LEMMA GoesApart ==
    ASSUME RequestTypes, NEW c \in Connections, NEW pc, pc \notin {"moment", "limit"},
           Goes(c, pc)
    PROVE  Apart(c)
BY ConnHasPhase DEF Goes, Apart

LEMMA EndsApart ==
    ASSUME RequestTypes, NEW c \in Connections, NEW entries, EndsWith(c, entries)
    PROVE  Apart(c)
<1>1. PICK end : end = [NoConn EXCEPT !.pc = "ended", !.entries = entries, !.due = conn[c].due]
  OBVIOUS
<1>2. end.pc = "ended" /\ "pc" \in DOMAIN end
  BY <1>1, ConnHasPhase
<1>3. PICK kind, to, changed, name :
        conn' = [conn EXCEPT ![c] = IF conn[c].tunnel
                   THEN [end EXCEPT !.tunnel = TRUE, !.kind = kind, !.to = to,
                                    !.changed = changed, !.name = name]
                   ELSE end]
  BY <1>1 DEF EndsWith
<1>4. [end EXCEPT !.tunnel = TRUE, !.kind = kind, !.to = to, !.changed = changed,
                  !.name = name].pc = "ended"
  BY <1>2
<1>5. conn'[c].pc = "ended"
  BY <1>2, <1>3, <1>4, ConnHasPhase
<1>6. QED
  BY <1>3, <1>5 DEF Apart

LEMMA AsksApart ==
    ASSUME RequestTypes, NEW c \in Connections, NEW s, NEW request \in Conn, Asks(c, s, request)
    PROVE  Apart(c)
<1>1. PICK seen, granted :
        conn' = [conn EXCEPT ![c] = [request EXCEPT !.pc = "project", !.name = s,
                                       !.seen = seen, !.granted = granted]]
  BY DEF Asks
<1>2. [request EXCEPT !.pc = "project", !.name = s, !.seen = seen, !.granted = granted].pc
        = "project"
  BY DEF Conn
<1>3. QED
  BY <1>1, <1>2, ConnHasPhase DEF Apart

LEMMA ConnectApart ==
    ASSUME RequestTypes, NEW c \in Connections, Connect(c)
    PROVE  Apart(c)
<1>1. CASE Logs(c)
  BY <1>1, EndsApart DEF Logs
<1>2. ASSUME NEW d \in Destinations,
             conn' = [conn EXCEPT ![c].kind = "raw", ![c].to = d, ![c].snapshot = grants,
                                  ![c].pc = "intercept"]
      PROVE  Apart(c)
  BY <1>2, ConnHasPhase DEF Apart
<1>3. ASSUME NEW kind \in ZoneKinds, NEW name,
             conn' = [conn EXCEPT ![c].kind = kind, ![c].pc = "acknowledge", ![c].name = name]
      PROVE  Apart(c)
  BY <1>3, ConnHasPhase DEF Apart
<1>4. QED
  BY <1>1, <1>2, <1>3 DEF Connect

LEMMA AbsoluteURIApart ==
    ASSUME RequestTypes, NEW c \in Connections, AbsoluteURI(c)
    PROVE  Apart(c)
<1>1. CASE EndsUnlogged(c)
  BY <1>1, EndsApart DEF EndsUnlogged
<1>2. ASSUME NEW d \in Destinations,
             conn' = [conn EXCEPT ![c].kind = "uri", ![c].to = d, ![c].snapshot = grants,
                                  ![c].pc = "allow"]
      PROVE  Apart(c)
  BY <1>2, ConnHasPhase DEF Apart
<1>3. ASSUME NEW kind \in ZoneKinds, NEW s, Asks(c, s, [conn[c] EXCEPT !.kind = kind])
      PROVE  Apart(c)
  <2>1. [conn[c] EXCEPT !.kind = kind] \in Conn
    BY ZenonT(60), ConnHasPhase DEF Conn, ZoneKinds
  <2>2. QED
    BY <1>3, <2>1, AsksApart
<1>4. QED
  BY <1>1, <1>2, <1>3 DEF AbsoluteURI

LEMMA InterceptApart ==
    ASSUME RequestTypes, NEW c \in Connections, Intercept(c) \/ Allow(c) \/ Dial(c)
    PROVE  Apart(c)
<1>1. CASE Logs(c)
  BY <1>1, EndsApart DEF Logs
<1>2. CASE Goes(c, "allow") \/ Goes(c, "acknowledge")
  BY <1>2, GoesApart
<1>3. ASSUME NEW s,
             conn' = [conn EXCEPT ![c].kind = "intercepted", ![c].name = s,
                                  ![c].pc = "acknowledge", ![c].snapshot = {}]
      PROVE  Apart(c)
  BY <1>3, ConnHasPhase DEF Apart
<1>4. ASSUME NEW pc, pc \in {"dial", "proxy"},
             conn' = [conn EXCEPT ![c].pc = pc, ![c].due = TRUE]
      PROVE  Apart(c)
  BY <1>4, ConnHasPhase DEF Apart
<1>5. QED
  BY <1>1, <1>2, <1>3, <1>4 DEF Intercept, Allow, Dial

LEMMA TunnelApart ==
    ASSUME RequestTypes, NEW c \in Connections,
           Refuse(c) \/ Acknowledge(c) \/ Splice(c) \/ Ask(c) \/ RefusedByTunnel(c)
    PROVE  Apart(c)
<1>1. CASE Logs(c) \/ EndsUnlogged(c)
  BY <1>1, EndsApart DEF Logs, EndsUnlogged
<1>2. CASE Acknowledge(c)
  <2>1. CASE conn' = [conn EXCEPT ![c] = [NoConn EXCEPT !.pc = "ended"]]
    BY <2>1, ConnHasPhase DEF Apart
  <2>2. ASSUME NEW pc, pc \in {"tunnel", "splice"}, NEW tunnel,
               conn' = [conn EXCEPT ![c].pc = pc, ![c].tunnel = tunnel, ![c].snapshot = {}]
        PROVE  Apart(c)
    BY <2>2, ConnHasPhase DEF Apart
  <2>3. QED
    BY <1>2, <2>1, <2>2 DEF Acknowledge
<1>3. CASE Ask(c)
  BY <1>3, AsksApart, ConnHasPhase DEF Ask
<1>4. QED
  BY <1>1, <1>2, <1>3 DEF Refuse, Splice, RefusedByTunnel

LEMMA ServedApart ==
    ASSUME RequestTypes, NEW c \in Connections,
           FindProject(c) \/ Forward(c) \/ Sign(c) \/ Credential(c)
    PROVE  Apart(c)
<1>1. CASE Logs(c) \/ EndsUnlogged(c)
  BY <1>1, EndsApart DEF Logs, EndsUnlogged
<1>2. CASE Sends(c)
  BY <1>2, GoesApart DEF Sends
<1>3. ASSUME NEW pc, pc \in {"credential", "secret"},
             conn' = [conn EXCEPT ![c].due = TRUE, ![c].snapshot = grants, ![c].pc = pc]
      PROVE  Apart(c)
  BY <1>3, ConnHasPhase DEF Apart
<1>4. QED
  BY <1>1, <1>2, <1>3 DEF FindProject, Forward, Sign, Credential

LEMMA ProxyApart ==
    ASSUME RequestTypes, NEW c \in Connections,
           Fails(c) \/ Answers(c) \/ UpgradeEnds(c) \/ CloseBody(c) \/ Leave(c)
    PROVE  Apart(c)
<1>1. ASSUME NEW entries, EndsWith(c, entries) PROVE Apart(c)
  BY <1>1, EndsApart
<1>2. CASE Answers(c)
  <2>1. CASE Goes(c, "body")
    BY <2>1, GoesApart
  <2>2. ASSUME NEW entries,
               conn' = [conn EXCEPT ![c].pc = "upgrade", ![c].entries = entries,
                                    ![c].once = TRUE]
        PROVE  Apart(c)
    BY <2>2, ConnHasPhase DEF Apart
  <2>3. QED
    BY <1>2, <2>1, <2>2 DEF Answers
<1>3. CASE Leave(c)
  <2>1. CASE conn' = [conn EXCEPT ![c] = NoConn]
    <3>1. NoConn.pc = "idle"
      BY DEF NoConn
    <3>2. QED
      BY <2>1, <3>1, ConnHasPhase DEF Apart
  <2>2. CASE conn' = [conn EXCEPT ![c].pc = "tunnel", ![c].entries = 0, ![c].due = FALSE]
    BY <2>2, ConnHasPhase DEF Apart
  <2>3. QED
    BY <1>3, <2>1, <2>2 DEF Leave
<1>4. QED
  BY <1>1, <1>2, <1>3 DEF Fails, UpgradeEnds, CloseBody, EndsUnlogged

\* A request on its way to the limiter has a record with a limit, and has read
\* the clock before it waits for the mutex.
Waits(x) ==
    /\ x.pc \in {"moment", "limit"} =>
         x.name \in Secrets /\ x.rec \in Records /\ x.rec.limit \in Nat \ {0}
    /\ x.pc = "limit" => x.moment \in 0..MaxTime /\ x.moment <= clock

RateInv ==
    /\ clock \in Nat
    /\ stamps = [s \in Secrets |-> stamps[s]] /\ passed = [s \in Secrets |-> passed[s]]
    /\ \A s \in Secrets : RateOf(stamps[s], passed[s], clock)
    /\ \A c \in Connections : Waits(conn[c])

\* What the limiter has kept stays as it is.
LEMMA KeptRate ==
    ASSUME RateInv, UNCHANGED <<clock, stamps, passed>>, \A c \in Connections : Waits(conn[c])'
    PROVE  RateInv'
<1>1. \A s \in Secrets : RateOf(stamps[s], passed[s], clock)'
  <2>1. ASSUME NEW s \in Secrets PROVE RateOf(stamps'[s], passed'[s], clock')
    BY DEF RateInv
  <2>2. QED
    BY <2>1 DEF RateOf, Stamped, Times, Held, Counts
<1>2. QED
  BY <1>1 DEF RateInv

LEMMA ApartRate ==
    ASSUME RateInv, NEW c \in Connections, Apart(c), UNCHANGED <<clock, stamps, passed>>
    PROVE  RateInv'
<1>1. \A o \in Connections : Waits(conn[o])'
  BY DEF RateInv, Waits, Apart
<1>2. QED
  BY <1>1, KeptRate

\* Commands change the history of the requests and nothing that the limiter reads.
LEMMA ObservedRate ==
    ASSUME RequestTypes, RateInv, Observed, UNCHANGED <<clock, stamps, passed>>
    PROVE  RateInv'
<1>1. ASSUME NEW c \in Connections PROVE Waits(conn[c])'
  <2>1. /\ conn'[c].pc = conn[c].pc /\ conn'[c].name = conn[c].name
        /\ conn'[c].rec = conn[c].rec /\ conn'[c].moment = conn[c].moment
    <3>1. PICK seen, granted :
            conn'[c] \in {conn[c],
                          [conn[c] EXCEPT !.changed = TRUE, !.seen = seen, !.granted = granted],
                          [conn[c] EXCEPT !.changed = TRUE]}
      BY DEF Observed
    <3>2. conn[c] \in Conn
      BY DEF RequestTypes
    <3>3. QED
      BY <3>1, <3>2 DEF Conn
  <2>2. QED
    BY <2>1 DEF RateInv, Waits
<1>2. QED
  BY <1>1, KeptRate

LEMMA SecretRate ==
    ASSUME RequestTypes, RateInv, NEW c \in Connections, Secret(c)
    PROVE  RateInv'
<1>1. UNCHANGED <<clock, stamps, passed>>
  BY DEF Secret, OnlyConn
<1>2. CASE Logs(c)
  BY <1>1, <1>2, EndsApart, ApartRate DEF Logs
<1>3. ASSUME NEW rec \in Records, NEW pc, pc = IF rec.limit = 0 THEN "forward" ELSE "moment",
             conn[c].name \in Secrets,
             conn' = [conn EXCEPT ![c].rec = rec, ![c].snapshot = {}, ![c].pc = pc]
      PROVE  RateInv'
  <2>1. PICK after : after = [conn[c] EXCEPT !.rec = rec, !.snapshot = {}, !.pc = pc]
    OBVIOUS
  <2>2. after.pc = pc /\ after.rec = rec /\ after.name = conn[c].name
    BY ONLY <2>1, ConnHasPhase, RequestTypes, c \in Connections DEF Conn
  <2>3. conn'[c] = after /\ \A o \in Connections \ {c} : conn'[o] = conn[o]
    BY <1>3, <2>1, ConnHasPhase
  <2>4. rec.limit \in Nat /\ pc # "limit"
    BY <1>3, RequestsRecords
  <2>5. Waits(conn[c])'
    BY <1>3, <2>2, <2>3, <2>4 DEF Waits
  <2>6. \A o \in Connections : Waits(conn[o])'
    BY <1>1, <2>3, <2>5 DEF RateInv, Waits
  <2>7. QED
    BY <1>1, <2>6, KeptRate
<1>4. CASE ~Logs(c)
  <2>1. PICK rec : /\ rec = IF conn[c].name \in conn[c].snapshot THEN Vault(conn[c].name)
                             ELSE Nothing
                   /\ rec # Nothing
                   /\ conn' = [conn EXCEPT ![c].rec = rec, ![c].snapshot = {},
                                  ![c].pc = IF rec.limit = 0 THEN "forward" ELSE "moment"]
    BY <1>4 DEF Secret
  <2>2. conn[c].name \in conn[c].snapshot /\ conn[c].snapshot \subseteq Secrets
    BY <2>1, ConnHasPhase DEF Conn
  <2>3. rec \in Records
    BY <2>1, <2>2 DEF Vault, RequestTypes
  <2>4. QED
    BY <1>3, <2>1, <2>2, <2>3
<1>5. QED
  BY <1>2, <1>4

LEMMA MomentRate ==
    ASSUME RequestTypes, RateInv, NEW c \in Connections, Moment(c)
    PROVE  RateInv'
<1>1. UNCHANGED <<clock, stamps, passed>> /\ conn[c].pc = "moment" /\ conn[c] \in Conn
      /\ conn' = [conn EXCEPT ![c].pc = "limit", ![c].moment = clock]
  BY ConnHasPhase DEF Moment, OnlyConn, Doing
<1>2. PICK after : after = [conn[c] EXCEPT !.pc = "limit", !.moment = clock]
  OBVIOUS
<1>3. after.pc = "limit" /\ after.moment = clock /\ after.rec = conn[c].rec
      /\ after.name = conn[c].name
  BY ONLY <1>1, <1>2 DEF Conn
<1>4. conn'[c] = after /\ \A o \in Connections \ {c} : conn'[o] = conn[o]
  BY <1>1, <1>2, ConnHasPhase
<1>5. Waits(conn[c])'
  BY <1>1, <1>3, <1>4 DEF RateInv, RequestTypes, Waits
<1>6. \A o \in Connections : Waits(conn[o])'
  BY <1>1, <1>4, <1>5 DEF RateInv, Waits
<1>7. QED
  BY <1>1, <1>6, KeptRate

LEMMA TickRate ==
    ASSUME RequestTypes, RateInv, ClockTicks
    PROVE  RateInv'
<1>1. UNCHANGED <<stamps, passed, conn>> /\ clock' = clock + 1 /\ clock \in Nat
  BY DEF ClockTicks, RateInv
<1>2. \A c \in Connections : Waits(conn[c])'
  BY <1>1 DEF RateInv, Waits
<1>3. ASSUME NEW s \in Secrets PROVE RateOf(stamps[s], passed[s], clock)'
  <2>1. PICK times, passes : times = stamps[s] /\ passes = passed[s]
    OBVIOUS
  <2>2. RateOf(times, passes, clock) /\ clock + 1 \in Nat /\ clock <= clock + 1
    BY <1>1, <2>1 DEF RateInv
  <2>3. RateOf(times, passes, clock + 1)
    BY <1>1, <2>2, LaterRate
  <2>4. RateOf(stamps'[s], passed'[s], clock')
    BY <1>1, <2>1, <2>3
  <2>5. QED
    BY <2>4 DEF RateOf, Stamped, Times, Held, Counts
<1>4. QED
  BY <1>1, <1>2, <1>3 DEF RateInv

\* Allow of the limiter, under the mutex.
LEMMA LimitRate ==
    ASSUME RequestTypes, RateInv, NEW c \in Connections, Limit(c)
    PROVE  RateInv'
<1>1. clock' = clock /\ clock \in Nat /\ Waits(conn[c]) /\ conn[c].pc = "limit"
  BY DEF Limit, Doing, RateInv
<1>2. PICK s \in Secrets, limit \in Nat \ {0}, moment \in 0..MaxTime :
        /\ s = conn[c].name /\ limit = conn[c].rec.limit /\ moment = conn[c].moment
        /\ moment <= clock
  BY <1>1 DEF Waits
<1> DEFINE times == stamps[s]
           passes == passed[s]
<1>3. RateOf(times, passes, clock) /\ Recent(s, moment) = RecentOf(times, moment)
  BY <1>2 DEF RateInv, Recent, RecentOf
<1> HIDE DEF times, passes
<1>4. Apart(c)
  <2>1. CASE Logs(c)
    BY <2>1, EndsApart DEF Logs
  <2>2. CASE conn' = [conn EXCEPT ![c].pc = "forward", ![c].moment = 0]
    BY <2>2, ConnHasPhase DEF Apart
  <2>3. QED
    BY <2>1, <2>2 DEF Limit
<1>5. \A o \in Connections : Waits(conn[o])'
  BY <1>1, <1>4 DEF RateInv, Waits, Apart
<1>6. ASSUME NEW newTimes, NEW newPasses, RateOf(newTimes, newPasses, clock),
             stamps' = [stamps EXCEPT ![s] = newTimes],
             passed' = [passed EXCEPT ![s] = newPasses]
      PROVE  RateInv'
  <2>1. /\ stamps' = [o \in Secrets |-> stamps'[o]] /\ passed' = [o \in Secrets |-> passed'[o]]
        /\ \A o \in Secrets : /\ stamps'[o] = IF o = s THEN newTimes ELSE stamps[o]
                              /\ passed'[o] = IF o = s THEN newPasses ELSE passed[o]
    BY <1>6 DEF RateInv
  <2>2. ASSUME NEW o \in Secrets PROVE RateOf(stamps[o], passed[o], clock)'
    <3>1. RateOf(stamps'[o], passed'[o], clock')
      BY <1>1, <1>6, <2>1 DEF RateInv
    <3>2. QED
      BY <3>1 DEF RateOf, Stamped, Times, Held, Counts
  <2>3. QED
    BY <1>1, <1>5, <2>1, <2>2 DEF RateInv
<1>7. CASE Cardinality(RecentOf(times, moment)) >= limit
  <2>1. /\ stamps' = [stamps EXCEPT ![s] = [n \in RecentOf(times, moment) |-> times[n]]]
        /\ passed' = passed
    BY <1>2, <1>3, <1>7 DEF Limit, RateInv, times
  <2>2. RateOf([n \in RecentOf(times, moment) |-> times[n]], passes, clock)
    BY <1>1, <1>2, <1>3, RefusedRate
  <2>3. passed' = [passed EXCEPT ![s] = passes]
    BY <1>2, <2>1 DEF RateInv, passes
  <2>4. QED
    BY <1>6, <2>1, <2>2, <2>3
<1>8. CASE ~(Cardinality(RecentOf(times, moment)) >= limit)
  <2>1. PICK number, pass, kept :
          /\ number = 1 + Max({0} \cup RecentOf(times, moment))
          /\ pass = [at |-> clock, waited |-> clock - moment, limit |-> limit,
                     number |-> number]
          /\ kept = Append(passes, pass)
    OBVIOUS
  <2>2. /\ stamps' = [stamps EXCEPT ![s] = [n \in RecentOf(times, moment) \cup {number} |->
                        IF n = number THEN moment ELSE times[n]]]
        /\ passed' = [passed EXCEPT ![s] = IF Len(kept) > limit + 1 THEN Tail(kept) ELSE kept]
    BY <1>2, <1>3, <1>8, <2>1 DEF Limit, RateInv, times, passes
  <2>3. PICK newTimes : newTimes = [n \in RecentOf(times, moment) \cup {number} |->
                                      IF n = number THEN moment ELSE times[n]]
    OBVIOUS
  <2>4. Cardinality(RecentOf(times, moment)) < limit
    <3>1. IsFiniteSet(RecentOf(times, moment))
      BY <1>3, FS_Subset DEF RateOf, Times, RecentOf
    <3>2. Cardinality(RecentOf(times, moment)) \in Nat
      BY <3>1, FS_CardinalityType
    <3>3. QED
      BY <1>8, <3>2
  <2>5. RateOf(newTimes, kept, clock)
    <3>1. /\ number = 1 + Max({0} \cup RecentOf(times, moment)) /\ clock \in Nat
          /\ RateOf(times, passes, clock) /\ moment <= clock
          /\ pass = [at |-> clock, waited |-> clock - moment, limit |-> limit,
                     number |-> number]
      BY <1>1, <1>2, <1>3, <2>1
    <3>2. RateOf(newTimes, Append(passes, pass), clock)
      BY <3>1, <2>3, <2>4, PassedRate
    <3>3. QED
      BY <2>1, <3>2
  <2>6. kept # <<>> /\ RateOf(newTimes, Tail(kept), clock)
    <3>1. passes \in Seq(Pass)
      BY <1>3 DEF RateOf, Stamped
    <3>2. kept # <<>>
      BY <2>1, <3>1
    <3>3. QED
      BY <1>1, <2>5, <3>2, ForgottenRate
  <2>7. QED
    BY <1>6, <2>2, <2>3, <2>5, <2>6
<1>9. QED
  BY <1>7, <1>8

LEMMA RateStepKeeps ==
    ASSUME RequestTypes, RateInv, [RequestsNext]_requestVars
    PROVE  RateInv'
<1>1. ASSUME NEW c \in Connections, Apart(c), UNCHANGED <<clock, stamps, passed>>
      PROVE  RateInv'
  BY <1>1, ApartRate
<1>2. ASSUME NEW c \in Connections,
             \/ Refuse(c) \/ Connect(c) \/ AbsoluteURI(c) \/ Intercept(c) \/ Allow(c)
             \/ Dial(c) \/ Acknowledge(c) \/ Splice(c)
      PROVE  RateInv'
  <2>1. UNCHANGED <<clock, stamps, passed>>
    BY <1>2 DEF Refuse, Connect, AbsoluteURI, Intercept, Allow, Dial, Acknowledge, Splice,
                OnlyConn
  <2>2. QED
    BY SMTT(60), <1>1, <1>2, <2>1, ConnectApart, AbsoluteURIApart, InterceptApart, TunnelApart
<1>3. ASSUME NEW c \in Connections,
             \/ Ask(c) \/ RefusedByTunnel(c) \/ FindProject(c) \/ Forward(c) \/ Sign(c)
             \/ Credential(c) \/ Fails(c) \/ Answers(c) \/ UpgradeEnds(c) \/ CloseBody(c)
             \/ Leave(c)
      PROVE  RateInv'
  <2>1. UNCHANGED <<clock, stamps, passed>>
    BY <1>3 DEF Ask, RefusedByTunnel, FindProject, Forward, Sign, Credential, Fails, Answers,
                UpgradeEnds, CloseBody, Leave, OnlyConn
  <2>2. QED
    BY <1>1, <1>3, <2>1, TunnelApart, ServedApart, ProxyApart
<1>4. CASE Reloads \/ Unlocks \/ EditSecret
  BY <1>4, ObservedRate DEF Reloads, Unlocks, EditSecret
<1>5. CASE mergeCredentials \/ UNCHANGED requestVars
  <2>1. UNCHANGED <<clock, stamps, passed, conn>>
    BY <1>5 DEF mergeCredentials, requestVars
  <2>2. \A c \in Connections : Waits(conn[c])'
    BY <2>1 DEF RateInv, Waits
  <2>3. QED
    BY <2>1, <2>2, KeptRate
<1>6. QED
  BY <1>2, <1>3, <1>4, <1>5, SecretRate, MomentRate, LimitRate, TickRate DEF RequestsNext

LEMMA RateInvariant == RequestsSpec => [](RequestsInv /\ RateInv)
<1>1. RequestsInit => RateInv
  <2>1. SUFFICES ASSUME RequestsInit PROVE RateInv
    OBVIOUS
  <2>2. \A c \in Connections : Waits(conn[c])
    BY <2>1 DEF RequestsInit, NoConn, Waits
  <2>3. RateOf(<<>>, <<>>, 0)
    BY FS_EmptySet DEF RateOf, Times, Stamped, Held
  <2>4. \A s \in Secrets : RateOf(stamps[s], passed[s], clock)
    BY <2>1, <2>3 DEF RequestsInit
  <2>5. QED
    BY <2>1, <2>2, <2>4 DEF RequestsInit, RateInv
<1>2. RequestsInv /\ RateInv /\ [RequestsNext]_requestVars => RateInv'
  BY RateStepKeeps DEF RequestsInv
<1>3. QED
  BY <1>1, <1>2, RequestsInvariant, PTL DEF RequestsSpec

\* No more requests for a secret pass in a window than its limit says, however
\* the requests interleave between the clock and the mutex: RateHeld.
THEOREM RateStaysHeld == RequestsSpec => []RateHeld
<1>1. RateInv => RateHeld
  BY DEF RateInv, RateOf, Held, RateHeld
<1>2. QED
  BY <1>1, RateInvariant, PTL

\* The bounds that the limiter does not depend on.
Rest == held \in SUBSET Variables /\ edits \in 0..MaxEdits

LEMMA RestKeeps == ASSUME Rest, [RequestsNext]_requestVars PROVE Rest'
<1>1. CASE UNCHANGED <<held, edits>>
  BY SMTT(60), <1>1 DEF Rest
<1>2. CASE edits < MaxEdits /\ edits' = edits + 1 /\ held' \in SUBSET Variables
  BY SMTT(60), <1>2, RequestsBounds DEF Rest
<1>3. ASSUME NEW c \in Connections,
             \/ Refuse(c) \/ Connect(c) \/ AbsoluteURI(c)
             \/ Intercept(c) \/ Allow(c) \/ Dial(c) \/ Acknowledge(c) \/ Splice(c)
             \/ Ask(c) \/ RefusedByTunnel(c) \/ FindProject(c) \/ Secret(c) \/ Moment(c)
             \/ Limit(c) \/ Forward(c) \/ Sign(c) \/ Credential(c) \/ Fails(c) \/ Answers(c)
             \/ UpgradeEnds(c) \/ CloseBody(c) \/ Leave(c)
      PROVE  UNCHANGED <<held, edits>>
  BY <1>3 DEF OnlyConn, Refuse, Connect, AbsoluteURI, Intercept, Allow, Dial, Acknowledge,
     Splice, Ask, RefusedByTunnel, FindProject, Secret, Moment, Limit, Forward, Sign,
     Credential, Fails, Answers, UpgradeEnds, CloseBody, Leave
<1>4. Reloads \/ EditSecret \/ mergeCredentials
        => edits < MaxEdits /\ edits' = edits + 1 /\ held' \in SUBSET Variables
  BY DEF Reloads, EditSecret, mergeCredentials, Rest
<1>5. Unlocks \/ ClockTicks \/ UNCHANGED requestVars => UNCHANGED <<held, edits>>
  BY DEF Unlocks, ClockTicks, requestVars
<1>6. QED
  BY SMTT(60), <1>1, <1>2, <1>3, <1>4, <1>5 DEF RequestsNext

\* Every request, the vault, the grants, the clock and the stamps of the limiter
\* keep their types.
THEOREM RequestsTyped == RequestsSpec => []RequestsTypeOK
<1>1. RequestsInit => Rest
  BY RequestsBounds DEF RequestsInit, Rest
<1>2. Rest /\ [RequestsNext]_requestVars => Rest'
  BY RestKeeps
<1>3. RequestsInv /\ RateInv /\ Rest => RequestsTypeOK
  BY DEF RequestsInv, RequestTypes, RateInv, RateOf, Times, Rest, RequestsTypeOK
<1>4. QED
  BY <1>1, <1>2, <1>3, RateInvariant, PTL DEF RequestsSpec

----------------------------------------------------------------------------
(* Entries in their order.                                                  *)

Rises(s) == \A i, j \in DOMAIN s : i < j => s[i] < s[j]
Below(s, t) == \A i \in DOMAIN s, j \in DOMAIN t : s[i] < t[j]
Under(s, bound) == \A i \in DOMAIN s : s[i] < bound
Holds(s, e) == \E i \in DOMAIN s : s[i] = e

\* No entries.
LEMMA NoEntries ==
    /\ Rises(<<>>)
    /\ \A s : Below(<<>>, s) /\ Below(s, <<>>)
    /\ \A bound : Under(<<>>, bound)
    /\ \A e : ~Holds(<<>>, e)
BY DEF Rises, Below, Under, Holds

\* A bound can be raised.
LEMMA UnderMore ==
    ASSUME NEW s \in Seq(Nat), NEW a \in Int, NEW b \in Int, a <= b, Under(s, a)
    PROVE  Under(s, b)
<1>1. \A i \in DOMAIN s : s[i] \in Nat
  OBVIOUS
<1>2. QED
  BY <1>1 DEF Under

\* One entry more, above those that there are.
LEMMA AppendRises ==
    ASSUME NEW s \in Seq(Nat), NEW e \in Nat, Rises(s), Under(s, e)
    PROVE  /\ Append(s, e) \in Seq(Nat) /\ Rises(Append(s, e)) /\ Under(Append(s, e), e + 1)
           /\ \A x : Holds(Append(s, e), x) <=> Holds(s, x) \/ x = e
           /\ \A t \in Seq(Nat) : Below(t, s) /\ Under(t, e) => Below(t, Append(s, e))
<1>1. /\ Append(s, e) \in Seq(Nat) /\ Len(Append(s, e)) = Len(s) + 1
      /\ \A i \in 1 .. Len(s) : Append(s, e)[i] = s[i]
      /\ Append(s, e)[Len(s) + 1] = e
  OBVIOUS
<1>2. /\ DOMAIN s = 1 .. Len(s) /\ Len(s) \in Nat /\ DOMAIN Append(s, e) = 1 .. (Len(s) + 1)
      /\ \A i \in DOMAIN s : s[i] \in Nat
  BY <1>1
<1>3. \A i \in DOMAIN Append(s, e) : i \in DOMAIN s \/ i = Len(s) + 1
  BY <1>2
<1>4. Rises(Append(s, e))
  BY <1>1, <1>2, <1>3 DEF Rises, Under
<1>5. Under(Append(s, e), e + 1)
  BY <1>1, <1>2, <1>3 DEF Under
<1>6. \A x : Holds(Append(s, e), x) <=> Holds(s, x) \/ x = e
  BY <1>1, <1>2, <1>3 DEF Holds
<1>7. ASSUME NEW t \in Seq(Nat), Below(t, s), Under(t, e) PROVE Below(t, Append(s, e))
  BY <1>1, <1>2, <1>3, <1>7 DEF Below, Under
<1>8. QED
  BY <1>1, <1>4, <1>5, <1>6, <1>7

\* One file after another.
LEMMA ConcatRises ==
    ASSUME NEW s \in Seq(Nat), NEW t \in Seq(Nat), Rises(s), Rises(t), Below(s, t)
    PROVE  /\ s \o t \in Seq(Nat) /\ Rises(s \o t)
           /\ \A bound : Under(s, bound) /\ Under(t, bound) => Under(s \o t, bound)
           /\ \A x : Holds(s \o t, x) <=> Holds(s, x) \/ Holds(t, x)
           /\ \A u : Below(s, u) /\ Below(t, u) => Below(s \o t, u)
<1>1. /\ s \o t \in Seq(Nat) /\ Len(s \o t) = Len(s) + Len(t)
      /\ \A i \in 1 .. Len(s) : (s \o t)[i] = s[i]
      /\ \A i \in 1 .. Len(t) : (s \o t)[i + Len(s)] = t[i]
  OBVIOUS
<1>2. /\ DOMAIN s = 1 .. Len(s) /\ Len(s) \in Nat /\ DOMAIN t = 1 .. Len(t) /\ Len(t) \in Nat
      /\ DOMAIN (s \o t) = 1 .. (Len(s) + Len(t))
      /\ \A i \in DOMAIN s : s[i] \in Nat
      /\ \A i \in DOMAIN t : t[i] \in Nat
  BY <1>1
<1>3. ASSUME NEW i \in DOMAIN (s \o t)
      PROVE  \/ i \in DOMAIN s /\ (s \o t)[i] = s[i]
             \/ /\ i - Len(s) \in DOMAIN t /\ (s \o t)[i] = t[i - Len(s)]
                /\ i > Len(s)
  <2>1. CASE i <= Len(s)
    BY <1>1, <1>2, <2>1
  <2>2. CASE i > Len(s)
    <3>1. i - Len(s) \in 1 .. Len(t) /\ (i - Len(s)) + Len(s) = i
      BY <1>2, <2>2
    <3>2. QED
      BY <1>1, <1>2, <2>2, <3>1
  <2>3. QED
    BY <1>2, <2>1, <2>2
<1>4. Rises(s \o t)
  <2>1. ASSUME NEW i \in DOMAIN (s \o t), NEW j \in DOMAIN (s \o t), i < j
        PROVE  (s \o t)[i] < (s \o t)[j]
    <3>1. i \in Nat /\ j \in Nat
      BY <1>2
    <3>2. CASE i \in DOMAIN s /\ (s \o t)[i] = s[i]
      <4>1. CASE j \in DOMAIN s /\ (s \o t)[j] = s[j]
        BY <2>1, <3>2, <4>1 DEF Rises
      <4>2. CASE j - Len(s) \in DOMAIN t /\ (s \o t)[j] = t[j - Len(s)]
        BY <3>2, <4>2 DEF Below
      <4>3. QED
        BY <1>3, <4>1, <4>2
    <3>3. CASE i - Len(s) \in DOMAIN t /\ (s \o t)[i] = t[i - Len(s)] /\ i > Len(s)
      <4>1. j - Len(s) \in DOMAIN t /\ (s \o t)[j] = t[j - Len(s)]
        BY <1>2, <1>3, <2>1, <3>1, <3>3
      <4>2. i - Len(s) < j - Len(s)
        BY <1>2, <2>1, <3>1
      <4>3. QED
        BY <3>3, <4>1, <4>2 DEF Rises
    <3>4. QED
      BY <1>3, <3>2, <3>3
  <2>2. QED
    BY <2>1 DEF Rises
<1>5. ASSUME NEW bound, Under(s, bound), Under(t, bound) PROVE Under(s \o t, bound)
  BY <1>3, <1>5 DEF Under
<1>6. ASSUME NEW x PROVE Holds(s \o t, x) <=> Holds(s, x) \/ Holds(t, x)
  <2>1. Holds(s \o t, x) => Holds(s, x) \/ Holds(t, x)
    BY <1>3 DEF Holds
  <2>2. Holds(s, x) => Holds(s \o t, x)
    BY <1>1, <1>2 DEF Holds
  <2>3. ASSUME NEW i \in DOMAIN t, t[i] = x PROVE Holds(s \o t, x)
    <3>1. i + Len(s) \in DOMAIN (s \o t) /\ (s \o t)[i + Len(s)] = x
      BY <1>1, <1>2, <2>3
    <3>2. QED
      BY <3>1 DEF Holds
  <2>4. QED
    BY <2>1, <2>2, <2>3 DEF Holds
<1>7. ASSUME NEW u, Below(s, u), Below(t, u) PROVE Below(s \o t, u)
  BY <1>3, <1>7 DEF Below
<1>8. QED
  BY <1>1, <1>4, <1>5, <1>6, <1>7

----------------------------------------------------------------------------
(* The invariant of the log.                                                *)

\* The file that is written is there while the writer has it open, and a
\* rotation moves files into a gap.
WriterFits ==
    /\ writer.open => Exists(0)
    /\ writer.pc \in {"append", "rotate"} => writer.open
    /\ writer.pc \in {"shift", "open", "dead"} => ~writer.open
    /\ writer.pc \in {"rotate", "shift", "open", "append"} => next <= MaxEntries
    /\ writer.pc = "shift" => writer.number < Keep /\ ~Exists(writer.number + 1)
    /\ \A n \in Numbers : ~Exists(n) => logs[n] = NoFile
    /\ \A e \in acked : e < next
    /\ \A r \in Readers :
         /\ reader[r].from < next
         /\ reader[r].pc = "stat" => reader[r].number >= 1
         /\ reader[r].pc = "read" => reader[r].number <= Keep

\* An older file has older entries.
FilesOrdered ==
    /\ \A n \in Numbers : Rises(logs[n].entries) /\ Under(logs[n].entries, next)
    /\ \A m, n \in Numbers : m < n => Below(logs[n].entries, logs[m].entries)

\* What a reader has found is older than what it has still to read.
ReadersOrdered ==
    \A r \in Readers :
        /\ Rises(reader[r].found) /\ Under(reader[r].found, next)
        /\ reader[r].pc \in {"idle", "stat"} => reader[r].found = <<>>
        /\ reader[r].pc = "read" =>
             \A n \in 0 .. reader[r].number : Below(reader[r].found, logs[n].entries)

\* In a rotation: the number that no file has for the moment, and the files
\* that have their new number.
Hole(n) == (writer.pc = "shift" /\ n = writer.number + 1) \/ (writer.pc = "open" /\ n = 0)
Moved(n) == writer.pc = "shift" /\ n > writer.number + 1

\* The files up to the oldest are there.
Gapless == \A m, n \in Numbers : m < n /\ Exists(n) /\ ~Hole(m) => Exists(m)

\* An entry in a rotated file has as many writes after it as the newer files
\* have room for.
Room(n) == next - (n - 1) * MaxLines - (IF Moved(n) THEN 0 ELSE logs[0].lines)
Spaced ==
    /\ writer.pc \in {"rotate", "shift"} => logs[0].lines >= MaxLines
    /\ \A n \in 1 .. Keep : Under(logs[n].entries, Room(n))

\* An entry that a read may not miss is in a file, and a reader whom no
\* rotation has disturbed has it or comes by.
Owed(e) == e \in acked \ hurt /\ next - e <= Keep * MaxLines
OwedKept == \A e \in acked : Owed(e) => \E n \in Numbers : Holds(logs[n].entries, e)
ReadersComplete ==
    \A r \in Readers :
        LET x == reader[r] IN
        ~x.disturbed =>
            /\ x.pc \in {"stat", "read"} => writer.pc \notin {"shift", "open"}
            /\ x.pc = "read" => \A e \in acked : Owed(e) /\ e <= x.from =>
                  Holds(x.found, e) \/ \E n \in 0 .. x.number : Holds(logs[n].entries, e)
            /\ x.pc = "done" => \A e \in acked : Owed(e) /\ e <= x.from => Holds(x.found, e)

Whole == ~cut => Gapless /\ Spaced /\ OwedKept /\ ReadersComplete

LogInv == LogTypeOK /\ WriterFits /\ FilesOrdered /\ ReadersOrdered /\ Whole

----------------------------------------------------------------------------
USE LogBounds

\* The types, one by one.
LEMMA LogTypes ==
    ASSUME LogTypeOK
    PROVE  /\ \A n \in Numbers : /\ logs[n] \in File /\ logs[n].entries \in Seq(Nat)
                                 /\ logs[n].lines \in Nat
           /\ \A r \in Readers : /\ reader[r] \in Reader /\ reader[r].found \in Seq(Nat)
                                 /\ reader[r].number \in 0 .. (Keep + 1) /\ reader[r].from \in Nat
           /\ next \in Nat /\ Numbers = 0 .. Keep
           /\ \A e \in acked : e \in Nat
           /\ writer \in Writer /\ writer.number \in Numbers
<1>1. \A s \in Seq(1 .. MaxEntries) : s \in Seq(Nat)
  OBVIOUS
<1>2. ASSUME NEW n \in Numbers
      PROVE  logs[n] \in File /\ logs[n].entries \in Seq(Nat) /\ logs[n].lines \in Nat
  BY <1>1 DEF LogTypeOK, File
<1>3. ASSUME NEW r \in Readers
      PROVE  /\ reader[r] \in Reader /\ reader[r].found \in Seq(Nat)
             /\ reader[r].number \in 0 .. (Keep + 1) /\ reader[r].from \in Nat
  BY <1>1 DEF LogTypeOK, Reader
<1>4. QED
  BY <1>2, <1>3 DEF LogTypeOK, Numbers, Writer

\* The two files without lines.
LEMMA FileTypes ==
    /\ NoFile \in File /\ NoFile.entries = <<>> /\ NoFile.lines = 0 /\ ~NoFile.there
    /\ NewFile \in File /\ NewFile.entries = <<>> /\ NewFile.lines = 0 /\ NewFile.there
<1>1. <<>> \in Seq(1 .. MaxEntries)
  OBVIOUS
<1>2. NoFile \in File /\ NoFile.entries = <<>> /\ NoFile.lines = 0 /\ ~NoFile.there
  BY <1>1 DEF NoFile, File
<1>3. NewFile \in File /\ NewFile.entries = <<>> /\ NewFile.lines = 0 /\ NewFile.there
  BY <1>1 DEF NewFile, NoFile, File
<1>4. QED
  BY <1>2, <1>3

\* The readers keep what they have.
ReadersStay ==
    /\ reader' \in [Readers -> Reader]
    /\ \A r \in Readers :
         /\ reader'[r].pc = reader[r].pc /\ reader'[r].number = reader[r].number
         /\ reader'[r].found = reader[r].found /\ reader'[r].from = reader[r].from
         /\ reader[r].disturbed => reader'[r].disturbed

\* Readers that do nothing, and readers that a rotation disturbs.
LEMMA IdleReaders == ASSUME LogTypeOK, UNCHANGED reader PROVE ReadersStay
BY DEF LogTypeOK, ReadersStay

LEMMA DisturbedReaders ==
    ASSUME LogTypeOK, Disturbed
    PROVE  /\ ReadersStay
           /\ \A r \in Readers : reader'[r].pc \in {"stat", "read"} => reader'[r].disturbed
<1>1. ASSUME NEW r \in Readers
      PROVE  /\ reader'[r] \in Reader
             /\ reader'[r].pc = reader[r].pc /\ reader'[r].number = reader[r].number
             /\ reader'[r].found = reader[r].found /\ reader'[r].from = reader[r].from
             /\ reader[r].disturbed => reader'[r].disturbed
             /\ reader'[r].pc \in {"stat", "read"} => reader'[r].disturbed
  <2>1. reader[r] \in Reader
    BY DEF LogTypeOK
  <2>2. CASE reader[r].pc \in {"stat", "read"}
    <3>1. reader'[r] = [reader[r] EXCEPT !.disturbed = TRUE]
      BY <2>2 DEF Disturbed
    <3>2. QED
      BY <2>1, <3>1 DEF Reader
  <2>3. CASE reader[r].pc \notin {"stat", "read"}
    <3>1. reader'[r] = reader[r]
      BY <2>3 DEF Disturbed
    <3>2. QED
      BY <2>1, <2>3, <3>1
  <2>4. QED
    BY <2>2, <2>3
<1>2. reader' \in [Readers -> Reader]
  <2>1. reader' = [r \in Readers |-> reader'[r]]
    BY DEF Disturbed
  <2>2. QED
    BY <1>1, <2>1
<1>3. QED
  BY <1>1, <1>2 DEF ReadersStay

\* A step that renumbers files in their order, never to a newer number.
LEMMA OrderCarries ==
    ASSUME LogTypeOK, LogTypeOK', WriterFits, FilesOrdered, ReadersOrdered, ReadersStay,
           next' >= next, NEW g \in [Numbers -> Numbers],
           \A n \in Numbers :
             \/ logs'[n].entries = <<>>
             \/ g[n] <= n /\ logs'[n].entries = logs[g[n]].entries,
           \A m, n \in Numbers :
             m < n /\ logs'[m].entries # <<>> /\ logs'[n].entries # <<>> => g[m] < g[n]
    PROVE  FilesOrdered' /\ ReadersOrdered'
<1>1. next \in Int /\ next' \in Int
  BY DEF LogTypeOK
<1>2. ASSUME NEW n \in Numbers
      PROVE  Rises(logs'[n].entries) /\ Under(logs'[n].entries, next')
  <2>1. CASE logs'[n].entries = <<>>
    BY <2>1, NoEntries
  <2>2. CASE logs'[n].entries = logs[g[n]].entries
    <3>1. Rises(logs[g[n]].entries) /\ Under(logs[g[n]].entries, next)
      BY DEF FilesOrdered
    <3>2. logs[g[n]].entries \in Seq(Nat)
      BY LogTypes
    <3>3. QED
      BY <1>1, <2>2, <3>1, <3>2, UnderMore
  <2>3. QED
    BY <2>1, <2>2
<1>3. ASSUME NEW m \in Numbers, NEW n \in Numbers, m < n
      PROVE  Below(logs'[n].entries, logs'[m].entries)
  <2>1. CASE logs'[m].entries = <<>> \/ logs'[n].entries = <<>>
    BY <2>1, NoEntries
  <2>2. CASE logs'[m].entries # <<>> /\ logs'[n].entries # <<>>
    BY <1>3, <2>2 DEF FilesOrdered
  <2>3. QED
    BY <2>1, <2>2
<1>4. ASSUME NEW r \in Readers
      PROVE  /\ Rises(reader'[r].found) /\ Under(reader'[r].found, next')
             /\ reader'[r].pc \in {"idle", "stat"} => reader'[r].found = <<>>
             /\ reader'[r].pc = "read" =>
                  \A n \in 0 .. reader'[r].number : Below(reader'[r].found, logs'[n].entries)
  <2>1. reader'[r].found = reader[r].found /\ reader'[r].pc = reader[r].pc
        /\ reader'[r].number = reader[r].number
    BY DEF ReadersStay
  <2>2. reader[r].found \in Seq(Nat) /\ Rises(reader[r].found) /\ Under(reader[r].found, next)
    BY LogTypes DEF ReadersOrdered
  <2>3. Under(reader[r].found, next')
    BY <1>1, <2>2, UnderMore
  <2>4. ASSUME reader[r].pc = "read", NEW n \in 0 .. reader[r].number
        PROVE  Below(reader[r].found, logs'[n].entries)
    <3>1. n \in Numbers
      BY <2>4, LogTypes DEF WriterFits
    <3>2. CASE logs'[n].entries = <<>>
      BY <3>2, NoEntries
    <3>3. CASE g[n] <= n /\ logs'[n].entries = logs[g[n]].entries
      <4>1. reader[r].number \in 0 .. (Keep + 1) /\ g[n] \in Numbers /\ Numbers = 0 .. Keep
        BY <3>1, LogTypes
      <4>2. QED
        <5>1. g[n] \in 0 .. reader[r].number
          <6>1. PICK k, l : k = g[n] /\ l = reader[r].number
            OBVIOUS
          <6>2. k \in Nat /\ l \in Nat /\ n <= l /\ k <= n /\ n \in Nat
            BY <2>4, <3>3, <4>1, <6>1
          <6>3. QED
            BY <6>1, <6>2
        <5>2. QED
          BY <2>4, <3>3, <5>1 DEF ReadersOrdered
    <3>4. QED
      BY <3>1, <3>2, <3>3
  <2>5. QED
    BY <2>1, <2>2, <2>3, <2>4 DEF ReadersOrdered
<1>5. FilesOrdered'
  BY <1>2, <1>3 DEF FilesOrdered
<1>6. ReadersOrdered'
  BY <1>4 DEF ReadersOrdered
<1>7. QED
  BY <1>5, <1>6

\* A step that leaves every entry in its file.
LEMMA OrderStays ==
    ASSUME LogTypeOK, LogTypeOK', WriterFits, FilesOrdered, ReadersOrdered, ReadersStay,
           next' >= next,
           \A n \in Numbers : logs'[n].entries = logs[n].entries \/ logs'[n].entries = <<>>
    PROVE  FilesOrdered' /\ ReadersOrdered'
<1>1. PICK g : g = [n \in Numbers |-> n]
  OBVIOUS
<1>2. g \in [Numbers -> Numbers] /\ \A n \in Numbers : g[n] = n /\ g[n] <= n
  BY <1>1, LogTypes
<1>3. QED
  BY <1>2, OrderCarries

\* A step that leaves every entry in its file, and adds no line without a
\* write.
LEMMA WholeStays ==
    ASSUME LogInv, LogTypeOK', ReadersStay,
           \A n \in Numbers : logs'[n].entries = logs[n].entries,
           \A n \in 1 .. Keep : logs'[n].there = logs[n].there,
           logs[0].there => logs'[0].there,
           ~cut' => ~cut /\ writer.pc # "shift" /\ (writer.pc = "open" => logs'[0].there),
           writer'.pc \notin {"shift", "open"},
           writer'.pc = "rotate" => logs'[0].lines >= MaxLines,
           next' - logs'[0].lines >= next - logs[0].lines, next' >= next,
           acked' \subseteq acked, acked' \ hurt' \subseteq acked \ hurt
    PROVE  Whole'
<1> SUFFICES ASSUME ~cut' PROVE Gapless' /\ Spaced' /\ OwedKept' /\ ReadersComplete'
  BY DEF Whole
<1>1. Gapless /\ Spaced /\ OwedKept /\ ReadersComplete /\ writer.pc # "shift"
      /\ (writer.pc = "open" => logs'[0].there)
  BY DEF LogInv, Whole
<1>2. /\ next \in Int /\ next' \in Int /\ Numbers = 0 .. Keep /\ Keep \in Nat
      /\ logs[0].lines \in Nat /\ logs'[0].lines \in Nat /\ 0 \in Numbers
      /\ \A n \in Numbers : logs[n].entries \in Seq(Nat)
  <2>1. /\ next \in Int /\ Numbers = 0 .. Keep
        /\ \A n \in Numbers : logs[n].lines \in Nat /\ logs[n].entries \in Seq(Nat)
    BY LogTypes DEF LogInv
  <2>2. next' \in Int /\ \A n \in Numbers : logs'[n].lines \in Nat
    BY DEF LogTypeOK, File
  <2>3. QED
    BY <2>1, <2>2
<1>3. Gapless'
  <2>1. ASSUME NEW m \in Numbers, NEW n \in Numbers, m < n, logs'[n].there PROVE logs'[m].there
    <3>1. n \in 1 .. Keep /\ logs[n].there
      BY <1>2, <2>1
    <3>2. CASE m = 0 /\ writer.pc = "open"
      BY <1>1, <3>2
    <3>3. CASE ~(m = 0 /\ writer.pc = "open")
      <4>1. logs[m].there
        BY <1>1, <2>1, <3>1, <3>3 DEF Gapless, Exists, Hole
      <4>2. m = 0 \/ m \in 1 .. Keep
        BY <1>2
      <4>3. QED
        BY <4>1, <4>2
    <3>4. QED
      BY <3>2, <3>3
  <2>2. QED
    BY <2>1 DEF Gapless, Exists
<1>4. Spaced'
  <2>1. ASSUME NEW n \in 1 .. Keep PROVE Under(logs'[n].entries, Room(n)')
    <3>1. PICK k : k = (n - 1) * MaxLines
      OBVIOUS
    <3>2. k \in Int /\ n \in Numbers
      BY <1>2, <3>1
    <3>3. Room(n) = next - k - logs[0].lines
      BY <1>1, <3>1 DEF Room, Moved
    <3>4. Room(n)' = next' - k - logs'[0].lines
      BY <3>1 DEF Room, Moved
    <3>5. Room(n) \in Int /\ Room(n)' \in Int /\ Room(n) <= Room(n)'
      BY SMTT(60), <1>2, <3>2, <3>3, <3>4
    <3>6. Under(logs[n].entries, Room(n))
      BY <1>1 DEF Spaced
    <3>7. QED
      BY <1>2, <3>2, <3>5, <3>6, UnderMore
  <2>2. QED
    BY <2>1 DEF Spaced
<1>5. \A e \in acked' : e \in acked /\ (Owed(e)' => Owed(e))
  <2>1. ASSUME NEW e \in acked', Owed(e)' PROVE Owed(e)
    <3>1. e \in Nat /\ e \in acked \ hurt /\ next' - e <= Keep * MaxLines
      BY <2>1, LogTypes DEF Owed, LogInv
    <3>2. QED
      BY <1>2, <3>1 DEF Owed
  <2>2. QED
    BY <2>1
<1>6. OwedKept'
  BY <1>1, <1>5 DEF OwedKept
<1>7. ASSUME NEW r \in Readers, ~reader'[r].disturbed
      PROVE  /\ reader'[r].pc = "read" =>
                  \A e \in acked' : Owed(e)' /\ e <= reader'[r].from =>
                     Holds(reader'[r].found, e)
                       \/ \E n \in 0 .. reader'[r].number : Holds(logs'[n].entries, e)
             /\ reader'[r].pc = "done" =>
                  \A e \in acked' : Owed(e)' /\ e <= reader'[r].from => Holds(reader'[r].found, e)
  <2>1. /\ reader'[r].pc = reader[r].pc /\ reader'[r].number = reader[r].number
        /\ reader'[r].found = reader[r].found /\ reader'[r].from = reader[r].from
        /\ ~reader[r].disturbed
    BY <1>7 DEF ReadersStay
  <2>2. reader[r].pc = "read" => \A n \in 0 .. reader[r].number : n \in Numbers
    <3>1. ASSUME reader[r].pc = "read", NEW n \in 0 .. reader[r].number PROVE n \in Numbers
      BY <3>1, LogTypes DEF LogInv, WriterFits
    <3>2. QED
      BY <3>1
  <2>3. QED
    BY <1>1, <1>5, <2>1, <2>2 DEF ReadersComplete
<1>8. ReadersComplete'
  BY <1>7 DEF ReadersComplete
<1>9. QED
  BY <1>3, <1>4, <1>6, <1>8

----------------------------------------------------------------------------
(* The steps of the writer.                                                 *)

\* An empty log.
LEMMA LogInitInv == LogInit => LogInv
<1> SUFFICES ASSUME LogInit PROVE LogInv
  OBVIOUS
<1>1. <<>> \in Seq(1 .. MaxEntries) /\ 0 \in Numbers /\ NoReader \in Reader
  BY DEF NoReader, Reader, Numbers
<1>2. logs \in [Numbers -> File] /\ logs[0] = NewFile
      /\ \A n \in Numbers : logs[n].entries = <<>> /\ (n # 0 => logs[n] = NoFile)
  BY <1>1, FileTypes DEF LogInit
<1>3. LogTypeOK
  <2>1. writer \in Writer
    BY <1>1 DEF LogInit, Writer
  <2>2. reader \in [Readers -> Reader]
    BY <1>1 DEF LogInit
  <2>3. next \in 1 .. (MaxEntries + 1) /\ faults \in 0 .. MaxFaults
    BY DEF LogInit
  <2>4. QED
    BY <1>2, <2>1, <2>2, <2>3 DEF LogInit, LogTypeOK
<1>4. \A r \in Readers : reader[r].pc = "idle" /\ reader[r].from = 0 /\ reader[r].found = <<>>
  BY DEF LogInit, NoReader
<1>5. WriterFits
  BY <1>2, <1>4, FileTypes DEF LogInit, WriterFits, Exists
<1>6. FilesOrdered /\ ReadersOrdered
  BY <1>2, <1>4, NoEntries DEF FilesOrdered, ReadersOrdered
<1>7. Whole
  <2>1. Numbers = 0 .. Keep
    BY DEF Numbers
  <2>2. Gapless
    BY <1>2, <2>1, FileTypes DEF Gapless, Exists
  <2>3. Spaced
    BY SMTT(60), <1>2, <2>1, NoEntries DEF Spaced, LogInit
  <2>4. OwedKept /\ ReadersComplete
    BY <1>4 DEF OwedKept, ReadersComplete, LogInit
  <2>5. QED
    BY <2>2, <2>3, <2>4 DEF Whole
<1>8. QED
  BY <1>3, <1>5, <1>6, <1>7 DEF LogInv

\* A write that begins, or finds no file.
LEMMA WriteKeeps == ASSUME LogInv, Write PROVE LogInv'
<1>1. UNCHANGED <<logs, reader, faults, acked, hurt, cut>> /\ writer.pc = "idle"
  BY DEF Write, Writing
<1>2. /\ next \in 1 .. MaxEntries /\ writer \in Writer /\ logs[0].lines \in Nat
      /\ Exists(0) \/ ~writer.open
  BY LogTypes DEF LogInv, LogTypeOK, Write, WriterFits, Numbers
<1>3. /\ next' \in {next, next + 1} /\ writer' \in Writer /\ writer'.open = writer.open
      /\ writer'.number = writer.number
      /\ writer'.pc \in {"idle", "rotate", "append"}
      /\ writer'.pc \in {"rotate", "append"} => writer.open /\ next' = next
      /\ writer'.pc = "rotate" => logs[0].lines >= MaxLines
  BY <1>1, <1>2 DEF Write, Writer
<1>4. LogTypeOK'
  BY <1>1, <1>2, <1>3 DEF LogInv, LogTypeOK
<1>5. ReadersStay
  BY <1>1, IdleReaders DEF LogInv
<1>6. WriterFits'
  <2>1. \A e \in acked : e \in Nat
    BY LogTypes DEF LogInv
  <2>2. \A r \in Readers : reader[r].from \in Nat
    BY LogTypes DEF LogInv
  <2>3. QED
    BY <1>1, <1>2, <1>3, <2>1, <2>2 DEF LogInv, WriterFits, Exists
<1>7. FilesOrdered' /\ ReadersOrdered'
  BY <1>1, <1>2, <1>3, <1>4, <1>5, OrderStays DEF LogInv
<1>8. Whole'
  <2>1. next' >= next /\ next' - logs'[0].lines >= next - logs[0].lines
    BY <1>1, <1>2, <1>3
  <2>2. QED
    BY <1>1, <1>2, <1>3, <1>4, <1>5, <2>1, WholeStays
<1>9. QED
  BY <1>4, <1>6, <1>7, <1>8 DEF LogInv

\* What is removed has had its time.
LEMMA RemoveOldestKeeps == ASSUME LogInv, RemoveOldest PROVE LogInv'
<1>1. /\ UNCHANGED <<next, acked, hurt>> /\ Disturbed /\ writer.pc = "rotate" /\ writer \in Writer
      /\ Numbers = 0 .. Keep /\ Keep \in Numbers /\ Keep - 1 \in Numbers
      /\ logs \in [Numbers -> File]
  BY DEF RemoveOldest, Writing, LogInv, LogTypeOK, Numbers
<1>2. ReadersStay /\ \A r \in Readers : reader'[r].pc \in {"stat", "read"} => reader'[r].disturbed
  BY <1>1, DisturbedReaders DEF LogInv
<1>3. \/ /\ logs' = [logs EXCEPT ![Keep] = NoFile] /\ UNCHANGED <<faults, cut>>
         /\ writer' = [writer EXCEPT !.pc = "shift", !.number = Keep - 1, !.open = FALSE]
      \/ /\ UNCHANGED logs /\ cut' = TRUE /\ faults' \in 0 .. MaxFaults
         /\ writer' = [writer EXCEPT !.pc = "open", !.open = FALSE]
  BY DEF RemoveOldest, Fault, LogInv, LogTypeOK
<1>4. writer' \in Writer /\ ~writer'.open
      /\ \/ writer'.pc = "shift" /\ writer'.number = Keep - 1
         \/ writer'.pc = "open"
  BY <1>1, <1>3 DEF Writer
<1>5. logs' \in [Numbers -> File] /\ \A n \in Numbers : logs'[n] = logs[n] \/ (n = Keep /\ logs'[n] = NoFile)
  BY <1>1, <1>3, FileTypes
<1>6. LogTypeOK'
  BY <1>1, <1>2, <1>3, <1>4, <1>5 DEF LogInv, LogTypeOK, ReadersStay
<1>7. WriterFits'
  <2>1. writer'.pc = "shift" => ~logs'[Keep].there
    BY <1>1, <1>3, <1>4, FileTypes DEF Writer
  <2>2. \A n \in Numbers : ~logs'[n].there => logs'[n] = NoFile
    BY <1>5 DEF LogInv, WriterFits, Exists
  <2>3. QED
    BY <1>1, <1>2, <1>4, <2>1, <2>2 DEF LogInv, WriterFits, Exists, ReadersStay
<1>8. FilesOrdered' /\ ReadersOrdered'
  <2>1. next' >= next
    BY <1>1 DEF LogInv, LogTypeOK
  <2>2. QED
    BY <1>2, <1>5, <1>6, <2>1, OrderStays, FileTypes DEF LogInv
<1>9. Whole'
  <2> SUFFICES ASSUME ~cut' PROVE Gapless' /\ Spaced' /\ OwedKept' /\ ReadersComplete'
    BY DEF Whole
  <2>1. ~cut /\ Gapless /\ Spaced /\ OwedKept /\ ReadersComplete /\ writer'.pc = "shift"
        /\ writer'.number = Keep - 1 /\ logs' = [logs EXCEPT ![Keep] = NoFile]
    <3>1. /\ logs' = [logs EXCEPT ![Keep] = NoFile] /\ cut' = cut
          /\ writer' = [writer EXCEPT !.pc = "shift", !.number = Keep - 1, !.open = FALSE]
      BY <1>3
    <3>2. writer'.pc = "shift" /\ writer'.number = Keep - 1
      BY <1>1, <3>1 DEF Writer
    <3>3. QED
      BY <3>1, <3>2 DEF LogInv, Whole
  <2>2. \A n \in Numbers : n # Keep => logs'[n] = logs[n]
    BY <1>1, <2>1
  <2>3. logs'[Keep] = NoFile /\ 0 # Keep /\ logs'[0] = logs[0] /\ logs[0].lines >= MaxLines
    BY <1>1, <2>1, <2>2 DEF Spaced
  <2>4. Gapless'
    BY <1>1, <2>1, <2>2, <2>3, FileTypes DEF Gapless, Exists, Hole
  <2>5. Spaced'
    <3>1. ASSUME NEW n \in 1 .. Keep PROVE Under(logs'[n].entries, Room(n)')
      <4>1. CASE n = Keep
        BY <2>3, <4>1, NoEntries, FileTypes
      <4>2. CASE n # Keep
        <5>1. Room(n)' = Room(n)
          BY <1>1, <2>1, <2>3, <4>2 DEF Room, Moved
        <5>2. QED
          BY <1>1, <2>1, <2>2, <4>2, <5>1 DEF Spaced
      <4>3. QED
        BY <4>1, <4>2
    <3>2. QED
      BY <2>3, <3>1 DEF Spaced
  <2>6. OwedKept'
    <3>1. ASSUME NEW e \in acked, Owed(e), Holds(logs[Keep].entries, e) PROVE FALSE
      <4>1. Under(logs[Keep].entries, Room(Keep))
        BY <1>1, <2>1 DEF Spaced
      <4>2. e < Room(Keep)
        BY <3>1, <4>1 DEF Holds, Under
      <4>3. Room(Keep) = next - (Keep - 1) * MaxLines - logs[0].lines
        BY <1>1 DEF Room, Moved
      <4>4. next \in Int /\ e \in Int /\ logs[0].lines \in Int
        BY <1>1, LogTypes DEF LogInv
      <4>5. PICK k : k = (Keep - 1) * MaxLines
        OBVIOUS
      <4>6. k \in Int /\ Keep * MaxLines = k + MaxLines
        BY <4>5
      <4>7. next - e <= Keep * MaxLines
        BY <3>1 DEF Owed
      <4>8. QED
        BY <2>3, <4>2, <4>3, <4>4, <4>5, <4>6, <4>7
    <3>2. \A e : Owed(e)' <=> Owed(e)
      BY <1>1 DEF Owed
    <3>3. QED
      BY <1>1, <2>1, <2>2, <3>1, <3>2 DEF OwedKept
  <2>7. ReadersComplete'
    <3>1. \A e : Owed(e)' <=> Owed(e)
      BY <1>1 DEF Owed
    <3>2. QED
      BY <1>1, <1>2, <2>1, <3>1 DEF ReadersComplete, ReadersStay
  <2>8. QED
    BY <2>4, <2>5, <2>6, <2>7
<1>10. QED
  BY <1>6, <1>7, <1>8, <1>9 DEF LogInv

\* A rotation moves the gap down.
LEMMA ShiftKeeps == ASSUME LogInv, Shift PROVE LogInv'
<1>1. PICK k : k = writer.number
  OBVIOUS
<1>2. /\ UNCHANGED <<next, acked, hurt>> /\ Disturbed /\ writer.pc = "shift" /\ writer \in Writer
      /\ Numbers = 0 .. Keep /\ k \in Numbers /\ k + 1 \in Numbers
      /\ logs \in [Numbers -> File] /\ logs[k + 1] = NoFile
  BY <1>1 DEF Shift, Writing, LogInv, LogTypeOK, WriterFits, Exists, Numbers, Writer
<1>3. ReadersStay /\ \A r \in Readers : reader'[r].pc \in {"stat", "read"} => reader'[r].disturbed
  BY <1>2, DisturbedReaders DEF LogInv
<1>4. \/ /\ logs' = IF Exists(k) THEN [logs EXCEPT ![k + 1] = logs[k], ![k] = NoFile] ELSE logs
         /\ writer' = [writer EXCEPT !.pc = IF k = 0 THEN "open" ELSE "shift",
                                     !.number = IF k = 0 THEN 0 ELSE k - 1]
         /\ UNCHANGED <<faults, cut>>
      \/ /\ UNCHANGED logs /\ cut' = TRUE /\ faults' \in 0 .. MaxFaults
         /\ writer' = [writer EXCEPT !.pc = "open", !.number = 0]
  BY <1>1 DEF Shift, Fault, LogInv, LogTypeOK
<1>5. \/ /\ logs'[k + 1] = logs[k] /\ logs'[k] = NoFile /\ logs' \in [Numbers -> File]
         /\ \A n \in Numbers : n \notin {k, k + 1} => logs'[n] = logs[n]
      \/ UNCHANGED logs
  <2>1. CASE logs' = [logs EXCEPT ![k + 1] = logs[k], ![k] = NoFile]
    BY <1>2, <2>1, FileTypes
  <2>2. QED
    BY <1>4, <2>1
<1>6. /\ writer' \in Writer /\ writer'.open = writer.open
      /\ \/ k # 0 /\ writer'.pc = "shift" /\ writer'.number = k - 1 /\ UNCHANGED <<faults, cut>>
         \/ writer'.pc = "open"
  <2>1. 0 \in Numbers /\ (k # 0 => k - 1 \in Numbers)
    BY <1>2
  <2>2. CASE k # 0 /\ writer' = [writer EXCEPT !.pc = "shift", !.number = k - 1]
             /\ UNCHANGED <<faults, cut>>
    BY <1>2, <2>1, <2>2 DEF Writer
  <2>3. CASE writer' = [writer EXCEPT !.pc = "open", !.number = 0]
    BY <1>2, <2>1, <2>3 DEF Writer
  <2>4. QED
    BY <1>4, <2>2, <2>3
<1>7. LogTypeOK'
  BY <1>2, <1>3, <1>4, <1>5, <1>6 DEF LogInv, LogTypeOK, ReadersStay
<1>8. ~logs[k].there => logs[k] = NoFile
  BY <1>2 DEF LogInv, WriterFits, Exists
<1>9. writer'.pc = "shift" => logs'[k] = NoFile
  <2>1. CASE logs' = IF Exists(k) THEN [logs EXCEPT ![k + 1] = logs[k], ![k] = NoFile] ELSE logs
    <3>1. CASE Exists(k)
      BY <1>2, <2>1, <3>1
    <3>2. CASE ~Exists(k)
      BY <1>8, <2>1, <3>2 DEF Exists
    <3>3. QED
      BY <3>1, <3>2
  <2>2. CASE writer' = [writer EXCEPT !.pc = "open", !.number = 0]
    BY <1>2, <2>2 DEF Writer
  <2>3. QED
    BY <1>4, <2>1, <2>2
<1>10. WriterFits'
  <2>1. \A n \in Numbers : ~logs'[n].there => logs'[n] = NoFile
    BY <1>2, <1>5 DEF LogInv, WriterFits, Exists
  <2>2. ~writer.open
    BY <1>2 DEF LogInv, WriterFits
  <2>3. QED
    <3>1. writer'.pc = "shift" => writer'.number < Keep /\ ~logs'[writer'.number + 1].there
      BY <1>2, <1>6, <1>9, FileTypes
    <3>2. writer'.pc \in {"shift", "open"} /\ ~writer'.open
      BY <1>6, <2>2
    <3>3. QED
      BY <1>2, <1>3, <2>1, <3>1, <3>2 DEF LogInv, WriterFits, Exists, ReadersStay
<1>11. FilesOrdered' /\ ReadersOrdered'
  <2>1. next' >= next
    BY <1>2 DEF LogInv, LogTypeOK
  <2>2. CASE UNCHANGED logs
    BY <1>3, <1>7, <2>1, <2>2, OrderStays DEF LogInv
  <2>3. CASE /\ logs'[k + 1] = logs[k] /\ logs'[k] = NoFile
             /\ \A n \in Numbers : n \notin {k, k + 1} => logs'[n] = logs[n]
    <3>1. PICK g : g = [n \in Numbers |-> IF n = k + 1 THEN k ELSE n]
      OBVIOUS
    <3>2. g \in [Numbers -> Numbers] /\ \A n \in Numbers : g[n] = IF n = k + 1 THEN k ELSE n
      BY <1>2, <3>1
    <3>3. \A n \in Numbers :
             \/ logs'[n].entries = <<>>
             \/ g[n] <= n /\ logs'[n].entries = logs[g[n]].entries
      BY <1>2, <2>3, <3>2, FileTypes
    <3>4. \A m, n \in Numbers :
             m < n /\ logs'[m].entries # <<>> /\ logs'[n].entries # <<>> => g[m] < g[n]
      <4>1. ASSUME NEW m \in Numbers, NEW n \in Numbers, m < n,
                   logs'[m].entries # <<>>, logs'[n].entries # <<>>
            PROVE  g[m] < g[n]
        <5>1. m # k /\ n # k
          BY <2>3, <4>1, FileTypes
        <5>2. g[m] = (IF m = k + 1 THEN k ELSE m) /\ g[n] = (IF n = k + 1 THEN k ELSE n)
          BY <3>2
        <5>3. m \in Int /\ n \in Int /\ k \in Int
          BY <1>2
        <5>4. QED
          BY <4>1, <5>1, <5>2, <5>3
      <4>2. QED
        BY <4>1
    <3>5. QED
      BY <1>3, <1>7, <2>1, <3>2, <3>3, <3>4, OrderCarries DEF LogInv
  <2>4. QED
    BY <1>5, <2>2, <2>3
<1>12. Whole'
  <2> SUFFICES ASSUME ~cut' PROVE Gapless' /\ Spaced' /\ OwedKept' /\ ReadersComplete'
    BY DEF Whole
  <2>1. ~cut /\ Gapless /\ Spaced /\ OwedKept /\ ReadersComplete
    BY <1>4 DEF LogInv, Whole
  <2>2. logs[0].lines >= MaxLines /\ \A n \in Numbers : logs[n].entries \in Seq(Nat)
        /\ next \in Int /\ logs[n].lines \in Nat
    BY <1>2, <2>1, LogTypes DEF LogInv, Spaced
  <2>3. /\ logs'[k + 1] = logs[k] /\ logs'[k] = NoFile
        /\ \A n \in Numbers : n \notin {k, k + 1} => logs'[n] = logs[n]
    <3>1. CASE Exists(k)
      BY <1>2, <1>4, <3>1
    <3>2. CASE ~Exists(k)
      BY <1>2, <1>4, <1>8, <3>2 DEF Exists
    <3>3. QED
      BY <3>1, <3>2
  <2>4. /\ \A n \in Numbers : Hole(n) <=> n = k + 1
        /\ \A n \in Numbers : Hole(n)' <=> n = k
        /\ \A n \in Numbers : Moved(n) <=> n > k + 1
        /\ k # 0 => \A n \in Numbers : Moved(n)' <=> n > k
        /\ k = 0 => \A n \in Numbers : ~Moved(n)'
        /\ k = 0 => logs'[0].lines = 0
        /\ k # 0 => logs'[0] = logs[0]
    <3>1. \/ k = 0 /\ writer'.pc = "open"
          \/ k # 0 /\ writer'.pc = "shift" /\ writer'.number = k - 1
      <4>1. writer' = [writer EXCEPT !.pc = IF k = 0 THEN "open" ELSE "shift",
                                     !.number = IF k = 0 THEN 0 ELSE k - 1]
        BY <1>4
      <4>2. CASE k = 0
        BY <1>2, <4>1, <4>2 DEF Writer
      <4>3. CASE k # 0
        BY <1>2, <4>1, <4>3 DEF Writer
      <4>4. QED
        BY <4>2, <4>3
    <3>2. 0 \in Numbers
      BY <1>2
    <3>3. QED
      BY <1>1, <1>2, <2>3, <3>1, <3>2, FileTypes DEF Hole, Moved
  <2>5. Gapless'
    <3>1. ASSUME NEW m \in Numbers, NEW n \in Numbers, m < n, logs'[n].there, m # k
          PROVE  logs'[m].there
      <4>1. CASE n = k + 1
        BY <1>2, <2>1, <2>3, <2>4, <3>1, <4>1 DEF Gapless, Exists
      <4>2. CASE n # k + 1 /\ m = k + 1
        <5>1. logs[n].there
          BY <1>2, <2>3, <3>1, <4>2
        <5>2. k < n /\ ~Hole(k)
          BY <1>2, <2>4, <3>1, <4>2
        <5>3. logs[k].there
          BY <1>2, <2>1, <5>1, <5>2 DEF Gapless, Exists
        <5>4. QED
          BY <2>3, <4>2, <5>3
      <4>3. CASE n # k + 1 /\ m # k + 1
        <5>1. logs[n].there
          BY <2>3, <3>1, <4>3, FileTypes
        <5>2. QED
          BY <1>2, <2>1, <2>3, <2>4, <3>1, <4>3, <5>1 DEF Gapless, Exists
      <4>4. QED
        BY <4>1, <4>2, <4>3
    <3>2. QED
      BY <2>4, <3>1 DEF Gapless, Exists
  <2>6. Spaced'
    <3>1. ASSUME NEW n \in 1 .. Keep PROVE Under(logs'[n].entries, Room(n)')
      <4>1. PICK a, b : a = (n - 1) * MaxLines /\ b = (n - 2) * MaxLines
        OBVIOUS
      <4>2. a \in Int /\ b \in Int /\ a = b + MaxLines /\ MaxLines \in Nat /\ n \in Numbers
        BY <1>2, <4>1
      <4>3. Room(n) = next - a - (IF n > k + 1 THEN 0 ELSE logs[0].lines)
        BY <2>4, <4>1, <4>2 DEF Room
      <4>4. Room(n)' = next - a - (IF k = 0 \/ n > k THEN 0 ELSE logs[0].lines)
        BY <1>2, <2>4, <4>1, <4>2 DEF Room
      <4>5. CASE n = k
        BY <2>3, <4>5, NoEntries, FileTypes
      <4>6. CASE n = k + 1 /\ k = 0
        <5>1. Room(n)' = next
          BY <1>2, <2>2, <4>1, <4>4, <4>6
        <5>2. QED
          BY <1>2, <2>3, <4>6, <5>1 DEF LogInv, FilesOrdered
      <4>7. CASE n = k + 1 /\ k # 0
        <5>1. k \in 1 .. Keep /\ Under(logs[k].entries, Room(k))
          BY <1>2, <2>1, <4>7 DEF Spaced
        <5>2. Room(k) = next - b - logs[0].lines
          BY <1>2, <2>4, <4>1, <4>7 DEF Room
        <5>3. Room(n)' = next - a
          BY <1>2, <2>2, <4>2, <4>4, <4>7
        <5>4. Room(k) \in Int /\ Room(n)' \in Int /\ Room(k) <= Room(n)'
          BY <1>2, <2>2, <4>2, <5>2, <5>3
        <5>5. QED
          BY <1>2, <2>2, <2>3, <4>7, <5>1, <5>4, UnderMore
      <4>8. CASE n \notin {k, k + 1}
        <5>1. Room(n) \in Int /\ Room(n)' \in Int /\ Room(n) <= Room(n)'
          BY <1>2, <2>2, <4>2, <4>3, <4>4, <4>8
        <5>2. QED
          BY <2>1, <2>2, <2>3, <4>2, <4>8, <5>1, UnderMore DEF Spaced
      <4>9. QED
        BY <4>5, <4>6, <4>7, <4>8
    <3>2. writer'.pc \in {"rotate", "shift"} => logs'[0].lines >= MaxLines
      BY <1>6, <2>2, <2>4
    <3>3. QED
      BY <3>1, <3>2 DEF Spaced
  <2>7. OwedKept'
    <3>1. \A e : Owed(e)' <=> Owed(e)
      BY <1>2 DEF Owed
    <3>2. ASSUME NEW e \in acked, Owed(e) PROVE \E n \in Numbers : Holds(logs'[n].entries, e)
      <4>1. PICK n \in Numbers : Holds(logs[n].entries, e)
        BY <2>1, <3>2 DEF OwedKept
      <4>2. CASE n = k
        BY <1>2, <2>3, <4>1, <4>2
      <4>3. CASE n = k + 1
        BY <1>2, <4>1, <4>3, NoEntries, FileTypes
      <4>4. CASE n \notin {k, k + 1}
        BY <2>3, <4>1, <4>4
      <4>5. QED
        BY <4>2, <4>3, <4>4
    <3>3. QED
      BY <1>2, <3>1, <3>2 DEF OwedKept
  <2>8. ReadersComplete'
    <3>1. \A e : Owed(e)' <=> Owed(e)
      BY <1>2 DEF Owed
    <3>2. QED
      BY <1>2, <1>3, <2>1, <3>1 DEF ReadersComplete, ReadersStay
  <2>9. QED
    BY <2>5, <2>6, <2>7, <2>8
<1>13. QED
  BY <1>7, <1>10, <1>11, <1>12 DEF LogInv

\* The log is there again.
LEMMA ReopenKeeps == ASSUME LogInv, Reopen PROVE LogInv'
<1>1. /\ UNCHANGED <<acked, hurt>> /\ Disturbed /\ writer.pc = "open" /\ writer \in Writer
      /\ 0 \in Numbers /\ logs \in [Numbers -> File] /\ next \in 1 .. MaxEntries
      /\ ~writer.open /\ Numbers = 0 .. Keep
  BY DEF Reopen, Writing, LogInv, LogTypeOK, WriterFits, Numbers
<1>2. ReadersStay /\ \A r \in Readers : reader'[r].pc \in {"stat", "read"} => reader'[r].disturbed
  BY <1>1, DisturbedReaders DEF LogInv
<1>3. PICK f : f = IF Exists(0) THEN logs[0] ELSE NewFile
  OBVIOUS
<1>4. f \in File /\ f.there /\ f.entries = logs[0].entries /\ f.lines = logs[0].lines
  BY <1>1, <1>3, FileTypes DEF LogInv, WriterFits, Exists
<1>5. \/ /\ logs' = [logs EXCEPT ![0] = f] /\ UNCHANGED <<next, faults, cut>>
         /\ writer' = [writer EXCEPT !.pc = "append", !.open = TRUE]
      \/ /\ UNCHANGED logs /\ next' = next + 1 /\ cut' = TRUE /\ faults' \in 0 .. MaxFaults
         /\ writer' = [writer EXCEPT !.pc = "idle"]
  BY <1>3 DEF Reopen, Fault, LogInv, LogTypeOK
<1>6. /\ logs' \in [Numbers -> File]
      /\ \A n \in Numbers : /\ logs'[n].entries = logs[n].entries /\ logs'[n].lines = logs[n].lines
                            /\ n # 0 => logs'[n] = logs[n]
      /\ logs'[0] = logs[0] \/ logs'[0].there
      /\ ~cut' => logs'[0].there /\ ~cut
      /\ logs[0].there => logs'[0].there
  <2>1. CASE logs' = [logs EXCEPT ![0] = f] /\ UNCHANGED cut
    BY <1>1, <1>4, <2>1
  <2>2. CASE UNCHANGED logs /\ cut' = TRUE
    BY <1>1, <2>2
  <2>3. QED
    BY <1>5, <2>1, <2>2
<1>7. /\ writer' \in Writer /\ next' \in {next, next + 1}
      /\ \/ writer'.pc = "append" /\ writer'.open /\ next' = next /\ logs'[0].there
         \/ writer'.pc = "idle" /\ ~writer'.open
  <2>1. CASE /\ logs' = [logs EXCEPT ![0] = f] /\ next' = next
             /\ writer' = [writer EXCEPT !.pc = "append", !.open = TRUE]
    BY <1>1, <1>4, <2>1 DEF Writer
  <2>2. CASE next' = next + 1 /\ writer' = [writer EXCEPT !.pc = "idle"]
    BY <1>1, <2>2 DEF Writer
  <2>3. QED
    BY <1>5, <2>1, <2>2
<1>8. LogTypeOK'
  <2>1. next' \in 1 .. (MaxEntries + 1)
    BY <1>1, <1>7
  <2>2. faults' \in 0 .. MaxFaults /\ cut' \in BOOLEAN
    BY <1>5 DEF LogInv, LogTypeOK
  <2>3. QED
    BY <1>1, <1>2, <1>6, <1>7, <2>1, <2>2 DEF LogInv, LogTypeOK, ReadersStay
<1>9. WriterFits'
  <2>1. \A n \in Numbers : ~logs'[n].there => logs'[n] = NoFile
    BY <1>6 DEF LogInv, WriterFits, Exists
  <2>2. /\ \A e \in acked : e \in Nat
        /\ \A r \in Readers : reader[r].from \in Nat
    BY LogTypes DEF LogInv
  <2>3. QED
    BY <1>1, <1>2, <1>7, <2>1, <2>2 DEF LogInv, WriterFits, Exists, ReadersStay
<1>10. next' >= next /\ next' - logs'[0].lines >= next - logs[0].lines
  <2>1. logs[0].lines \in Nat
    BY <1>1 DEF File
  <2>2. QED
    BY <1>1, <1>6, <1>7, <2>1
<1>11. FilesOrdered' /\ ReadersOrdered'
  BY <1>2, <1>6, <1>8, <1>10, OrderStays DEF LogInv
<1>12. Whole'
  BY <1>1, <1>2, <1>6, <1>7, <1>8, <1>10, WholeStays
<1>13. QED
  BY <1>8, <1>9, <1>11, <1>12 DEF LogInv

\* What a line that is not written to its end does to a file.
LEMMA TornFile ==
    ASSUME NEW f \in File
    PROVE  /\ Torn(f) \in File /\ Torn(f).entries = f.entries /\ Torn(f).there = f.there
           /\ f.lines \in Nat /\ Torn(f).lines \in {f.lines, f.lines + 1}
<1>1. f.lines \in Nat /\ f.lines + 1 \in Nat
  BY DEF File
<1>2. CASE f.torn
  BY <1>1, <1>2 DEF Torn
<1>3. CASE ~f.torn
  <2>1. PICK n : n = f.lines + 1
    OBVIOUS
  <2>2. Torn(f) = [f EXCEPT !.torn = TRUE, !.lines = n]
    BY <1>3, <2>1 DEF Torn
  <2>3. n \in Nat
    BY <1>1, <2>1
  <2>4. QED
    BY <1>1, <2>1, <2>2, <2>3 DEF File
<1>4. QED
  BY <1>2, <1>3

\* A step after which the file that is written has no new entry and at most
\* one more line, and a write is over.
LEMMA TearKeeps ==
    ASSUME LogInv, UNCHANGED <<reader, acked, hurt>>, writer' \in Writer,
           writer'.pc \in {"idle", "dead"}, writer'.pc = "dead" => ~writer'.open,
           writer'.open => Exists(0), faults' \in 0 .. MaxFaults,
           next' \in 1 .. (MaxEntries + 1),
           cut' \in BOOLEAN, ~cut' => ~cut /\ writer.pc \notin {"shift", "open"},
           \/ UNCHANGED logs /\ next' \in {next, next + 1}
           \/ Exists(0) /\ logs' = [logs EXCEPT ![0] = Torn(@)] /\ next' = next + 1
    PROVE  LogInv'
<1>1. logs \in [Numbers -> File] /\ 0 \in Numbers /\ Numbers = 0 .. Keep /\ next \in Nat
      /\ logs[0].lines \in Nat
  BY LogTypes DEF LogInv, LogTypeOK
<1>2. /\ logs' \in [Numbers -> File]
      /\ \A n \in Numbers : /\ logs'[n].entries = logs[n].entries
                            /\ logs'[n].there = logs[n].there
                            /\ n # 0 => logs'[n] = logs[n]
      /\ next' - logs'[0].lines >= next - logs[0].lines /\ next' >= next
      /\ UNCHANGED logs \/ logs' = [logs EXCEPT ![0] = Torn(@)]
  <2>1. CASE UNCHANGED logs /\ next' \in {next, next + 1}
    BY <1>1, <2>1
  <2>2. CASE logs' = [logs EXCEPT ![0] = Torn(@)] /\ next' = next + 1
    <3>1. PICK f : f = Torn(logs[0])
      OBVIOUS
    <3>2. f \in File /\ f.entries = logs[0].entries /\ f.there = logs[0].there
          /\ f.lines \in {logs[0].lines, logs[0].lines + 1}
      BY <1>1, <3>1, TornFile
    <3>3. logs' = [logs EXCEPT ![0] = f]
      BY <2>2, <3>1
    <3>4. QED
      BY <1>1, <2>2, <3>2, <3>3
  <2>3. QED
    BY <2>1, <2>2
<1>3. LogTypeOK'
  BY <1>2 DEF LogInv, LogTypeOK
<1>4. ReadersStay
  BY IdleReaders DEF LogInv
<1>5. WriterFits'
  <2>1. /\ \A e \in acked : e \in Nat
        /\ \A r \in Readers : reader[r].from \in Nat
    BY LogTypes DEF LogInv
  <2>2. \A n \in Numbers : ~logs'[n].there => logs'[n] = NoFile
    <3>1. UNCHANGED logs \/ Exists(0)
      OBVIOUS
    <3>2. QED
      BY <1>2, <3>1 DEF LogInv, WriterFits, Exists
  <2>3. QED
    BY <1>1, <1>2, <2>1, <2>2 DEF LogInv, WriterFits, Exists
<1>6. FilesOrdered' /\ ReadersOrdered'
  BY <1>2, <1>3, <1>4, OrderStays DEF LogInv
<1>7. Whole'
  BY <1>1, <1>2, <1>3, <1>4, WholeStays
<1>8. QED
  BY <1>3, <1>5, <1>6, <1>7 DEF LogInv

\* What a whole line does to a file.
LEMMA WithFile ==
    ASSUME NEW f \in File, NEW e \in 1 .. MaxEntries
    PROVE  /\ With(f, e) \in File /\ With(f, e).there = f.there
           /\ f.torn => With(f, e).entries = f.entries /\ With(f, e).lines = f.lines
           /\ ~f.torn => With(f, e).entries = Append(f.entries, e) /\ With(f, e).lines = f.lines + 1
<1>1. CASE f.torn
  BY <1>1 DEF With, File
<1>2. CASE ~f.torn
  <2>1. PICK n, s : n = f.lines + 1 /\ s = Append(f.entries, e)
    OBVIOUS
  <2>2. n \in Nat /\ s \in Seq(1 .. MaxEntries)
    BY <2>1 DEF File
  <2>3. With(f, e) = [f EXCEPT !.entries = s, !.lines = n]
    BY <1>2, <2>1 DEF With
  <2>4. QED
    BY <1>2, <2>1, <2>2, <2>3 DEF File
<1>3. QED
  BY <1>1, <1>2

\* What a change of the file that is written does to the others.
LEMMA FirstFile ==
    ASSUME LogTypeOK, NEW f \in File, logs' = [logs EXCEPT ![0] = f]
    PROVE  /\ logs' \in [Numbers -> File] /\ logs'[0] = f
           /\ \A n \in Numbers : n # 0 => logs'[n] = logs[n]
<1>1. 0 \in Numbers /\ logs \in [Numbers -> File]
  BY DEF Numbers, LogTypeOK
<1>2. QED
  BY <1>1

\* A line that is appended to a torn one cannot be read, and nobody is owed it.
LEMMA HurtKeeps ==
    ASSUME LogInv, AppendLine, logs[0].torn, UNCHANGED faults,
           logs' = [logs EXCEPT ![0] = With(@, next)], acked' = acked \cup {next},
           hurt' = hurt \cup {next}
    PROVE  LogInv'
<1>1. /\ logs \in [Numbers -> File] /\ 0 \in Numbers /\ Numbers = 0 .. Keep
      /\ next \in 1 .. MaxEntries /\ logs[0].lines \in Nat /\ writer.pc = "append" /\ writer.open
      /\ writer \in Writer /\ logs[0].there
  BY LogTypes DEF LogInv, LogTypeOK, WriterFits, AppendLine, Writing, Exists
<1>2. /\ writer' = [writer EXCEPT !.pc = "idle"] /\ next' = next + 1 /\ UNCHANGED <<reader, cut>>
  BY DEF AppendLine
<1>3. writer' \in Writer /\ writer'.pc = "idle"
  BY <1>1, <1>2 DEF Writer
<1>4. PICK f : f = With(logs[0], next)
  OBVIOUS
<1>5. f \in File /\ f.there /\ f.entries = logs[0].entries /\ f.lines = logs[0].lines
  BY <1>1, <1>4, WithFile
<1>6. /\ logs' \in [Numbers -> File]
      /\ \A n \in Numbers : /\ logs'[n].entries = logs[n].entries
                            /\ logs'[n].there = logs[n].there
                            /\ n # 0 => logs'[n] = logs[n]
      /\ logs'[0].lines = logs[0].lines /\ logs'[0].there
  <2>1. logs' = [logs EXCEPT ![0] = f]
    BY <1>4
  <2>2. /\ logs' \in [Numbers -> File] /\ logs'[0] = f
        /\ \A n \in Numbers : n # 0 => logs'[n] = logs[n]
    BY <1>5, <2>1, FirstFile DEF LogInv
  <2>3. QED
    BY <1>1, <1>5, <2>2
<1>7. LogTypeOK'
  BY <1>1, <1>2, <1>3, <1>6 DEF LogInv, LogTypeOK
<1>8. ReadersStay
  BY <1>2, IdleReaders DEF LogInv
<1>9. WriterFits'
  <2>1. /\ \A e \in acked : e \in Nat
        /\ \A r \in Readers : reader[r].from \in Nat
    BY LogTypes DEF LogInv
  <2>2. QED
    BY <1>1, <1>2, <1>3, <1>6, <2>1 DEF LogInv, WriterFits, Exists
<1>10. FilesOrdered' /\ ReadersOrdered'
  BY <1>1, <1>2, <1>6, <1>7, <1>8, OrderStays DEF LogInv
<1>11. Whole'
  <2> SUFFICES ASSUME ~cut' PROVE Gapless' /\ Spaced' /\ OwedKept' /\ ReadersComplete'
    BY DEF Whole
  <2>1. Gapless /\ Spaced /\ OwedKept /\ ReadersComplete
    BY <1>2 DEF LogInv, Whole
  <2>2. Gapless'
    BY <1>1, <1>3, <1>6, <2>1 DEF Gapless, Exists, Hole
  <2>3. Spaced'
    <3>1. ASSUME NEW n \in 1 .. Keep PROVE Under(logs'[n].entries, Room(n)')
      <4>1. PICK k : k = (n - 1) * MaxLines
        OBVIOUS
      <4>2. k \in Int /\ n \in Numbers
        BY <1>1, <4>1
      <4>3. Room(n) = next - k - logs[0].lines
        BY <1>1, <4>1 DEF Room, Moved
      <4>4. Room(n)' = next + 1 - k - logs[0].lines
        <5>1. Room(n)' = next' - k - logs'[0].lines
          BY <1>3, <4>1 DEF Room, Moved
        <5>2. next' = next + 1 /\ next \in Int /\ logs[0].lines \in Int /\ k \in Int
          BY <1>1, <1>2, <4>2
        <5>3. QED
          BY <1>6, <5>1, <5>2
      <4>5. Room(n) \in Int /\ Room(n)' \in Int /\ Room(n) <= Room(n)'
        BY <1>1, <4>2, <4>3, <4>4
      <4>6. logs'[n].entries = logs[n].entries /\ logs[n].entries \in Seq(Nat)
        BY <1>6, <4>2, LogTypes DEF LogInv
      <4>7. QED
        BY <2>1, <4>5, <4>6, UnderMore DEF Spaced
    <3>2. QED
      BY <1>3, <3>1 DEF Spaced
  <2>4. \A e \in acked' : Owed(e)' => e \in acked /\ Owed(e)
    <3>1. ASSUME NEW e \in acked', Owed(e)' PROVE e \in acked /\ Owed(e)
      <4>1. e \in acked \ hurt /\ next + 1 - e <= Keep * MaxLines
        <5>1. e \in acked' \ hurt' /\ next' - e <= Keep * MaxLines
          BY <3>1 DEF Owed
        <5>2. e \in acked \ hurt
          BY <3>1, <5>1
        <5>3. next' = next + 1 /\ next \in Int /\ e \in Int
          BY <1>1, <1>2, <5>2, LogTypes DEF LogInv
        <5>4. QED
          BY <5>1, <5>2, <5>3
      <4>2. e \in Nat
        BY <4>1, LogTypes DEF LogInv
      <4>3. QED
        BY <1>1, <4>1, <4>2 DEF Owed
    <3>2. QED
      BY <3>1
  <2>5. OwedKept'
    BY <1>6, <2>1, <2>4 DEF OwedKept
  <2>6. ReadersComplete'
    <3>1. ASSUME NEW r \in Readers, reader[r].pc = "read", NEW n \in 0 .. reader[r].number
          PROVE  n \in Numbers
      BY <1>1, <3>1, LogTypes DEF LogInv, WriterFits
    <3>2. QED
      BY <1>2, <1>3, <1>6, <2>1, <2>4, <3>1 DEF ReadersComplete
  <2>7. QED
    BY <2>2, <2>3, <2>5, <2>6
<1>12. QED
  BY <1>7, <1>9, <1>10, <1>11 DEF LogInv

\* A whole line is the newest of the entries.
LEMMA LineKeeps ==
    ASSUME LogInv, AppendLine, ~logs[0].torn, UNCHANGED <<faults, hurt>>,
           logs' = [logs EXCEPT ![0] = With(@, next)], acked' = acked \cup {next}
    PROVE  LogInv'
<1>1. /\ logs \in [Numbers -> File] /\ 0 \in Numbers /\ Numbers = 0 .. Keep
      /\ next \in 1 .. MaxEntries /\ logs[0].lines \in Nat /\ writer.pc = "append" /\ writer.open
      /\ writer \in Writer /\ logs[0].there
      /\ \A n \in Numbers : logs[n].entries \in Seq(Nat)
  BY LogTypes DEF LogInv, LogTypeOK, WriterFits, AppendLine, Writing, Exists
<1>2. /\ writer' = [writer EXCEPT !.pc = "idle"] /\ next' = next + 1 /\ UNCHANGED <<reader, cut>>
  BY DEF AppendLine
<1>3. writer' \in Writer /\ writer'.pc = "idle"
  BY <1>1, <1>2 DEF Writer
<1>4. PICK f : f = With(logs[0], next)
  OBVIOUS
<1>5. f \in File /\ f.there /\ f.entries = Append(logs[0].entries, next)
      /\ f.lines = logs[0].lines + 1
  BY <1>1, <1>4, WithFile
<1>6. /\ logs' \in [Numbers -> File]
      /\ \A n \in Numbers : logs'[n].there = logs[n].there /\ (n # 0 => logs'[n] = logs[n])
      /\ logs'[0].lines = logs[0].lines + 1 /\ logs'[0].there
      /\ logs'[0].entries = Append(logs[0].entries, next)
  <2>1. logs' = [logs EXCEPT ![0] = f]
    BY <1>4
  <2>2. /\ logs' \in [Numbers -> File] /\ logs'[0] = f
        /\ \A n \in Numbers : n # 0 => logs'[n] = logs[n]
    BY <1>5, <2>1, FirstFile DEF LogInv
  <2>3. QED
    BY <1>1, <1>5, <2>2
<1>7. LogTypeOK'
  BY SMTT(60), <1>1, <1>2, <1>3, <1>6 DEF LogInv, LogTypeOK
<1>8. ReadersStay
  BY <1>2, IdleReaders DEF LogInv
<1>9. WriterFits'
  <2>1. /\ \A e \in acked : e \in Nat
        /\ \A r \in Readers : reader[r].from \in Nat
    BY LogTypes DEF LogInv
  <2>2. QED
    BY <1>1, <1>2, <1>3, <1>6, <2>1 DEF LogInv, WriterFits, Exists
<1>10. PICK s, t : s = logs[0].entries /\ t = Append(s, next)
  OBVIOUS
<1>11. s \in Seq(Nat) /\ Rises(s) /\ Under(s, next) /\ next \in Nat
  BY <1>1, <1>10 DEF LogInv, FilesOrdered
<1>12. /\ t \in Seq(Nat) /\ Rises(t) /\ Under(t, next + 1)
       /\ \A x : Holds(t, x) <=> Holds(s, x) \/ x = next
       /\ \A u \in Seq(Nat) : Below(u, s) /\ Under(u, next) => Below(u, t)
  BY <1>10, <1>11, AppendRises
<1>13. logs'[0].entries = t /\ logs[0].entries = s
  BY <1>6, <1>10
<1>14. FilesOrdered'
  <2>1. ASSUME NEW n \in Numbers
        PROVE  Rises(logs'[n].entries) /\ Under(logs'[n].entries, next')
    <3>1. CASE n = 0
      BY <1>2, <1>12, <1>13, <3>1
    <3>2. CASE n # 0
      <4>1. logs'[n] = logs[n] /\ Rises(logs[n].entries) /\ Under(logs[n].entries, next)
        BY <1>6, <3>2 DEF LogInv, FilesOrdered
      <4>2. next \in Int /\ next' \in Int /\ next <= next'
        BY <1>1, <1>2
      <4>3. QED
        BY <1>1, <4>1, <4>2, UnderMore
    <3>3. QED
      BY <3>1, <3>2
  <2>2. ASSUME NEW m \in Numbers, NEW n \in Numbers, m < n
        PROVE  Below(logs'[n].entries, logs'[m].entries)
    <3>1. n # 0 /\ logs'[n] = logs[n]
      BY <1>1, <1>6, <2>2
    <3>2. CASE m = 0
      <4>1. Below(logs[n].entries, s) /\ Under(logs[n].entries, next)
            /\ logs[n].entries \in Seq(Nat)
        BY <1>1, <1>13, <2>2, <3>2 DEF LogInv, FilesOrdered
      <4>2. QED
        BY <1>12, <1>13, <3>1, <3>2, <4>1
    <3>3. CASE m # 0
      BY <1>6, <2>2, <3>1, <3>3 DEF LogInv, FilesOrdered
    <3>4. QED
      BY <3>2, <3>3
  <2>3. QED
    BY <2>1, <2>2 DEF FilesOrdered
<1>15. ReadersOrdered'
  <2>1. ASSUME NEW r \in Readers
        PROVE  /\ Rises(reader[r].found) /\ Under(reader[r].found, next')
               /\ reader[r].pc \in {"idle", "stat"} => reader[r].found = <<>>
               /\ reader[r].pc = "read" =>
                    \A n \in 0 .. reader[r].number : Below(reader[r].found, logs'[n].entries)
    <3>1. /\ Rises(reader[r].found) /\ Under(reader[r].found, next)
          /\ reader[r].pc \in {"idle", "stat"} => reader[r].found = <<>>
          /\ reader[r].pc = "read" =>
               \A n \in 0 .. reader[r].number : Below(reader[r].found, logs[n].entries)
          /\ reader[r].found \in Seq(Nat)
      BY LogTypes DEF LogInv, ReadersOrdered
    <3>2. next \in Int /\ next' \in Int /\ next <= next'
      BY <1>1, <1>2
    <3>3. Under(reader[r].found, next')
      BY <3>1, <3>2, UnderMore
    <3>4. ASSUME reader[r].pc = "read", NEW n \in 0 .. reader[r].number
          PROVE  Below(reader[r].found, logs'[n].entries)
      <4>1. n \in Numbers
        BY <1>1, <3>4, LogTypes DEF LogInv, WriterFits
      <4>2. CASE n = 0
        BY <1>12, <1>13, <3>1, <3>4, <4>2
      <4>3. CASE n # 0
        BY <1>6, <3>1, <3>4, <4>1, <4>3
      <4>4. QED
        BY <4>2, <4>3
    <3>5. QED
      BY <3>1, <3>3, <3>4
  <2>2. QED
    BY <1>2, <2>1 DEF ReadersOrdered
<1>16. Whole'
  <2> SUFFICES ASSUME ~cut' PROVE Gapless' /\ Spaced' /\ OwedKept' /\ ReadersComplete'
    BY DEF Whole
  <2>1. Gapless /\ Spaced /\ OwedKept /\ ReadersComplete
    BY <1>2 DEF LogInv, Whole
  <2>2. Gapless'
    BY <1>1, <1>3, <1>6, <2>1 DEF Gapless, Exists, Hole
  <2>3. Spaced'
    <3>1. ASSUME NEW n \in 1 .. Keep PROVE Under(logs'[n].entries, Room(n)')
      <4>1. PICK k : k = (n - 1) * MaxLines
        OBVIOUS
      <4>2. k \in Int /\ n \in Numbers /\ n # 0
        BY <1>1, <4>1
      <4>3. Room(n) = next - k - logs[0].lines
        BY <1>1, <4>1 DEF Room, Moved
      <4>4. Room(n)' = next + 1 - k - (logs[0].lines + 1)
        <5>1. Room(n)' = next' - k - logs'[0].lines
          BY <1>3, <4>1 DEF Room, Moved
        <5>2. next' = next + 1 /\ next \in Int /\ logs[0].lines \in Int /\ k \in Int
          BY <1>1, <1>2, <4>2
        <5>3. logs'[0].lines = logs[0].lines + 1
          BY <1>6
        <5>4. QED
          BY <5>1, <5>2, <5>3
      <4>5. Room(n) = Room(n)'
        <5>1. next \in Int /\ logs[0].lines \in Int
          BY <1>1
        <5>2. QED
          BY <4>2, <4>3, <4>4, <5>1
      <4>6. QED
        BY <1>6, <2>1, <4>2, <4>5 DEF Spaced
    <3>2. QED
      BY <1>3, <3>1 DEF Spaced
  <2>4. \A n \in Numbers : \A e : Holds(logs[n].entries, e) => Holds(logs'[n].entries, e)
    BY <1>6, <1>12, <1>13
  <2>5. \A e \in acked' : Owed(e)' => e = next \/ (e \in acked /\ Owed(e))
    <3>1. ASSUME NEW e \in acked', Owed(e)', e # next PROVE e \in acked /\ Owed(e)
      <4>1. e \in acked \ hurt /\ next + 1 - e <= Keep * MaxLines
        <5>1. e \in acked' \ hurt' /\ next' - e <= Keep * MaxLines
          BY <3>1 DEF Owed
        <5>2. e \in acked \ hurt
          BY <3>1, <5>1
        <5>3. next' = next + 1 /\ next \in Int /\ e \in Int
          BY <1>1, <1>2, <5>2, LogTypes DEF LogInv
        <5>4. QED
          BY <5>1, <5>2, <5>3
      <4>2. e \in Nat
        BY <4>1, LogTypes DEF LogInv
      <4>3. QED
        BY <1>1, <4>1, <4>2 DEF Owed
    <3>2. QED
      BY <3>1
  <2>6. OwedKept'
    <3>1. Holds(logs'[0].entries, next)
      BY <1>12, <1>13
    <3>2. ASSUME NEW e \in acked', Owed(e)' PROVE \E n \in Numbers : Holds(logs'[n].entries, e)
      <4>1. CASE e = next
        BY <1>1, <3>1, <4>1
      <4>2. CASE e \in acked /\ Owed(e)
        BY <2>1, <2>4, <4>2 DEF OwedKept
      <4>3. QED
        BY <2>5, <3>2, <4>1, <4>2
    <3>3. QED
      BY <3>2 DEF OwedKept
  <2>7. ReadersComplete'
    <3>1. ASSUME NEW r \in Readers, reader[r].pc = "read", NEW n \in 0 .. reader[r].number
          PROVE  n \in Numbers
      BY <1>1, <3>1, LogTypes DEF LogInv, WriterFits
    <3>2. \A r \in Readers : ~(next <= reader[r].from)
      BY <1>1, LogTypes DEF LogInv, WriterFits
    <3>3. QED
      BY <1>2, <1>3, <2>1, <2>4, <2>5, <3>1, <3>2 DEF ReadersComplete
  <2>8. QED
    BY <2>2, <2>3, <2>6, <2>7
<1>17. QED
  BY <1>7, <1>9, <1>14, <1>15, <1>16 DEF LogInv

\* A line, whole or not.
LEMMA AppendLineKeeps == ASSUME LogInv, AppendLine PROVE LogInv'
<1>1. \/ /\ logs' = [logs EXCEPT ![0] = With(@, next)] /\ UNCHANGED faults
         /\ acked' = acked \cup {next}
         /\ hurt' = IF logs[0].torn THEN hurt \cup {next} ELSE hurt
      \/ /\ Fault /\ logs' = [logs EXCEPT ![0] = Torn(@)] /\ UNCHANGED <<acked, hurt>>
  BY DEF AppendLine
<1>2. CASE /\ logs' = [logs EXCEPT ![0] = With(@, next)] /\ UNCHANGED faults
           /\ acked' = acked \cup {next}
           /\ hurt' = IF logs[0].torn THEN hurt \cup {next} ELSE hurt
  BY <1>2, HurtKeeps, LineKeeps
<1>3. CASE Fault /\ logs' = [logs EXCEPT ![0] = Torn(@)] /\ UNCHANGED <<acked, hurt>>
  <2>1. writer' = [writer EXCEPT !.pc = "idle"] /\ next' = next + 1 /\ UNCHANGED <<reader, cut>>
        /\ writer.pc = "append"
    BY DEF AppendLine, Writing
  <2>2. writer \in Writer /\ Exists(0) /\ next \in 1 .. MaxEntries /\ cut \in BOOLEAN
    BY <2>1 DEF LogInv, LogTypeOK, WriterFits
  <2>3. writer' \in Writer /\ writer'.pc = "idle"
    BY <2>1, <2>2 DEF Writer
  <2>4. faults' \in 0 .. MaxFaults
    BY <1>3 DEF Fault, LogInv, LogTypeOK
  <2>5. QED
    BY <1>3, <2>1, <2>2, <2>3, <2>4, TearKeeps
<1>4. QED
  BY <1>1, <1>2, <1>3

\* A death, perhaps in the middle of a line.
LEMMA BrokerDiesKeeps == ASSUME LogInv, BrokerDies PROVE LogInv'
<1>1. /\ Fault /\ UNCHANGED <<reader, acked, hurt>>
      /\ writer' = [writer EXCEPT !.pc = "dead", !.open = FALSE, !.number = 0]
      /\ cut' = (cut \/ writer.pc \in {"shift", "open"})
      /\ next' = IF Writing("idle") \/ next > MaxEntries THEN next ELSE next + 1
      /\ logs' = IF Writing("append") THEN [logs EXCEPT ![0] = Torn(@)] ELSE logs
  BY DEF BrokerDies
<1>2. writer \in Writer /\ next \in 1 .. (MaxEntries + 1) /\ 0 \in Numbers
      /\ (writer.pc = "append" => Exists(0) /\ next <= MaxEntries)
  BY DEF LogInv, LogTypeOK, WriterFits, Numbers
<1>3. writer' \in Writer /\ writer'.pc = "dead" /\ ~writer'.open
  BY <1>1, <1>2 DEF Writer
<1>4. faults' \in 0 .. MaxFaults
  BY <1>1 DEF Fault, LogInv, LogTypeOK
<1>5. cut' \in BOOLEAN /\ (~cut' => ~cut /\ writer.pc \notin {"shift", "open"})
  <2>1. cut \in BOOLEAN
    BY DEF LogInv, LogTypeOK
  <2>2. QED
    BY <1>1, <2>1
<1>6. next' \in 1 .. (MaxEntries + 1) /\ next' \in {next, next + 1}
      /\ (writer.pc = "append" => next' = next + 1)
  BY <1>1, <1>2 DEF Writing
<1>7. \/ UNCHANGED logs /\ next' \in {next, next + 1}
      \/ Exists(0) /\ logs' = [logs EXCEPT ![0] = Torn(@)] /\ next' = next + 1
  BY <1>1, <1>2, <1>6 DEF Writing
<1>8. QED
  BY <1>1, <1>3, <1>4, <1>5, <1>6, <1>7, TearKeeps

\* The writer of the next broker.
LEMMA OpenWriterKeeps == ASSUME LogInv, OpenWriter PROVE LogInv'
<1>1. /\ UNCHANGED <<next, reader, faults, acked, hurt, cut>> /\ writer.pc = "dead"
      /\ writer \in Writer /\ 0 \in Numbers /\ logs \in [Numbers -> File] /\ Numbers = 0 .. Keep
      /\ next \in 1 .. (MaxEntries + 1)
  BY DEF OpenWriter, Writing, LogInv, LogTypeOK, Numbers
<1>2. PICK f : f = IF Exists(0) THEN logs[0] ELSE NewFile
  OBVIOUS
<1>3. f \in File /\ f.there /\ f.entries = logs[0].entries /\ f.lines = logs[0].lines
  BY <1>1, <1>2, FileTypes DEF LogInv, WriterFits, Exists
<1>4. logs' = [logs EXCEPT ![0] = f] /\ writer' = [writer EXCEPT !.pc = "idle", !.open = TRUE]
  BY <1>2 DEF OpenWriter
<1>5. /\ logs' \in [Numbers -> File]
      /\ \A n \in Numbers : /\ logs'[n].entries = logs[n].entries /\ logs'[n].lines = logs[n].lines
                            /\ n # 0 => logs'[n] = logs[n]
      /\ logs'[0].there
  BY <1>1, <1>3, <1>4
<1>6. writer' \in Writer /\ writer'.pc = "idle"
  BY <1>1, <1>4 DEF Writer
<1>7. LogTypeOK'
  BY <1>1, <1>5, <1>6 DEF LogInv, LogTypeOK
<1>8. ReadersStay
  BY <1>1, IdleReaders DEF LogInv
<1>9. WriterFits'
  BY <1>1, <1>5, <1>6 DEF LogInv, WriterFits, Exists
<1>10. next' >= next /\ next' - logs'[0].lines >= next - logs[0].lines
  <2>1. logs[0].lines \in Nat
    BY <1>1 DEF File
  <2>2. QED
    BY <1>1, <1>5, <2>1
<1>11. FilesOrdered' /\ ReadersOrdered'
  BY <1>5, <1>7, <1>8, <1>10, OrderStays DEF LogInv
<1>12. Whole'
  BY <1>1, <1>5, <1>6, <1>7, <1>8, <1>10, WholeStays
<1>13. QED
  BY <1>7, <1>9, <1>11, <1>12 DEF LogInv

----------------------------------------------------------------------------
(* The steps of the readers.                                                *)

\* A step of one reader, that leaves what the others have.
LEMMA OneReader ==
    ASSUME LogInv, UNCHANGED <<logs, writer, next, faults, acked, hurt, cut>>,
           NEW r \in Readers, NEW x \in Reader, reader' = [reader EXCEPT ![r] = x],
           x.from < next,
           x.pc = "stat" => x.number >= 1,
           x.pc = "read" => x.number <= Keep,
           Rises(x.found) /\ Under(x.found, next),
           x.pc \in {"idle", "stat"} => x.found = <<>>,
           x.pc = "read" => \A n \in 0 .. x.number : Below(x.found, logs[n].entries),
           ~cut /\ ~x.disturbed =>
             /\ x.pc \in {"stat", "read"} => writer.pc \notin {"shift", "open"}
             /\ x.pc = "read" => \A e \in acked : Owed(e) /\ e <= x.from =>
                   Holds(x.found, e) \/ \E n \in 0 .. x.number : Holds(logs[n].entries, e)
             /\ x.pc = "done" => \A e \in acked : Owed(e) /\ e <= x.from => Holds(x.found, e)
    PROVE  LogInv'
<1>1. /\ reader' \in [Readers -> Reader]
      /\ \A p \in Readers : reader'[p] = IF p = r THEN x ELSE reader[p]
  BY DEF LogInv, LogTypeOK
<1>2. LogTypeOK'
  BY <1>1 DEF LogInv, LogTypeOK
<1>3. WriterFits'
  BY <1>1 DEF LogInv, WriterFits, Exists
<1>4. FilesOrdered'
  BY DEF LogInv, FilesOrdered
<1>5. ReadersOrdered'
  BY <1>1 DEF LogInv, ReadersOrdered
<1>6. Whole'
  <2>1. Gapless => Gapless'
    BY DEF Gapless, Exists, Hole
  <2>2. Spaced => Spaced'
    BY DEF Spaced, Room, Moved
  <2>3. \A e : Owed(e)' <=> Owed(e)
    BY DEF Owed
  <2>4. OwedKept => OwedKept'
    BY <2>3 DEF OwedKept
  <2>5. ~cut /\ ReadersComplete => ReadersComplete'
    BY <1>1, <2>3 DEF ReadersComplete
  <2>6. QED
    BY <2>1, <2>2, <2>4, <2>5 DEF LogInv, Whole
<1>7. QED
  BY <1>2, <1>3, <1>4, <1>5, <1>6 DEF LogInv

\* A reader that begins is owed what was written before.
LEMMA BeginsKeeps == ASSUME LogInv, NEW r \in Readers, Begins(r) PROVE LogInv'
<1>1. PICK x : x = [NoReader EXCEPT !.pc = "stat", !.number = 1, !.from = next - 1,
                      !.disturbed = writer.pc \in {"rotate", "shift", "open"}]
  OBVIOUS
<1>2. next \in 1 .. (MaxEntries + 1)
  BY DEF LogInv, LogTypeOK
<1>3. /\ x.pc = "stat" /\ x.number = 1 /\ x.from = next - 1 /\ x.found = <<>>
      /\ ~x.disturbed => writer.pc \notin {"rotate", "shift", "open"}
      /\ x \in Reader
  <2>1. PICK n, d : n = next - 1 /\ d = (writer.pc \in {"rotate", "shift", "open"})
    OBVIOUS
  <2>2. n \in 0 .. MaxEntries /\ d \in BOOLEAN /\ 1 \in 0 .. (Keep + 1)
        /\ <<>> \in Seq(1 .. MaxEntries)
    BY <1>2, <2>1
  <2>3. x = [pc |-> "stat", number |-> 1, found |-> <<>>, from |-> n, disturbed |-> d]
    BY <1>1, <2>1 DEF NoReader
  <2>4. QED
    BY <2>1, <2>2, <2>3 DEF Reader
<1>4. reader' = [reader EXCEPT ![r] = x] /\ UNCHANGED <<logs, writer, next, faults, acked, hurt, cut>>
  BY <1>1 DEF Begins
<1>5. x.from < next
  BY <1>2, <1>3
<1>6. Rises(x.found) /\ Under(x.found, next)
  BY <1>3, NoEntries
<1>7. /\ x.number >= 1 /\ x.pc \notin {"read", "done"}
      /\ ~cut /\ ~x.disturbed => writer.pc \notin {"shift", "open"}
  BY <1>3
<1>8. QED
  BY <1>3, <1>4, <1>5, <1>6, <1>7, OneReader

\* The files that a reader has not seen are not there.
LEMMA StatKeeps == ASSUME LogInv, NEW r \in Readers, StatRotated(r) PROVE LogInv'
<1>1. PICK n : n = reader[r].number
  OBVIOUS
<1>2. /\ reader[r] \in Reader /\ reader[r].pc = "stat" /\ n \in 1 .. (Keep + 1)
      /\ Numbers = 0 .. Keep /\ reader[r].found = <<>> /\ reader[r].from < next
      /\ UNCHANGED <<logs, writer, next, faults, acked, hurt, cut>>
  BY <1>1, LogTypes DEF StatRotated, LogInv, WriterFits, ReadersOrdered
<1>3. CASE n \in Numbers /\ Exists(n)
  <2>1. PICK k : k = n + 1
    OBVIOUS
  <2>2. PICK x : x = [reader[r] EXCEPT !.number = k]
    OBVIOUS
  <2>3. k \in 1 .. (Keep + 1)
    BY <1>2, <1>3, <2>1
  <2>4. /\ x \in Reader /\ x.pc = "stat" /\ x.number = k /\ x.found = <<>>
        /\ x.from = reader[r].from /\ x.disturbed = reader[r].disturbed
    BY <1>2, <2>2, <2>3 DEF Reader
  <2>5. reader' = [reader EXCEPT ![r] = x]
    BY <1>1, <1>3, <2>1, <2>2 DEF StatRotated
  <2>6. ~cut /\ ~x.disturbed => writer.pc \notin {"shift", "open"}
    BY <1>2, <2>4 DEF LogInv, Whole, ReadersComplete
  <2>7. Rises(x.found) /\ Under(x.found, next) /\ k >= 1
    BY <2>3, <2>4, NoEntries
  <2>8. QED
    BY <1>2, <2>4, <2>5, <2>6, <2>7, OneReader
<1>4. CASE ~(n \in Numbers /\ Exists(n))
  <2>1. PICK k : k = n - 1
    OBVIOUS
  <2>2. PICK x : x = [reader[r] EXCEPT !.pc = "read", !.number = k]
    OBVIOUS
  <2>3. k \in 0 .. Keep /\ k \in 0 .. (Keep + 1)
    BY <1>2, <2>1
  <2>4. /\ x \in Reader /\ x.pc = "read" /\ x.number = k /\ x.found = <<>>
        /\ x.from = reader[r].from /\ x.disturbed = reader[r].disturbed
    BY <1>2, <2>2, <2>3 DEF Reader
  <2>5. reader' = [reader EXCEPT ![r] = x]
    BY <1>1, <1>4, <2>1, <2>2 DEF StatRotated
  <2>6. ASSUME ~cut, ~x.disturbed
        PROVE  /\ writer.pc \notin {"shift", "open"}
               /\ \A e \in acked : Owed(e) => \E m \in 0 .. k : Holds(logs[m].entries, e)
    <3>1. writer.pc \notin {"shift", "open"} /\ Gapless /\ OwedKept
      BY <1>2, <2>4, <2>6 DEF LogInv, Whole, ReadersComplete
    <3>2. ASSUME NEW e \in acked, Owed(e) PROVE \E m \in 0 .. k : Holds(logs[m].entries, e)
      <4>1. PICK m \in Numbers : Holds(logs[m].entries, e)
        BY <3>1, <3>2 DEF OwedKept
      <4>2. ASSUME m \notin 0 .. k PROVE FALSE
        <5>1. n <= m /\ n \in Numbers /\ ~Exists(n)
          BY <1>2, <1>4, <2>1, <4>2
        <5>2. Exists(m)
          BY <4>1, NoEntries, FileTypes DEF LogInv, WriterFits
        <5>3. n < m
          BY <1>2, <5>1, <5>2
        <5>4. Exists(n)
          BY <3>1, <5>1, <5>2, <5>3 DEF Gapless, Hole
        <5>5. QED
          BY <5>1, <5>4
      <4>3. QED
        BY <4>1, <4>2
    <3>3. QED
      BY <3>1, <3>2
  <2>7. /\ Rises(x.found) /\ Under(x.found, next) /\ k <= Keep
        /\ \A m \in 0 .. x.number : Below(x.found, logs[m].entries)
    BY <2>3, <2>4, NoEntries
  <2>8. QED
    BY <1>2, <2>4, <2>5, <2>6, <2>7, OneReader
<1>5. QED
  BY <1>3, <1>4

\* A file is older than those that are read after it.
LEMMA ReadFileKeeps == ASSUME LogInv, NEW r \in Readers, readFile(r) PROVE LogInv'
<1>1. PICK n : n = reader[r].number
  OBVIOUS
<1>2. /\ reader[r] \in Reader /\ reader[r].pc = "read" /\ n \in Numbers
      /\ Numbers = 0 .. Keep /\ reader[r].from < next
      /\ UNCHANGED <<logs, writer, next, faults, acked, hurt, cut>>
  BY <1>1, LogTypes DEF readFile, LogInv, WriterFits
<1>3. PICK s, t : s = reader[r].found /\ t = logs[n].entries
  OBVIOUS
<1>4. s \in Seq(1 .. MaxEntries) /\ t \in Seq(1 .. MaxEntries) /\ s \in Seq(Nat) /\ t \in Seq(Nat)
  BY <1>2, <1>3, LogTypes DEF LogInv, LogTypeOK, Reader, File
<1>5. /\ Rises(s) /\ Under(s, next) /\ Rises(t) /\ Under(t, next)
      /\ \A m \in 0 .. n : Below(s, logs[m].entries)
      /\ \A m \in Numbers : m < n => Below(t, logs[m].entries)
      /\ Below(s, t)
  BY <1>1, <1>2, <1>3 DEF LogInv, FilesOrdered, ReadersOrdered
<1>6. PICK u : u = s \o t
  OBVIOUS
<1>7. /\ u \in Seq(1 .. MaxEntries) /\ Rises(u) /\ Under(u, next)
      /\ \A e : Holds(u, e) <=> Holds(s, e) \/ Holds(t, e)
      /\ \A m \in Numbers : m < n => Below(u, logs[m].entries)
  <2>1. u \in Seq(1 .. MaxEntries)
    BY <1>4, <1>6
  <2>2. /\ Rises(u)
        /\ \A bound : Under(s, bound) /\ Under(t, bound) => Under(u, bound)
        /\ \A e : Holds(u, e) <=> Holds(s, e) \/ Holds(t, e)
        /\ \A v : Below(s, v) /\ Below(t, v) => Below(u, v)
    BY <1>4, <1>5, <1>6, ConcatRises
  <2>3. \A m \in Numbers : m < n => m \in 0 .. n
    BY <1>2
  <2>4. QED
    BY <1>5, <2>1, <2>2, <2>3
<1>8. ~cut /\ ~reader[r].disturbed =>
        /\ writer.pc \notin {"shift", "open"}
        /\ \A e \in acked : Owed(e) /\ e <= reader[r].from =>
              Holds(s, e) \/ \E m \in 0 .. n : Holds(logs[m].entries, e)
  BY <1>1, <1>2, <1>3 DEF LogInv, Whole, ReadersComplete
<1>9. CASE n = 0
  <2>1. PICK x : x = [reader[r] EXCEPT !.found = u, !.pc = "done", !.number = 0]
    OBVIOUS
  <2>2. reader' = [reader EXCEPT ![r] = x]
    BY <1>1, <1>3, <1>6, <1>9, <2>1 DEF readFile
  <2>3. /\ x \in Reader /\ x.pc = "done" /\ x.found = u
        /\ x.from = reader[r].from /\ x.disturbed = reader[r].disturbed
    <3>1. 0 \in 0 .. (Keep + 1)
      OBVIOUS
    <3>2. QED
      BY <1>2, <1>7, <2>1, <3>1 DEF Reader
  <2>4. ~cut /\ ~reader[r].disturbed =>
          \A e \in acked : Owed(e) /\ e <= reader[r].from => Holds(u, e)
    BY <1>3, <1>7, <1>8, <1>9
  <2>5. QED
    BY <1>2, <1>7, <2>2, <2>3, <2>4, OneReader
<1>10. CASE n # 0
  <2>1. PICK k : k = n - 1
    OBVIOUS
  <2>2. PICK x : x = [reader[r] EXCEPT !.found = u, !.pc = "read", !.number = k]
    BY SMTT(60)
  <2>3. k \in 0 .. (Keep + 1) /\ k <= Keep /\ \A m \in 0 .. n : m = n \/ m \in 0 .. k
    BY SMTT(60), <1>2, <1>10, <2>1
  <2>4. reader' = [reader EXCEPT ![r] = x]
    BY <1>1, <1>3, <1>6, <1>10, <2>1, <2>2 DEF readFile
  <2>5. /\ x \in Reader /\ x.pc = "read" /\ x.found = u /\ x.number = k
        /\ x.from = reader[r].from /\ x.disturbed = reader[r].disturbed
    BY <1>2, <1>7, <2>2, <2>3 DEF Reader
  <2>6. \A m \in 0 .. k : Below(u, logs[m].entries)
    <3>1. \A m \in 0 .. k : m \in Numbers /\ m < n
      BY <1>2, <2>1, <2>3
    <3>2. QED
      BY <1>7, <3>1
  <2>7. ~cut /\ ~reader[r].disturbed =>
          \A e \in acked : Owed(e) /\ e <= reader[r].from =>
            Holds(u, e) \/ \E m \in 0 .. k : Holds(logs[m].entries, e)
    BY <1>3, <1>7, <1>8, <2>3
  <2>8. QED
    BY ZenonT(60), <1>2, <1>7, <1>8, <2>3, <2>4, <2>5, <2>6, <2>7, OneReader
<1>11. QED
  BY <1>9, <1>10

\* A reader that is done.
LEMMA AnswerKeeps == ASSUME LogInv, NEW r \in Readers, Answer(r) PROVE LogInv'
<1>1. PICK x : x = NoReader
  OBVIOUS
<1>2. x \in Reader /\ x.pc = "idle" /\ x.found = <<>> /\ x.from = 0
  BY <1>1 DEF NoReader, Reader
<1>3. reader' = [reader EXCEPT ![r] = x] /\ UNCHANGED <<logs, writer, next, faults, acked, hurt, cut>>
  BY <1>1 DEF Answer
<1>4. 0 < next
  BY DEF LogInv, LogTypeOK
<1>5. QED
  BY <1>2, <1>3, <1>4, NoEntries, OneReader

----------------------------------------------------------------------------
\* Every step keeps the invariant.
LEMMA LogNextKeeps == LogInv /\ [LogNext]_logVars => LogInv'
<1> SUFFICES ASSUME LogInv, [LogNext]_logVars PROVE LogInv'
  OBVIOUS
<1>1. CASE Write \/ RemoveOldest \/ Shift \/ Reopen \/ AppendLine \/ BrokerDies \/ OpenWriter
  BY <1>1, WriteKeeps, RemoveOldestKeeps, ShiftKeeps, ReopenKeeps, AppendLineKeeps,
     BrokerDiesKeeps, OpenWriterKeeps
<1>2. ASSUME NEW r \in Readers,
             \/ handleLog(r) \/ readBrokerLogEntries(r)
             \/ StatRotated(r) \/ readFile(r) \/ Answer(r)
      PROVE  LogInv'
  BY <1>2, BeginsKeeps, StatKeeps, ReadFileKeeps, AnswerKeeps DEF handleLog, readBrokerLogEntries
<1>3. CASE UNCHANGED logVars
  <2>1. UNCHANGED <<logs, writer, next, reader, faults, acked, hurt, cut>>
    BY <1>3 DEF logVars
  <2>2. LogTypeOK' /\ WriterFits' /\ FilesOrdered' /\ ReadersOrdered'
    BY <2>1 DEF LogInv, LogTypeOK, WriterFits, Exists, FilesOrdered, ReadersOrdered
  <2>3. Whole'
    BY <2>1 DEF LogInv, Whole, Gapless, Exists, Hole, Spaced, Room, Moved, OwedKept, Owed,
                ReadersComplete
  <2>4. QED
    BY <2>2, <2>3 DEF LogInv
<1>4. QED
  BY <1>1, <1>2, <1>3 DEF LogNext

LogSpec == LogInit /\ [][LogNext]_logVars

\* A read finds the entries in order and none twice, and misses none that it
\* owes, for every number of files, lines, writes, faults and readers:
\* LogReadsInOrder.
THEOREM LogIsReadInOrder == LogSpec => []LogReadsInOrder
<1>1. LogInv => LogReadsInOrder
  <2> SUFFICES ASSUME LogInv, NEW r \in Readers
      PROVE  /\ \A i \in 1 .. (Len(reader[r].found) - 1) : reader[r].found[i] < reader[r].found[i + 1]
             /\ (reader[r].pc = "done" /\ ~reader[r].disturbed /\ ~cut)
                  => \A e \in acked \ hurt :
                       (e <= reader[r].from /\ next - e <= Keep * MaxLines)
                         => Contains(reader[r].found, e)
    BY DEF LogReadsInOrder
  <2>1. PICK s : s = reader[r].found
    OBVIOUS
  <2>2. s \in Seq(Nat) /\ Rises(s)
    BY <2>1, LogTypes DEF LogInv, ReadersOrdered
  <2>3. DOMAIN s = 1 .. Len(s) /\ Len(s) \in Nat
    BY <2>2
  <2>4. \A i \in 1 .. (Len(s) - 1) : s[i] < s[i + 1]
    BY <2>2, <2>3 DEF Rises
  <2>5. \A e : Holds(s, e) => Contains(s, e)
    BY <2>3 DEF Holds, Contains
  <2>6. ASSUME reader[r].pc = "done", ~reader[r].disturbed, ~cut, NEW e \in acked \ hurt,
               e <= reader[r].from, next - e <= Keep * MaxLines
        PROVE  Holds(s, e)
    BY <2>1, <2>6 DEF LogInv, Whole, ReadersComplete, Owed
  <2>7. QED
    BY <2>1, <2>4, <2>5, <2>6
<1>2. QED
  BY LogInitInv, LogNextKeeps, <1>1, PTL DEF LogSpec

HIDE LogBounds

----------------------------------------------------------------------------
(* The broker as a process: BrokerDaemon, with the assumptions it names.     *)

USE DaemonNone, DaemonTimes, DaemonChoices

\* What a command does to itself.
LEMMA CmdType ==
    ASSUME TypeOK, NEW c \in Commands,
           \/ \E step \in Steps : Goto(c, step) \/ Reach(c, step)
           \/ End(c) \/ UNCHANGED cmd
           \/ \E version \in Versions :
                 cmd' = [cmd EXCEPT ![c] = [NoCmd EXCEPT !.pc = "ensure", !.version = version]]
    PROVE  cmd' \in [Commands -> Cmd]
<1>1. NoCmd \in Cmd /\ cmd \in [Commands -> Cmd] /\ cmd[c] \in Cmd
  <2>1. NoCmd \in Cmd
    BY DEF NoCmd, Cmd, Steps
  <2>2. cmd \in [Commands -> Cmd]
    BY DEF TypeOK
  <2>3. QED
    BY <2>1, <2>2
<1>2. CASE \E step \in Steps : Goto(c, step)
  <2>1. PICK step \in Steps : Goto(c, step)
    BY <1>2
  <2>2. [cmd[c] EXCEPT !.pc = step] \in Cmd
    BY <1>1 DEF Cmd
  <2>3. QED
    BY <1>1, <2>1, <2>2 DEF Goto
<1>3. CASE \E step \in Steps : Reach(c, step)
  <2>1. PICK step \in Steps : Reach(c, step)
    BY <1>3
  <2>2. [NoCmd EXCEPT !.pc = step] \in Cmd
    BY <1>1 DEF Cmd
  <2>3. QED
    BY <1>1, <2>1, <2>2 DEF Reach
<1>4. ASSUME NEW version \in Versions,
             cmd' = [cmd EXCEPT ![c] = [NoCmd EXCEPT !.pc = "ensure", !.version = version]]
      PROVE  cmd' \in [Commands -> Cmd]
  <2>1. [NoCmd EXCEPT !.pc = "ensure", !.version = version] \in Cmd
    BY <1>1 DEF Cmd, Steps
  <2>2. QED
    BY <1>1, <1>4, <2>1
<1>5. CASE End(c) \/ UNCHANGED cmd
  BY <1>1, <1>5 DEF End
<1>6. QED
  BY <1>2, <1>3, <1>4, <1>5

\* What a broker does to itself.
LEMMA BrokerType ==
    ASSUME TypeOK, NEW b \in Brokers
    PROVE  /\ NoBroker \in Broker /\ NoBroker.pc = "none" /\ ~NoBroker.stop
           /\ \A phase \in BrokerPhases :
                 /\ [broker[b] EXCEPT !.pc = phase] \in Broker
                 /\ [broker[b] EXCEPT !.pc = phase].pc = phase
                 /\ [broker[b] EXCEPT !.pc = phase].stop = broker[b].stop
                 /\ [broker[b] EXCEPT !.pc = phase].age = broker[b].age
           /\ [broker[b] EXCEPT !.stop = TRUE] \in Broker
           /\ [broker[b] EXCEPT !.stop = TRUE].pc = broker[b].pc
           /\ [broker[b] EXCEPT !.stop = TRUE].age = broker[b].age
           /\ [NoBroker EXCEPT !.pc = "unlinked"] \in Broker
           /\ [NoBroker EXCEPT !.pc = "unlinked"].pc = "unlinked"
           /\ \A version \in Versions \cup {None} :
                 /\ [NoBroker EXCEPT !.pc = "spawned", !.version = version] \in Broker
                 /\ [NoBroker EXCEPT !.pc = "spawned", !.version = version].pc = "spawned"
<1>1. broker[b] \in Broker
  BY DEF TypeOK
<1>2. NoBroker \in Broker /\ NoBroker.pc = "none" /\ ~NoBroker.stop
  BY DEF NoBroker, Broker, BrokerPhases
<1>3. QED
  BY <1>1, <1>2 DEF Broker, BrokerPhases

\* What a broker does to its entry.
LEMMA EntryType ==
    ASSUME TypeOK, NEW b \in Brokers
    PROVE  /\ NoEntry \in Entry /\ NoEntry.is = "absent" /\ ~NoEntry.due
           /\ [NoEntry EXCEPT !.is = "bound"] \in Entry
           /\ [NoEntry EXCEPT !.is = "bound"].is = "bound"
           /\ ~[NoEntry EXCEPT !.is = "bound"].due
           /\ [NoEntry EXCEPT !.is = "unbound", !.foreign = TRUE] \in Entry
           /\ [NoEntry EXCEPT !.is = "unbound", !.foreign = TRUE].is = "unbound"
           /\ [NoEntry EXCEPT !.is = "unbound", !.foreign = TRUE].foreign
           /\ ~[NoEntry EXCEPT !.is = "unbound", !.foreign = TRUE].due
           /\ [NoEntry EXCEPT !.is = "binding", !.attempts = 1, !.due = TRUE] \in Entry
           /\ [NoEntry EXCEPT !.is = "binding", !.attempts = 1, !.due = TRUE].is = "binding"
           /\ [NoEntry EXCEPT !.is = "binding", !.attempts = 1, !.due = TRUE].attempts = 1
<1>1. NoEntry \in Entry /\ NoEntry.is = "absent" /\ NoEntry.due = FALSE
  BY DEF NoEntry, Entry
<1>2. 1 \in 0 .. bindAttempts
  OBVIOUS
<1>3. QED
  BY <1>1, <1>2 DEF Entry

Young == {"none", "spawned", "probing", "binding"}

\* What a broker says of the address is so, it tries to bind it only while it
\* says that it does, and one that does not serve yet says nothing.
EntriesFit ==
    \A b \in Brokers :
        /\ entry[b].is = "bound" <=> address = b
        /\ entry[b].due => entry[b].is = "binding"
        /\ broker[b].pc \in Young => entry[b].is = "absent"

\* The entries after a step that changes those of one broker.
LEMMA OneEntry ==
    ASSUME TypeOK, EntriesFit, NEW b \in Brokers, NEW r \in Broker, NEW e \in Entry,
           broker' = [broker EXCEPT ![b] = r], entry' = [entry EXCEPT ![b] = e],
           e.due => e.is = "binding", r.pc \in Young => e.is = "absent",
           address' \in Brokers \cup {None, "other"},
           e.is = "bound" <=> address' = b,
           \A d \in Brokers : d # b => (address' = d <=> address = d)
    PROVE  EntriesFit' /\ broker' \in [Brokers -> Broker] /\ entry' \in [Brokers -> Entry]
<1>1. broker \in [Brokers -> Broker] /\ entry \in [Brokers -> Entry]
  BY DEF TypeOK
<1>2. broker' \in [Brokers -> Broker] /\ entry' \in [Brokers -> Entry]
  BY <1>1
<1>3. \A d \in Brokers : /\ broker'[d] = IF d = b THEN r ELSE broker[d]
                         /\ entry'[d] = IF d = b THEN e ELSE entry[d]
  BY <1>1
<1>4. EntriesFit'
  BY <1>3 DEF EntriesFit
<1>5. QED
  BY <1>2, <1>4

\* A step that changes a broker and leaves its entry alone.
LEMMA SameEntry ==
    ASSUME TypeOK, EntriesFit, NEW b \in Brokers, NEW r \in Broker,
           broker' = [broker EXCEPT ![b] = r], UNCHANGED <<entry, address>>,
           r.pc \in Young => entry[b].is = "absent"
    PROVE  EntriesFit' /\ broker' \in [Brokers -> Broker]
<1>1. broker \in [Brokers -> Broker] /\ entry \in [Brokers -> Entry]
  BY DEF TypeOK
<1>2. \A d \in Brokers : broker'[d] = IF d = b THEN r ELSE broker[d]
  BY <1>1
<1>3. EntriesFit'
  BY <1>2 DEF EntriesFit
<1>4. QED
  BY <1>1, <1>3

\* A step that changes an entry and leaves its broker alone.
LEMMA SameBroker ==
    ASSUME TypeOK, EntriesFit, NEW b \in Brokers, NEW e \in Entry,
           entry' = [entry EXCEPT ![b] = e], UNCHANGED broker,
           e.due => e.is = "binding", broker[b].pc \notin Young,
           e.is = "bound" <=> address' = b,
           \A d \in Brokers : d # b => (address' = d <=> address = d)
    PROVE  EntriesFit' /\ entry' \in [Brokers -> Entry]
<1>1. broker \in [Brokers -> Broker] /\ entry \in [Brokers -> Entry]
  BY DEF TypeOK
<1>2. \A d \in Brokers : entry'[d] = IF d = b THEN e ELSE entry[d]
  BY <1>1
<1>3. EntriesFit'
  BY <1>2 DEF EntriesFit
<1>4. QED
  BY <1>1, <1>3

----------------------------------------------------------------------------
\* The types and the entries after each step.

Fit == TypeOK /\ EntriesFit

LEMMA InitFits == Init => Fit
<1> SUFFICES ASSUME Init PROVE Fit
  OBVIOUS
<1>1. NoBroker \in Broker /\ NoEntry \in Entry /\ NoCmd \in Cmd
  BY DEF NoBroker, Broker, BrokerPhases, NoEntry, Entry, NoCmd, Cmd, Steps
<1>2. TypeOK
  BY <1>1 DEF Init, TypeOK
<1>3. EntriesFit
  BY DEF Init, EntriesFit, NoEntry
<1>4. QED
  BY <1>2, <1>3 DEF Fit

\* A command changes no entry, but for the request that asks for one.
LEMMA CommandsFit ==
    ASSUME Fit, NEW c \in Commands,
           \/ Up(c) \/ Stop(c) \/ GiveUp(c) \/ Ensure(c) \/ Gone(c) \/ RemoveStale(c) \/ Started(c)
    PROVE  Fit'
<1>1. UNCHANGED <<broker, entry, address, pidFile>> /\ socket' \in {socket, None}
  BY DEF Up, Stop, GiveUp, Ensure, Gone, RemoveStale, Started
<1>2. \/ \E step \in Steps : Goto(c, step) \/ Reach(c, step)
      \/ End(c) \/ UNCHANGED cmd
      \/ \E version \in Versions :
            cmd' = [cmd EXCEPT ![c] = [NoCmd EXCEPT !.pc = "ensure", !.version = version]]
  <2>1. Up(c) => \E version \in Versions :
            cmd' = [cmd EXCEPT ![c] = [NoCmd EXCEPT !.pc = "ensure", !.version = version]]
    BY DEF Up
  <2>2. Stop(c) \/ Started(c) => \E step \in Steps : Reach(c, step)
    BY DEF Stop, Started, Steps
  <2>3. GiveUp(c) => End(c)
    BY DEF GiveUp
  <2>4. Ensure(c) => \E step \in Steps : Goto(c, step) \/ Reach(c, step)
    BY DEF Ensure, Steps
  <2>5. Gone(c) \/ RemoveStale(c) => \E step \in Steps : Goto(c, step)
    BY DEF Gone, RemoveStale, Steps
  <2>6. QED
    BY <2>1, <2>2, <2>3, <2>4, <2>5
<1>3. cmd' \in [Commands -> Cmd]
  BY <1>2, CmdType DEF Fit
<1>4. QED
  BY <1>1, <1>3 DEF Fit, TypeOK, EntriesFit

\* A broker is asked to stop.
LEMMA ShutdownFits == ASSUME Fit, NEW c \in Commands, Shutdown(c) PROVE Fit'
<1>1. \E step \in Steps : Goto(c, step) \/ End(c)
  BY DEF Shutdown, Steps
<1>2. cmd' \in [Commands -> Cmd]
  BY <1>1, CmdType DEF Fit
<1>3. UNCHANGED <<socket, pidFile, entry, address>>
  BY DEF Shutdown
<1>4. CASE ~Alive
  BY <1>2, <1>3, <1>4 DEF Shutdown, Fit, TypeOK, EntriesFit
<1>5. CASE Alive
  <2>0. PICK b \in Brokers : b = socket
    BY <1>5 DEF Alive, Fit, TypeOK
  <2>1. PICK r : r = [broker[b] EXCEPT !.stop = TRUE]
    OBVIOUS
  <2>2. broker' = [broker EXCEPT ![b] = r]
    BY <1>5, <2>0, <2>1 DEF Shutdown
  <2>3. r \in Broker /\ r.pc = broker[b].pc
    BY <2>1, BrokerType DEF Fit
  <2>4. EntriesFit' /\ broker' \in [Brokers -> Broker]
    BY <1>3, <2>2, <2>3, SameEntry DEF Fit, EntriesFit
  <2>5. QED
    BY <1>2, <1>3, <2>4 DEF Fit, TypeOK
<1>6. QED
  BY <1>4, <1>5

\* A broker is started, and has no entry yet.
LEMMA SpawnFits == ASSUME Fit, NEW c \in Commands, Spawn(c) PROVE Fit'
<1>1. PICK b \in Brokers :
         /\ In(b, "none")
         /\ broker' = [broker EXCEPT ![b] = [NoBroker EXCEPT !.pc = "spawned",
                                                             !.version = cmd[c].version]]
  BY DEF Spawn
<1>2. PICK r : r = [NoBroker EXCEPT !.pc = "spawned", !.version = cmd[c].version]
  OBVIOUS
<1>3. cmd[c].version \in Versions \cup {None}
  BY DEF Fit, TypeOK, Cmd
<1>4. r \in Broker /\ r.pc = "spawned"
  BY <1>2, <1>3, BrokerType DEF Fit
<1>5. UNCHANGED <<socket, pidFile, entry, address>> /\ Reach(c, "waitAlive")
  BY DEF Spawn
<1>6. entry[b].is = "absent"
  BY <1>1 DEF Fit, EntriesFit, In, Young
<1>7. EntriesFit' /\ broker' \in [Brokers -> Broker]
  BY <1>1, <1>2, <1>4, <1>5, <1>6, SameEntry DEF Fit
<1>8. cmd' \in [Commands -> Cmd]
  BY <1>5, CmdType DEF Fit, Steps
<1>9. QED
  BY <1>5, <1>7, <1>8 DEF Fit, TypeOK

\* A broker that serves is asked for the address.
LEMMA AskListenFits == ASSUME Fit, NEW c \in Commands, AskListen(c) PROVE Fit'
<1>1. UNCHANGED <<socket, pidFile, broker, address>> /\ End(c)
  BY DEF AskListen
<1>2. cmd' \in [Commands -> Cmd]
  BY <1>1, CmdType DEF Fit
<1>3. CASE UNCHANGED entry
  BY <1>1, <1>2, <1>3 DEF Fit, TypeOK, EntriesFit
<1>4. CASE Alive /\ entry[socket].is \notin {"bound", "binding"}
  <2>1. PICK b \in Brokers : b = socket
    BY <1>4 DEF Alive, Fit, TypeOK
  <2>2. PICK e : e = [NoEntry EXCEPT !.is = "binding", !.attempts = 1, !.due = TRUE]
    OBVIOUS
  <2>3. e \in Entry /\ e.is = "binding"
    BY <2>2, EntryType, <2>1 DEF Fit
  <2>4. entry' = [entry EXCEPT ![b] = e]
    BY <1>4, <2>1, <2>2 DEF AskListen
  <2>5. broker[b].pc \notin Young /\ address # b
    BY <1>4, <2>1 DEF Alive, In, Young, Fit, EntriesFit
  <2>6. EntriesFit' /\ entry' \in [Brokers -> Entry]
    BY <1>1, <2>3, <2>4, <2>5, SameBroker DEF Fit
  <2>7. QED
    BY <1>1, <1>2, <2>6 DEF Fit, TypeOK
<1>5. QED
  BY <1>3, <1>4 DEF AskListen

\* A broker that starts or ends.
LEMMA BrokerFits ==
    ASSUME Fit, NEW b \in Brokers,
           \/ SavePID(b) \/ Probe(b) \/ BindSocket(b)
           \/ Signal(b) \/ UnlinkSocket(b) \/ CloseSocket(b)
    PROVE  Fit'
<1>1. PICK r :
         /\ broker' = [broker EXCEPT ![b] = r]
         /\ \/ /\ r = NoBroker \/ r = [broker[b] EXCEPT !.pc = "probing"]
                  \/ r = [broker[b] EXCEPT !.pc = "binding"]
                  \/ r = [broker[b] EXCEPT !.pc = "serving"]
               /\ broker[b].pc \in Young
            \/ r = [broker[b] EXCEPT !.stop = TRUE] \/ r = [NoBroker EXCEPT !.pc = "unlinked"]
               \/ r = [broker[b] EXCEPT !.pc = "grace"]
  <2>1. CASE SavePID(b)
    <3>1. PICK r : r = [broker[b] EXCEPT !.pc = "probing"]
      OBVIOUS
    <3>2. QED
      BY <2>1, <3>1 DEF SavePID, In, Young
  <2>2. CASE Probe(b)
    <3>1. PICK r : r = IF Alive THEN NoBroker ELSE [broker[b] EXCEPT !.pc = "binding"]
      OBVIOUS
    <3>2. QED
      BY <2>2, <3>1 DEF Probe, In, Young
  <2>3. CASE BindSocket(b)
    <3>1. PICK r : r = IF socket = None THEN [broker[b] EXCEPT !.pc = "serving"] ELSE NoBroker
      OBVIOUS
    <3>2. QED
      BY <2>3, <3>1 DEF BindSocket, In, Young
  <2>4. CASE Signal(b)
    <3>1. PICK r : r = [broker[b] EXCEPT !.stop = TRUE]
      OBVIOUS
    <3>2. QED
      BY <2>4, <3>1 DEF Signal
  <2>5. CASE UnlinkSocket(b)
    <3>1. PICK r : r = [NoBroker EXCEPT !.pc = "unlinked"]
      OBVIOUS
    <3>2. QED
      BY <2>5, <3>1 DEF UnlinkSocket
  <2>6. CASE CloseSocket(b)
    <3>1. PICK r : r = [broker[b] EXCEPT !.pc = "grace"]
      OBVIOUS
    <3>2. QED
      BY <2>6, <3>1 DEF CloseSocket
  <2>7. QED
    BY <2>1, <2>2, <2>3, <2>4, <2>5, <2>6
<1>2. r \in Broker /\ (r.pc \in Young => broker[b].pc \in Young)
  <2>1. \A phase \in BrokerPhases : [broker[b] EXCEPT !.pc = phase] \in Broker
                                    /\ [broker[b] EXCEPT !.pc = phase].pc = phase
    BY BrokerType DEF Fit
  <2>2. {"probing", "binding", "serving", "grace"} \subseteq BrokerPhases
    BY DEF BrokerPhases
  <2>3. CASE r = [broker[b] EXCEPT !.pc = "grace"]
    BY <2>1, <2>2, <2>3 DEF Young
  <2>4. CASE r = [broker[b] EXCEPT !.stop = TRUE] \/ r = [NoBroker EXCEPT !.pc = "unlinked"]
    BY <2>4, BrokerType DEF Fit, Young
  <2>5. CASE /\ r = NoBroker \/ r = [broker[b] EXCEPT !.pc = "probing"]
                \/ r = [broker[b] EXCEPT !.pc = "binding"]
                \/ r = [broker[b] EXCEPT !.pc = "serving"]
             /\ broker[b].pc \in Young
    <3>1. NoBroker \in Broker
      BY BrokerType DEF Fit
    <3>2. QED
      BY <2>1, <2>2, <2>5, <3>1
  <2>6. QED
    BY <1>1, <2>3, <2>4, <2>5
<1>3. /\ UNCHANGED <<entry, address, cmd>> /\ socket' \in {socket, None, b}
      /\ pidFile' \in {pidFile, None, b}
  BY DEF SavePID, Probe, BindSocket, Signal, UnlinkSocket, CloseSocket, WithoutPID
<1>4. EntriesFit' /\ broker' \in [Brokers -> Broker]
  BY <1>1, <1>2, <1>3, SameEntry DEF Fit, EntriesFit
<1>5. QED
  BY <1>3, <1>4 DEF Fit, TypeOK

\* A broker that is gone holds nothing.
LEMMA ExitFits == ASSUME Fit, NEW b \in Brokers, Exit(b) \/ Crash(b) PROVE Fit'
<1>1. /\ address' = IF address = b THEN None ELSE address
      /\ entry' = [entry EXCEPT ![b] = NoEntry]
      /\ broker' = [broker EXCEPT ![b] = NoBroker]
      /\ UNCHANGED <<socket, cmd>> /\ pidFile' \in {pidFile, None}
  BY DEF Exit, Crash, WithoutPID
<1>2. PICK r, e : r = NoBroker /\ e = NoEntry
  OBVIOUS
<1>3. r \in Broker /\ e \in Entry /\ e.is = "absent" /\ ~e.due
  BY <1>2, BrokerType, EntryType DEF Fit
<1>4. address' \in Brokers \cup {None, "other"} /\ address' # b
      /\ \A d \in Brokers : d # b => (address' = d <=> address = d)
  BY <1>1 DEF Fit, TypeOK
<1>5. EntriesFit' /\ broker' \in [Brokers -> Broker] /\ entry' \in [Brokers -> Entry]
  BY <1>1, <1>2, <1>3, <1>4, OneEntry DEF Fit
<1>6. QED
  BY <1>1, <1>4, <1>5 DEF Fit, TypeOK

\* A bind that succeeds takes an address that nobody has.
LEMMA TryBindFits == ASSUME Fit, NEW b \in Brokers, TryBind(b) PROVE Fit'
<1>1. entry[b].due /\ UNCHANGED <<socket, pidFile, broker, cmd>>
  BY DEF TryBind
<1>2. entry[b].is = "binding" /\ broker[b].pc \notin Young /\ address # b
  BY <1>1 DEF Fit, EntriesFit
<1>3. CASE address = None
  <2>1. PICK e : e = [NoEntry EXCEPT !.is = "bound"]
    OBVIOUS
  <2>2. e \in Entry /\ e.is = "bound" /\ ~e.due
    BY <2>1, EntryType DEF Fit
  <2>3. address' = b /\ entry' = [entry EXCEPT ![b] = e]
    BY <1>3, <2>1 DEF TryBind
  <2>4. EntriesFit' /\ entry' \in [Brokers -> Entry]
    BY <1>1, <1>2, <1>3, <2>2, <2>3, SameBroker DEF Fit
  <2>5. QED
    BY <1>1, <2>3, <2>4 DEF Fit, TypeOK
<1>4. CASE address # None
  <2>1. PICK e : e = [entry[b] EXCEPT
                        !.is = IF entry[b].attempts = bindAttempts THEN "unbound" ELSE @,
                        !.due = FALSE,
                        !.foreign = @ \/ address = "other"]
    OBVIOUS
  <2>2. entry[b] \in Entry
    BY DEF Fit, TypeOK
  <2>3. e \in Entry /\ e.is \in {"binding", "unbound"} /\ ~e.due
    BY <1>2, <2>1, <2>2 DEF Entry
  <2>4. address' = address /\ entry' = [entry EXCEPT ![b] = e]
    BY <1>4, <2>1 DEF TryBind
  <2>5. EntriesFit' /\ entry' \in [Brokers -> Entry]
    BY <1>1, <1>2, <2>3, <2>4, SameBroker DEF Fit
  <2>6. QED
    BY <1>1, <2>4, <2>5 DEF Fit, TypeOK
<1>5. QED
  BY <1>3, <1>4

\* A server that stops gives the address up.
LEMMA ServeListenerFits == ASSUME Fit, NEW b \in Brokers, ServeListener(b) PROVE Fit'
<1>1. /\ entry[b].is = "bound" /\ address' = None /\ UNCHANGED <<socket, pidFile, broker, cmd>>
      /\ entry' = [entry EXCEPT ![b] = [NoEntry EXCEPT !.is = "unbound", !.foreign = TRUE]]
  BY DEF ServeListener
<1>2. PICK e : e = [NoEntry EXCEPT !.is = "unbound", !.foreign = TRUE]
  OBVIOUS
<1>3. e \in Entry /\ e.is = "unbound" /\ ~e.due
  BY <1>2, EntryType DEF Fit
<1>4. broker[b].pc \notin Young /\ address = b
  BY <1>1 DEF Fit, EntriesFit
<1>5. EntriesFit' /\ entry' \in [Brokers -> Entry]
  BY <1>1, <1>2, <1>3, <1>4, SameBroker DEF Fit
<1>6. QED
  BY <1>1, <1>5 DEF Fit, TypeOK

\* Another program takes only what nobody has.
LEMMA OtherHolderFits == ASSUME Fit, OtherHolder PROVE Fit'
BY DEF OtherHolder, Fit, TypeOK, EntriesFit

\* A round gives every bind that waits another try.
LEMMA TickFits == ASSUME Fit, Tick PROVE Fit'
<1>1. ASSUME NEW b \in Brokers
      PROVE  /\ entry'[b] \in Entry /\ entry'[b].is = entry[b].is
             /\ entry'[b].due => entry'[b].is = "binding"
             /\ broker'[b] \in Broker /\ broker'[b].pc = broker[b].pc
  <2>1. entry[b] \in Entry /\ broker[b] \in Broker /\ (entry[b].due => entry[b].is = "binding")
    BY DEF Fit, TypeOK, EntriesFit
  <2>2. entry'[b] = IF entry[b].is = "binding" /\ entry[b].attempts < bindAttempts
                    THEN [entry[b] EXCEPT !.due = TRUE, !.attempts = @ + 1]
                    ELSE entry[b]
    BY DEF Tick
  <2>3. broker'[b] = IF In(b, "grace") THEN [broker[b] EXCEPT !.age = @ + 1] ELSE broker[b]
    BY DEF Tick
  <2>4. In(b, "grace") => broker[b].age < Grace
    BY DEF Tick
  <2>5. /\ entry'[b] \in Entry /\ entry'[b].is = entry[b].is
        /\ entry'[b].due => entry'[b].is = "binding"
    <3>1. CASE entry[b].is = "binding" /\ entry[b].attempts < bindAttempts
      <4>1. PICK n : n = entry[b].attempts + 1
        OBVIOUS
      <4>2. n \in 0 .. bindAttempts
        BY <2>1, <3>1, <4>1 DEF Entry
      <4>3. entry'[b] = [entry[b] EXCEPT !.due = TRUE, !.attempts = n]
        BY <2>2, <3>1, <4>1
      <4>4. QED
        BY <2>1, <3>1, <4>2, <4>3 DEF Entry
    <3>2. QED
      BY <2>1, <2>2, <3>1
  <2>6. broker'[b] \in Broker /\ broker'[b].pc = broker[b].pc
    <3>1. CASE In(b, "grace")
      <4>1. PICK n : n = broker[b].age + 1
        OBVIOUS
      <4>2. n \in 0 .. Grace
        BY <2>1, <2>4, <3>1, <4>1 DEF Broker
      <4>3. broker'[b] = [broker[b] EXCEPT !.age = n]
        BY <2>3, <3>1, <4>1
      <4>4. QED
        BY <2>1, <4>2, <4>3 DEF Broker
    <3>2. QED
      BY <2>1, <2>3, <3>1
  <2>7. QED
    BY <2>5, <2>6
<1>2. entry' \in [Brokers -> Entry]
  <2>1. entry' = [b \in Brokers |-> entry'[b]]
    BY DEF Tick
  <2>2. QED
    BY <1>1, <2>1
<1>3. broker' \in [Brokers -> Broker]
  <2>1. broker' = [b \in Brokers |-> broker'[b]]
    BY DEF Tick
  <2>2. QED
    BY <1>1, <2>1
<1>4. UNCHANGED <<socket, pidFile, address, cmd>>
  BY DEF Tick
<1>5. EntriesFit'
  BY <1>1, <1>4 DEF Fit, EntriesFit
<1>6. QED
  BY <1>2, <1>3, <1>4, <1>5 DEF Fit, TypeOK

\* Every step keeps types and entries.
LEMMA NextFits == Fit /\ [Next]_vars => Fit'
<1> SUFFICES ASSUME Fit, [Next]_vars PROVE Fit'
  OBVIOUS
<1>1. ASSUME NEW c \in Commands, Up(c) \/ Stop(c) \/ GiveUp(c) \/ CommandStep(c) PROVE Fit'
  BY <1>1, CommandsFit, ShutdownFits, SpawnFits, AskListenFits DEF CommandStep
<1>2. ASSUME NEW b \in Brokers, Signal(b) \/ Crash(b) \/ ServeListener(b) \/ BrokerStep(b)
      PROVE  Fit'
  BY <1>2, BrokerFits, ExitFits, TryBindFits, ServeListenerFits DEF BrokerStep
<1>3. CASE OtherHolder \/ Tick
  BY <1>3, OtherHolderFits, TickFits
<1>4. CASE UNCHANGED vars
  BY <1>4 DEF vars, Fit, TypeOK, EntriesFit
<1>5. QED
  BY <1>1, <1>2, <1>3, <1>4 DEF Next

----------------------------------------------------------------------------
(* One broker serves.                                                       *)

Ensures(c) == cmd[c].pc \in {"ensure", "replace", "waitGone", "unlink", "spawn", "waitAlive"}
Early(c) == cmd[c].pc \in {"ensure", "replace", "waitGone", "unlink", "spawn"}
Starts(b) == broker[b].pc \in {"spawned", "probing", "binding"}

\* One broker at most is started at a time, by one command, and only while no
\* other serves or is about to remove a socket by its name. So the socket and
\* the pid file are those of the one that serves.
OneServes ==
    /\ \A c, d \in Commands : Ensures(c) /\ Ensures(d) => c = d
    /\ \A b, d \in Brokers : Starts(b) /\ Starts(d) => b = d
    /\ \A c \in Commands, b \in Brokers : Early(c) => ~Starts(b)
    /\ \A b, d \in Brokers : In(b, "serving") => ~Starts(d) /\ ~In(d, "unlinked")
    /\ \A b \in Brokers, c \in Commands :
          In(b, "serving") => cmd[c].pc \notin {"unlink", "spawn"}
    /\ \A b \in Brokers : In(b, "serving") => socket = b /\ pidFile = b
    /\ \A b \in Brokers : broker[b].pc \in {"probing", "binding"} => pidFile = b

\* Where no broker answers none serves.
LEMMA NoneServes == ASSUME OneServes, ~Alive PROVE \A b \in Brokers : ~In(b, "serving")
BY DEF OneServes, Alive

\* A step of a command: the others stay where they are.
LEMMA CommandMoves ==
    ASSUME Fit, NEW c \in Commands
    PROVE  /\ \A step : Goto(c, step) \/ Reach(c, step) => cmd'[c].pc = step
           /\ End(c) => cmd'[c].pc = "idle"
           /\ \A version :
                cmd' = [cmd EXCEPT ![c] = [NoCmd EXCEPT !.pc = "ensure", !.version = version]]
                => cmd'[c].pc = "ensure"
           /\ (\E step : Goto(c, step) \/ Reach(c, step)) \/ End(c)
                \/ (\E version : cmd' = [cmd EXCEPT ![c] =
                                   [NoCmd EXCEPT !.pc = "ensure", !.version = version]])
                => \A d \in Commands : d # c => cmd'[d] = cmd[d]
<1>1. cmd \in [Commands -> Cmd] /\ cmd[c] \in Cmd
  BY DEF Fit, TypeOK
<1>2. \A step : Goto(c, step) => cmd'[c].pc = step
  BY <1>1 DEF Goto, Cmd
<1>3. \A step : Reach(c, step) => cmd'[c].pc = step
  BY <1>1 DEF Reach, NoCmd
<1>4. End(c) => cmd'[c].pc = "idle"
  BY <1>1 DEF End, NoCmd
<1>5. \A version :
        cmd' = [cmd EXCEPT ![c] = [NoCmd EXCEPT !.pc = "ensure", !.version = version]]
        => cmd'[c].pc = "ensure"
  BY <1>1 DEF NoCmd
<1>6. \A d \in Commands : \A step : d # c /\ (Goto(c, step) \/ Reach(c, step)) => cmd'[d] = cmd[d]
  BY <1>1 DEF Goto, Reach
<1>7. \A d \in Commands : d # c /\ End(c) => cmd'[d] = cmd[d]
  BY <1>1 DEF End
<1>8. QED
  BY <1>1, <1>2, <1>3, <1>4, <1>5, <1>6, <1>7

\* A step of a broker: the others stay where they are.
LEMMA BrokerMoves ==
    ASSUME Fit, NEW b \in Brokers
    PROVE  /\ \A phase : broker' = [broker EXCEPT ![b].pc = phase] =>
                 broker'[b].pc = phase /\ \A d \in Brokers : d # b => broker'[d] = broker[d]
           /\ broker' = [broker EXCEPT ![b].stop = TRUE] =>
                 broker'[b].pc = broker[b].pc /\ \A d \in Brokers : d # b => broker'[d] = broker[d]
           /\ broker' = [broker EXCEPT ![b] = NoBroker] =>
                 broker'[b].pc = "none" /\ \A d \in Brokers : d # b => broker'[d] = broker[d]
           /\ broker' = [broker EXCEPT ![b] = [NoBroker EXCEPT !.pc = "unlinked"]] =>
                 broker'[b].pc = "unlinked" /\ \A d \in Brokers : d # b => broker'[d] = broker[d]
           /\ \A version :
                 broker' = [broker EXCEPT ![b] = [NoBroker EXCEPT !.pc = "spawned",
                                                                  !.version = version]] =>
                 broker'[b].pc = "spawned" /\ \A d \in Brokers : d # b => broker'[d] = broker[d]
<1>1. broker \in [Brokers -> Broker] /\ broker[b] \in Broker
  BY DEF Fit, TypeOK
<1>2. \A phase : broker' = [broker EXCEPT ![b].pc = phase] => broker'[b].pc = phase
  BY <1>1 DEF Broker
<1>3. broker' = [broker EXCEPT ![b].stop = TRUE] => broker'[b].pc = broker[b].pc
  BY <1>1 DEF Broker
<1>4. broker' = [broker EXCEPT ![b] = NoBroker] => broker'[b].pc = "none"
  BY <1>1 DEF NoBroker
<1>5. broker' = [broker EXCEPT ![b] = [NoBroker EXCEPT !.pc = "unlinked"]] =>
        broker'[b].pc = "unlinked"
  BY <1>1 DEF NoBroker
<1>6. \A version : broker' = [broker EXCEPT ![b] = [NoBroker EXCEPT !.pc = "spawned",
                                                                   !.version = version]] =>
        broker'[b].pc = "spawned"
  BY <1>1 DEF NoBroker
<1>7. \A r : broker' = [broker EXCEPT ![b] = r] =>
        \A d \in Brokers : d # b => broker'[d] = broker[d]
  BY <1>1
<1>8. QED
  BY <1>2, <1>3, <1>4, <1>5, <1>6, <1>7

\* A command that starts, waits, gives up or ends.
LEMMA CommandsServe ==
    ASSUME OneStart, Fit, OneServes, NEW c \in Commands,
           Up(c) \/ Stop(c) \/ GiveUp(c) \/ Ensure(c) \/ Gone(c) \/ Started(c) \/ AskListen(c)
    PROVE  OneServes'
<1>1. UNCHANGED <<broker, socket, pidFile>>
  BY DEF Up, Stop, GiveUp, Ensure, Gone, Started, AskListen
<1>2. \/ cmd'[c].pc \in {"idle", "listen", "stop"}
      \/ cmd'[c].pc = "ensure" /\ ~Ensuring /\ ~Starting
      \/ cmd'[c].pc = "unlink" /\ Early(c) /\ ~Alive
      \/ cmd'[c].pc = "replace" /\ Early(c)
  <2>1. Up(c) => cmd'[c].pc = "ensure" /\ ~Ensuring /\ ~Starting
    BY CommandMoves DEF Up
  <2>2. Stop(c) \/ GiveUp(c) \/ Started(c) \/ AskListen(c) =>
          cmd'[c].pc \in {"idle", "listen", "stop"}
    BY CommandMoves DEF Stop, GiveUp, Started, AskListen
  <2>3. Ensure(c) \/ Gone(c) => \/ cmd'[c].pc = "unlink" /\ Early(c) /\ ~Alive
                                \/ cmd'[c].pc = "replace" /\ Early(c)
                                \/ cmd'[c].pc = "listen"
    BY CommandMoves DEF Ensure, Gone, Step, Early
  <2>4. QED
    BY <2>1, <2>2, <2>3
<1>3. \A d \in Commands : d # c => cmd'[d] = cmd[d]
  BY CommandMoves DEF Up, Stop, GiveUp, Ensure, Gone, Started, AskListen
<1>4. CASE cmd'[c].pc \in {"idle", "listen", "stop"}
  BY <1>1, <1>3, <1>4 DEF OneServes, Ensures, Early, Starts, In
<1>5. CASE cmd'[c].pc = "ensure" /\ ~Ensuring /\ ~Starting
  BY <1>1, <1>3, <1>5 DEF OneServes, Ensures, Early, Starts, In, Ensuring, Starting
<1>6. CASE cmd'[c].pc = "replace" /\ Early(c)
  BY <1>1, <1>3, <1>6 DEF OneServes, Ensures, Early, Starts, In
<1>7. CASE cmd'[c].pc = "unlink" /\ Early(c) /\ ~Alive
  BY <1>1, <1>3, <1>7, NoneServes DEF OneServes, Ensures, Early, Starts, In
<1>8. QED
  BY <1>2, <1>4, <1>5, <1>6, <1>7

\* A broker that is asked to stop still serves, and the command waits for it.
LEMMA ShutdownServes ==
    ASSUME Fit, OneServes, NEW c \in Commands, Shutdown(c) PROVE OneServes'
<1>1. \A b \in Brokers : broker'[b].pc = broker[b].pc
  <2>1. CASE UNCHANGED broker
    BY <2>1
  <2>2. CASE broker' = [broker EXCEPT ![socket].stop = TRUE]
    BY <2>2 DEF Fit, TypeOK, Broker
  <2>3. QED
    BY <2>1, <2>2 DEF Shutdown
<1>2. \/ cmd'[c].pc = "idle"
      \/ cmd'[c].pc = "waitGone" /\ Early(c)
  BY CommandMoves DEF Shutdown, Step, Early
<1>3. \A d \in Commands : d # c => cmd'[d] = cmd[d]
  BY CommandMoves DEF Shutdown
<1>4. UNCHANGED <<socket, pidFile>>
  BY DEF Shutdown
<1>5. CASE cmd'[c].pc = "idle"
  BY <1>1, <1>3, <1>4, <1>5 DEF OneServes, Ensures, Early, Starts, In
<1>6. CASE cmd'[c].pc = "waitGone" /\ Early(c)
  BY <1>1, <1>3, <1>4, <1>6 DEF OneServes, Ensures, Early, Starts, In
<1>7. QED
  BY <1>2, <1>5, <1>6

\* The socket that is removed by its name is nobody's that serves.
LEMMA RemoveStaleServes ==
    ASSUME Fit, OneServes, NEW c \in Commands, RemoveStale(c) PROVE OneServes'
<1>1. cmd[c].pc = "unlink" /\ cmd'[c].pc = "spawn" /\ UNCHANGED <<broker, pidFile>>
      /\ \A d \in Commands : d # c => cmd'[d] = cmd[d]
  BY CommandMoves DEF RemoveStale, Step
<1>2. QED
  BY <1>1 DEF OneServes, Ensures, Early, Starts, In

\* The broker that is started is the only one.
LEMMA SpawnServes == ASSUME Fit, OneServes, NEW c \in Commands, Spawn(c) PROVE OneServes'
<1>1. /\ cmd[c].pc = "spawn" /\ cmd'[c].pc = "waitAlive" /\ UNCHANGED <<socket, pidFile>>
      /\ \A d \in Commands : d # c => cmd'[d] = cmd[d]
  BY CommandMoves DEF Spawn, Step
<1>2. PICK b \in Brokers :
         broker' = [broker EXCEPT ![b] = [NoBroker EXCEPT !.pc = "spawned",
                                                          !.version = cmd[c].version]]
  BY DEF Spawn
<1>3. broker'[b].pc = "spawned" /\ \A d \in Brokers : d # b => broker'[d] = broker[d]
  BY <1>2, BrokerMoves
<1>4. QED
  BY <1>1, <1>3 DEF OneServes, Ensures, Early, Starts, In

\* A broker on its way from its start to its socket.
LEMMA StartsServe ==
    ASSUME PromptClose, Fit, OneServes, NEW b \in Brokers, SavePID(b) \/ Probe(b) \/ BindSocket(b)
    PROVE  OneServes'
<1>1. UNCHANGED cmd
  BY DEF SavePID, Probe, BindSocket
<1>2. Starts(b)
  BY DEF SavePID, Probe, BindSocket, In, Starts
<1>3. \/ broker'[b].pc = "none" /\ pidFile' \in {pidFile, None} /\ socket' = socket
         /\ (pidFile' # pidFile => pidFile = b)
      \/ broker'[b].pc = "probing" /\ pidFile' = b /\ socket' = socket
      \/ broker'[b].pc = "binding" /\ pidFile' = pidFile /\ pidFile = b
      \/ /\ broker'[b].pc = "serving" /\ pidFile' = pidFile /\ pidFile = b /\ socket' = b
         /\ \A d \in Brokers : ~In(d, "unlinked")
  <2>1. broker[b] \in Broker
    BY DEF Fit, TypeOK
  <2>2. SavePID(b) => broker'[b].pc = "probing" /\ pidFile' = b /\ socket' = socket
    BY <2>1, BrokerMoves DEF SavePID, Broker
  <2>3. Probe(b) =>
          \/ broker'[b].pc = "none" /\ pidFile' \in {pidFile, None} /\ socket' = socket
             /\ (pidFile' # pidFile => pidFile = b)
          \/ broker'[b].pc = "binding" /\ pidFile' = pidFile /\ pidFile = b
    BY <2>1, BrokerMoves DEF Probe, Broker, NoBroker, WithoutPID, OneServes, In
  <2>4. BindSocket(b) =>
          \/ broker'[b].pc = "none" /\ pidFile' \in {pidFile, None} /\ socket' = socket
             /\ (pidFile' # pidFile => pidFile = b)
          \/ /\ broker'[b].pc = "serving" /\ pidFile' = pidFile /\ pidFile = b /\ socket' = b
             /\ \A d \in Brokers : ~In(d, "unlinked")
    BY <2>1, BrokerMoves DEF BindSocket, Broker, NoBroker, WithoutPID, OneServes, In
  <2>5. QED
    BY <2>2, <2>3, <2>4
<1>4. \A d \in Brokers : d # b => broker'[d] = broker[d]
  BY BrokerMoves DEF SavePID, Probe, BindSocket
<1>5. \A d \in Brokers : ~In(d, "serving") /\ (d # b => ~Starts(d))
  BY <1>2 DEF OneServes
<1>6. \A c \in Commands : ~Early(c)
  BY <1>2 DEF OneServes
<1>7. CASE broker'[b].pc = "serving" /\ pidFile' = pidFile /\ pidFile = b /\ socket' = b
           /\ \A d \in Brokers : ~In(d, "unlinked")
  BY <1>1, <1>4, <1>5, <1>6, <1>7 DEF OneServes, Ensures, Early, Starts, In
<1>8. CASE broker'[b].pc \in {"none", "probing", "binding"}
           /\ (broker'[b].pc \in {"probing", "binding"} => pidFile' = b)
  BY <1>1, <1>2, <1>4, <1>5, <1>6, <1>8 DEF OneServes, Ensures, Early, Starts, In
<1>9. QED
  BY <1>3, <1>7, <1>8

\* A broker on its way from its socket to its end.
LEMMA EndsServe ==
    ASSUME Fit, OneServes, NEW b \in Brokers,
           \/ Signal(b) \/ UnlinkSocket(b) \/ CloseSocket(b) \/ Exit(b) \/ Crash(b)
           \/ TryBind(b) \/ ServeListener(b)
    PROVE  OneServes'
<1>1. UNCHANGED cmd
  BY DEF Signal, UnlinkSocket, CloseSocket, Exit, Crash, TryBind, ServeListener
<1>2. \A d \in Brokers : d # b => broker'[d] = broker[d]
  BY BrokerMoves DEF Signal, UnlinkSocket, CloseSocket, Exit, Crash, TryBind, ServeListener
<1>3. broker[b] \in Broker
  BY SMTT(60) DEF Fit, TypeOK
<1>4. CASE Signal(b) \/ TryBind(b) \/ ServeListener(b)
  <2>1. broker'[b].pc = broker[b].pc /\ UNCHANGED <<socket, pidFile>>
    BY <1>3, <1>4, BrokerMoves DEF Signal, TryBind, ServeListener, Broker
  <2>2. QED
    BY SMTT(60), <1>1, <1>2, <2>1 DEF OneServes, Ensures, Early, Starts, In
<1>5. CASE UnlinkSocket(b)
  <2>1. broker[b].pc = "serving" /\ broker'[b].pc = "unlinked" /\ UNCHANGED pidFile
    BY <1>3, <1>5, BrokerMoves DEF UnlinkSocket, NoBroker, In
  <2>2. \A d \in Brokers : d # b => ~In(d, "serving")
    BY <2>1 DEF OneServes, In
  <2>3. QED
    BY <1>1, <1>2, <2>1, <2>2 DEF OneServes, Ensures, Early, Starts, In
<1>6. CASE CloseSocket(b)
  <2>1. broker[b].pc = "unlinked" /\ broker'[b].pc = "grace" /\ UNCHANGED pidFile
    BY <1>3, <1>6, BrokerMoves DEF CloseSocket, Broker, In
  <2>2. \A d \in Brokers : ~In(d, "serving")
    BY <2>1 DEF OneServes, In
  <2>3. QED
    BY <1>1, <1>2, <2>1, <2>2 DEF OneServes, Ensures, Early, Starts, In
<1>7. CASE Exit(b) \/ Crash(b)
  <2>1. broker'[b].pc = "none" /\ UNCHANGED socket
        /\ (pidFile' = pidFile \/ (pidFile = b /\ ~Crash(b)))
    BY <1>3, <1>7, BrokerMoves DEF Exit, Crash, NoBroker, WithoutPID
  <2>2. QED
    BY <1>1, <1>2, <2>1 DEF OneServes, Ensures, Early, Starts, In
<1>8. QED
  BY SMTT(60), <1>4, <1>5, <1>6, <1>7

\* Every step keeps it.
LEMMA NextServes ==
    ASSUME OneStart, PromptClose
    PROVE  Fit /\ OneServes /\ [Next]_vars => OneServes'
<1> SUFFICES ASSUME Fit, OneServes, [Next]_vars PROVE OneServes'
  OBVIOUS
<1>1. ASSUME NEW c \in Commands, Up(c) \/ Stop(c) \/ GiveUp(c) \/ CommandStep(c) PROVE OneServes'
  BY <1>1, CommandsServe, ShutdownServes, RemoveStaleServes, SpawnServes DEF CommandStep
<1>2. ASSUME NEW b \in Brokers, Signal(b) \/ Crash(b) \/ ServeListener(b) \/ BrokerStep(b)
      PROVE  OneServes'
  BY <1>2, StartsServe, EndsServe DEF BrokerStep
<1>3. CASE OtherHolder \/ UNCHANGED vars
  BY <1>3 DEF OtherHolder, vars, OneServes, Ensures, Early, Starts, In
<1>4. CASE Tick
  <2>1. ASSUME NEW b \in Brokers PROVE broker'[b].pc = broker[b].pc
    <3>1. broker[b] \in Broker
      BY DEF Fit, TypeOK
    <3>2. broker'[b] = IF In(b, "grace") THEN [broker[b] EXCEPT !.age = @ + 1] ELSE broker[b]
      BY <1>4 DEF Tick
    <3>3. QED
      BY <3>1, <3>2 DEF Broker
  <2>2. UNCHANGED <<socket, pidFile, cmd>>
    BY <1>4 DEF Tick
  <2>3. QED
    BY <2>1, <2>2 DEF OneServes, Ensures, Early, Starts, In
<1>5. QED
  BY <1>1, <1>2, <1>3, <1>4 DEF Next

----------------------------------------------------------------------------
(* The retries of a bind.                                                   *)

\* A broker that has begun to end has had less of its grace than the broker
\* after it has had tries; and a broker that gave the address up knows why.
Outlasts ==
    \A b \in Brokers : In(b, "serving") =>
        /\ entry[b].is = "binding" =>
              \A d \in Brokers : In(d, "grace") => entry[b].attempts <= broker[d].age + 1
        /\ entry[b].is = "unbound" => entry[b].foreign

\* A step that adds no try, or takes the last one of an address that another
\* program has, and after which every broker that ends has ended before.
LEMMA StillOutlasts ==
    ASSUME Fit', Outlasts,
           \A b \in Brokers : broker'[b].pc = "serving" =>
             \/ /\ broker[b].pc = "serving" /\ entry'[b].is = entry[b].is
                /\ entry'[b].attempts = entry[b].attempts
                /\ entry[b].foreign => entry'[b].foreign
             \/ entry'[b].is \in {"absent", "bound"}
             \/ entry'[b].is = "binding" /\ entry'[b].attempts = 1
             \/ entry'[b].is = "unbound" /\ entry'[b].foreign,
           \A d \in Brokers : broker'[d].pc = "grace" =>
             \/ broker[d].pc = "grace" /\ broker'[d].age = broker[d].age
             \/ \A b \in Brokers : broker'[b].pc # "serving"
    PROVE  Outlasts'
<1>1. \A d \in Brokers : broker'[d].age \in Nat
  <2>1. broker' \in [Brokers -> Broker]
    BY DEF Fit, TypeOK
  <2>2. QED
    BY <2>1 DEF Broker
<1>2. ASSUME NEW b \in Brokers, broker'[b].pc = "serving", entry'[b].is = "binding",
             NEW d \in Brokers, broker'[d].pc = "grace"
      PROVE  entry'[b].attempts <= broker'[d].age + 1
  BY <1>1, <1>2 DEF Outlasts, In
<1>3. ASSUME NEW b \in Brokers, broker'[b].pc = "serving", entry'[b].is = "unbound"
      PROVE  entry'[b].foreign
  BY <1>3 DEF Outlasts, In
<1>4. QED
  BY <1>2, <1>3 DEF Outlasts, In

\* A command gives a broker its first try, and starts or stops no more.
LEMMA CommandsOutlast ==
    ASSUME Fit, Fit', Outlasts, NEW c \in Commands,
           Up(c) \/ Stop(c) \/ GiveUp(c) \/ CommandStep(c)
    PROVE  Outlasts'
<1>1. CASE AskListen(c)
  <2>1. UNCHANGED broker
    BY <1>1 DEF AskListen
  <2>2. ASSUME NEW b \in Brokers
        PROVE  entry'[b] = entry[b] \/ (entry'[b].is = "binding" /\ entry'[b].attempts = 1)
    <3>1. CASE UNCHANGED entry
      BY <3>1
    <3>2. CASE Alive /\ entry[socket].is \notin {"bound", "binding"}
      <4>1. PICK e : e = [NoEntry EXCEPT !.is = "binding", !.attempts = 1, !.due = TRUE]
        OBVIOUS
      <4>2. e.is = "binding" /\ e.attempts = 1
        BY <4>1, EntryType DEF Fit
      <4>3. entry' = [entry EXCEPT ![socket] = e]
        BY <1>1, <3>2, <4>1 DEF AskListen
      <4>4. QED
        BY <4>2, <4>3 DEF Fit, TypeOK
    <3>3. QED
      BY <1>1, <3>1, <3>2 DEF AskListen
  <2>3. QED
    BY <2>1, <2>2, StillOutlasts
<1>2. CASE Shutdown(c)
  <2>1. UNCHANGED entry
    BY <1>2 DEF Shutdown
  <2>2. \A b \in Brokers : broker'[b].pc = broker[b].pc /\ broker'[b].age = broker[b].age
    <3>1. CASE UNCHANGED broker
      BY <3>1
    <3>2. CASE broker' = [broker EXCEPT ![socket].stop = TRUE]
      BY <3>2 DEF Fit, TypeOK, Broker
    <3>3. QED
      BY <1>2, <3>1, <3>2 DEF Shutdown
  <2>3. QED
    BY <2>1, <2>2, StillOutlasts
<1>3. CASE Spawn(c)
  <2>1. UNCHANGED entry
    BY <1>3 DEF Spawn
  <2>2. \A b \in Brokers : broker'[b].pc = "spawned" \/ broker'[b] = broker[b]
    BY <1>3, BrokerMoves DEF Spawn
  <2>3. QED
    BY <2>1, <2>2, StillOutlasts
<1>4. CASE Up(c) \/ Stop(c) \/ GiveUp(c) \/ Ensure(c) \/ Gone(c) \/ RemoveStale(c) \/ Started(c)
  <2>1. UNCHANGED <<broker, entry>>
    BY <1>4 DEF Up, Stop, GiveUp, Ensure, Gone, RemoveStale, Started
  <2>2. QED
    BY <2>1 DEF Outlasts, In
<1>5. QED
  BY <1>1, <1>2, <1>3, <1>4 DEF CommandStep

\* A broker ends only while none serves after it, and serves from then on
\* with no entry.
LEMMA BrokersOutlast ==
    ASSUME Fit, Fit', OneServes, Outlasts, NEW b \in Brokers,
           \/ SavePID(b) \/ Probe(b) \/ BindSocket(b) \/ Signal(b)
           \/ UnlinkSocket(b) \/ CloseSocket(b) \/ Exit(b) \/ Crash(b)
    PROVE  Outlasts'
<1>1. \A d \in Brokers : d # b => broker'[d] = broker[d]
  BY BrokerMoves DEF SavePID, Probe, BindSocket, Signal, UnlinkSocket, CloseSocket, Exit, Crash
<1>2. \A d \in Brokers : d # b => entry'[d] = entry[d]
  BY DEF SavePID, Probe, BindSocket, Signal, UnlinkSocket, CloseSocket, Exit, Crash, Fit, TypeOK
<1>3. CASE SavePID(b) \/ Probe(b) \/ UnlinkSocket(b) \/ Exit(b) \/ Crash(b)
  <2>1. broker'[b].pc \notin {"serving", "grace"}
    <3>1. SavePID(b) => broker'[b].pc = "probing"
      <4>1. broker[b] \in Broker /\ broker \in [Brokers -> Broker]
        BY DEF Fit, TypeOK
      <4>2. QED
        BY <4>1 DEF SavePID, Broker
    <3>2. Probe(b) => broker'[b].pc \in {"none", "binding"}
      BY BrokerMoves DEF Probe
    <3>3. UnlinkSocket(b) => broker'[b].pc = "unlinked"
      BY BrokerMoves DEF UnlinkSocket
    <3>4. Exit(b) \/ Crash(b) => broker'[b].pc = "none"
      BY BrokerMoves DEF Exit, Crash
    <3>5. QED
      BY <1>3, <3>1, <3>2, <3>3, <3>4
  <2>2. QED
    BY <1>1, <1>2, <2>1, StillOutlasts
<1>4. CASE BindSocket(b)
  <2>1. broker'[b].pc \in {"serving", "none"} /\ entry'[b].is = "absent"
    BY <1>4, BrokerMoves DEF BindSocket, Fit, EntriesFit, In, Young
  <2>2. QED
    BY <1>1, <1>2, <2>1, StillOutlasts
<1>5. CASE Signal(b)
  <2>1. broker'[b].pc = "serving" /\ broker[b].pc = "serving" /\ UNCHANGED entry
    BY <1>5, BrokerMoves DEF Signal, In
  <2>2. QED
    BY <1>1, <2>1, StillOutlasts
<1>6. CASE CloseSocket(b)
  <2>1. broker[b].pc = "unlinked" /\ broker'[b].pc = "grace"
    BY <1>6, BrokerMoves DEF CloseSocket, In
  <2>2. \A d \in Brokers : broker'[d].pc # "serving"
    BY <1>1, <2>1 DEF OneServes, In
  <2>3. QED
    BY <2>2 DEF Outlasts, In
<1>7. QED
  BY <1>3, <1>4, <1>5, <1>6

\* The last try of a bind fails only for another program: a broker that ends
\* has let the address go before.
LEMMA TryBindOutlasts ==
    ASSUME Fit, Fit', OneServes, Outlasts, NEW b \in Brokers, TryBind(b)
    PROVE  Outlasts'
<1>1. entry[b].due /\ UNCHANGED broker
  BY DEF TryBind
<1>2. entry[b] \in Entry /\ entry[b].is = "binding" /\ entry \in [Brokers -> Entry]
  BY <1>1 DEF Fit, TypeOK, EntriesFit
<1>3. CASE address = None
  <2>1. PICK e : e = [NoEntry EXCEPT !.is = "bound"]
    OBVIOUS
  <2>2. e.is = "bound"
    BY <2>1, EntryType DEF Fit
  <2>3. entry' = [entry EXCEPT ![b] = e]
    BY <1>3, <2>1 DEF TryBind
  <2>4. entry'[b].is = "bound" /\ \A d \in Brokers : d # b => entry'[d] = entry[d]
    BY <1>2, <2>2, <2>3
  <2>5. QED
    BY <1>1, <2>4, StillOutlasts
<1>4. CASE address # None
  <2>1. /\ entry'[b].is = IF entry[b].attempts = bindAttempts THEN "unbound" ELSE entry[b].is
        /\ entry'[b].attempts = entry[b].attempts
        /\ entry[b].foreign => entry'[b].foreign
        /\ address = "other" => entry'[b].foreign
        /\ \A d \in Brokers : d # b => entry'[d] = entry[d]
    BY <1>2, <1>4 DEF TryBind, Entry
  <2>2. ASSUME broker[b].pc = "serving", entry[b].attempts = bindAttempts, address # "other"
        PROVE  FALSE
    <3>1. PICK d \in Brokers : address = d
      BY <1>4, <2>2 DEF Fit, TypeOK
    <3>2. entry[d].is = "bound" /\ d # b
      BY <1>2, <3>1 DEF Fit, EntriesFit
    <3>3. broker[d] \in Broker /\ broker[d].pc \notin Young
      BY <3>2 DEF Fit, TypeOK, EntriesFit
    <3>4. broker[d].pc \notin {"serving", "unlinked"}
      BY <2>2, <3>2 DEF OneServes, In
    <3>5. broker[d].pc = "grace" /\ broker[d].age \in 0 .. Grace
      BY <3>3, <3>4 DEF Broker, BrokerPhases, Young
    <3>6. entry[b].attempts <= broker[d].age + 1
      BY <1>2, <2>2, <3>5 DEF Outlasts, In
    <3>7. QED
      BY <2>2, <3>5, <3>6
  <2>3. QED
    BY <1>1, <2>1, <2>2, StillOutlasts
<1>5. QED
  BY <1>3, <1>4

\* A server that fails says so.
LEMMA ServeListenerOutlasts ==
    ASSUME Fit, Fit', Outlasts, NEW b \in Brokers, ServeListener(b) PROVE Outlasts'
<1>1. PICK e : e = [NoEntry EXCEPT !.is = "unbound", !.foreign = TRUE]
  OBVIOUS
<1>2. e.is = "unbound" /\ e.foreign
  BY <1>1, EntryType DEF Fit
<1>3. entry' = [entry EXCEPT ![b] = e] /\ UNCHANGED broker
  BY <1>1 DEF ServeListener
<1>4. entry'[b].is = "unbound" /\ entry'[b].foreign
      /\ \A d \in Brokers : d # b => entry'[d] = entry[d]
  BY <1>2, <1>3 DEF Fit, TypeOK
<1>5. QED
  BY <1>3, <1>4, StillOutlasts

\* A round is one try more for those that wait and one round more of the
\* grace of those that end.
LEMMA TickOutlasts == ASSUME Fit, Outlasts, Tick PROVE Outlasts'
<1>1. ASSUME NEW b \in Brokers
      PROVE  /\ entry'[b].is = entry[b].is
             /\ entry'[b].attempts <= entry[b].attempts + 1
             /\ entry'[b].attempts \in Nat /\ entry[b].attempts \in Nat
             /\ entry'[b].foreign = entry[b].foreign
  <2>1. entry[b] \in Entry
    BY DEF Fit, TypeOK
  <2>2. entry'[b] = IF entry[b].is = "binding" /\ entry[b].attempts < bindAttempts
                    THEN [entry[b] EXCEPT !.due = TRUE, !.attempts = @ + 1]
                    ELSE entry[b]
    BY DEF Tick
  <2>3. QED
    BY <2>1, <2>2 DEF Entry
<1>2. ASSUME NEW b \in Brokers
      PROVE  /\ broker'[b].pc = broker[b].pc
             /\ broker[b].age \in Nat
             /\ broker[b].pc = "grace" => broker'[b].age = broker[b].age + 1
  <2>1. broker[b] \in Broker
    BY DEF Fit, TypeOK
  <2>2. broker'[b] = IF In(b, "grace") THEN [broker[b] EXCEPT !.age = @ + 1] ELSE broker[b]
    BY DEF Tick
  <2>3. QED
    BY <2>1, <2>2 DEF Broker, In
<1>3. ASSUME NEW b \in Brokers, broker'[b].pc = "serving", entry'[b].is = "binding",
             NEW d \in Brokers, broker'[d].pc = "grace"
      PROVE  entry'[b].attempts <= broker'[d].age + 1
  <2>1. entry[b].attempts <= broker[d].age + 1
    BY <1>1, <1>2, <1>3 DEF Outlasts, In
  <2>2. QED
    BY <1>1, <1>2, <1>3, <2>1
<1>4. ASSUME NEW b \in Brokers, broker'[b].pc = "serving", entry'[b].is = "unbound"
      PROVE  entry'[b].foreign
  BY <1>1, <1>2, <1>4 DEF Outlasts, In
<1>5. QED
  BY <1>3, <1>4 DEF Outlasts, In

\* Every step keeps it.
LEMMA NextOutlasts == Fit /\ Fit' /\ OneServes /\ Outlasts /\ [Next]_vars => Outlasts'
<1> SUFFICES ASSUME Fit, Fit', OneServes, Outlasts, [Next]_vars PROVE Outlasts'
  OBVIOUS
<1>1. ASSUME NEW c \in Commands, Up(c) \/ Stop(c) \/ GiveUp(c) \/ CommandStep(c) PROVE Outlasts'
  BY <1>1, CommandsOutlast
<1>2. ASSUME NEW b \in Brokers, Signal(b) \/ Crash(b) \/ ServeListener(b) \/ BrokerStep(b)
      PROVE  Outlasts'
  BY <1>2, BrokersOutlast, TryBindOutlasts, ServeListenerOutlasts DEF BrokerStep
<1>3. CASE OtherHolder \/ UNCHANGED vars
  BY <1>3 DEF OtherHolder, vars, Outlasts, In
<1>4. QED
  BY <1>1, <1>2, <1>3, TickOutlasts DEF Next

----------------------------------------------------------------------------
\* The types hold whatever the commands do.
THEOREM DaemonTyped == Spec => []TypeOK
<1>1. Fit => TypeOK
  BY DEF Fit
<1>2. QED
  BY InitFits, NextFits, <1>1, PTL DEF Spec

\* Where commands start one broker at a time and a broker that ends removes
\* its socket in one go, the invariants hold together.
LEMMA DaemonStands ==
    ASSUME OneStart, PromptClose PROVE Spec => [](Fit /\ OneServes /\ Outlasts)
<1>1. Init => Fit /\ OneServes /\ Outlasts
  <2>1. ASSUME Init PROVE OneServes /\ Outlasts
    BY <2>1 DEF Init, OneServes, Outlasts, NoBroker, NoCmd, Ensures, Early, Starts, In
  <2>2. QED
    BY <2>1, InitFits
<1>2. Fit /\ OneServes /\ Outlasts /\ [Next]_vars => (Fit /\ OneServes /\ Outlasts)'
  <2>1. Fit /\ [Next]_vars => Fit'
    BY NextFits
  <2>2. Fit /\ OneServes /\ [Next]_vars => OneServes'
    BY NextServes
  <2>3. QED
    BY <2>1, <2>2, NextOutlasts
<1>3. QED
  BY <1>1, <1>2, PTL DEF Spec

\* The socket and the pid file lead to the broker that serves: ServingIsFound.
THEOREM BrokerIsFound ==
    ASSUME OneStart, PromptClose PROVE Spec => []ServingIsFound
<1>1. OneServes => ServingIsFound
  BY DEF OneServes, ServingIsFound
<1>2. QED
  BY DaemonStands, <1>1, PTL

\* What a broker says of the address is so, and no broker loses the address
\* to the one that it replaces: AddressIsHeld.
THEOREM AddressOutlastsItsBroker ==
    ASSUME OneStart, PromptClose PROVE Spec => []AddressIsHeld
<1>1. Fit /\ Outlasts => AddressIsHeld
  BY DEF Fit, EntriesFit, Outlasts, AddressIsHeld
<1>2. QED
  BY DaemonStands, <1>1, PTL
==============================================================================
