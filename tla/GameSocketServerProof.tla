------------------------ MODULE GameSocketServerProof ------------------------
(***************************************************************************)
(* Proofs about GameSocketServer, for any connections, lengths of bodies,  *)
(* numbers of requests and sizes of buffer_.                               *)
(***************************************************************************)
EXTENDS GameSocketServer, SequenceTheorems, WellFoundedInduction, TLAPS

-----------------------------------------------------------------------------
(***************************************************************************)
(* The stream and its pieces.                                              *)
(***************************************************************************)
Numbers == Lengths \cup {NotANumber}

\* A set of numbers that is not empty has a least one.
LEMMA LeastNumber ==
    ASSUME NEW T, T \subseteq Nat, T # {}
    PROVE  \E i \in T : \A j \in T : i <= j
<1>1. PICK i \in T : \A j \in T : ~ (<<j, i>> \in OpToRel(<, Nat))
    BY NatLessThanWellFounded, WFMin
<1>2. \A j \in T : ~ (j < i)
    BY <1>1 DEF OpToRel
<1> QED
    BY <1>2

\* What First finds.
LEMMA FirstFinds ==
    ASSUME NEW c \in Seq(Items), NEW kind
    PROVE  /\ First(c, kind) = 0 => \A i \in 1 .. Len(c) : c[i].kind # kind
           /\ First(c, kind) # 0 =>
                /\ First(c, kind) \in 1 .. Len(c) /\ c[First(c, kind)].kind = kind
                /\ \A j \in 1 .. Len(c) : c[j].kind = kind => First(c, kind) <= j
<1> DEFINE found == {i \in DOMAIN c : c[i].kind = kind}
<1>1. DOMAIN c = 1 .. Len(c) /\ Len(c) \in Nat
    OBVIOUS
<1>2. First(c, kind) = IF found = {} THEN 0
                       ELSE CHOOSE i \in found : \A j \in found : i <= j
    BY DEF First
<1>3. CASE found = {}
    BY <1>1, <1>2, <1>3
<1>4. CASE found # {}
  <2>1. found \subseteq Nat
      BY <1>1
  <2>2. \E i \in found : \A j \in found : i <= j
      BY <1>4, <2>1, LeastNumber
  <2>3. First(c, kind) \in found /\ \A j \in found : First(c, kind) <= j
      BY <1>2, <1>4, <2>2
  <2> QED
      BY <1>1, <2>3
<1> QED
    BY <1>3, <1>4

\* A request, as a sequence of items.
LEMMA RequestItems ==
    ASSUME NEW k \in 1 .. MaxRequests, NEW n \in Numbers
    PROVE  /\ Body(k, n) \in Seq(Items) /\ Request(k, n) \in Seq(Items)
           /\ Len(Body(k, n)) = (IF n = NotANumber THEN 1 ELSE n)
           /\ Len(Body(k, n)) \in Nat \ {0}
           /\ Len(Request(k, n)) = Len(Body(k, n)) + 2
           /\ Request(k, n)[1] = Item("length", k, n)
           /\ Request(k, n)[2] = Item("blank", k, n)
           /\ \A i \in 1 .. Len(Body(k, n)) : Body(k, n)[i] = Item("body", k, n)
           /\ \A i \in 1 .. Len(Body(k, n)) : Request(k, n)[i + 2] = Body(k, n)[i]
<1> DEFINE m == IF n = NotANumber THEN 1 ELSE n
           head == <<Item("length", k, n), Item("blank", k, n)>>
<1>1. m \in Nat \ {0}
    BY FramingAssumption DEF Numbers
<1>2. /\ Item("body", k, n) \in Items /\ Item("length", k, n) \in Items
      /\ Item("blank", k, n) \in Items
    BY DEF Item, Items, Numbers
<1>3. Body(k, n) = [i \in 1 .. m |-> Item("body", k, n)]
    BY DEF Body
<1> HIDE DEF m
<1>4. /\ Body(k, n) \in Seq(Items) /\ Len(Body(k, n)) = m
      /\ \A i \in 1 .. m : Body(k, n)[i] = Item("body", k, n)
    BY <1>1, <1>2, <1>3
<1>5. /\ head \in Seq(Items) /\ Len(head) = 2
      /\ head[1] = Item("length", k, n) /\ head[2] = Item("blank", k, n)
    BY <1>2
<1>6. Request(k, n) = head \o Body(k, n)
    BY DEF Request
<1> HIDE DEF head
<1>7. /\ Request(k, n) \in Seq(Items) /\ Len(Request(k, n)) = 2 + m
      /\ \A i \in 1 .. 2 + m : Request(k, n)[i] =
            IF i <= 2 THEN head[i] ELSE Body(k, n)[i - 2]
  <2>1. /\ head \o Body(k, n) \in Seq(Items)
        /\ Len(head \o Body(k, n)) = Len(head) + Len(Body(k, n))
        /\ \A i \in 1 .. Len(head) + Len(Body(k, n)) : (head \o Body(k, n))[i] =
              IF i <= Len(head) THEN head[i] ELSE Body(k, n)[i - Len(head)]
      BY <1>4, <1>5, ConcatProperties
  <2> QED
      BY <1>4, <1>5, <1>6, <2>1
<1>8. \A i \in 1 .. m : i + 2 \in 1 .. 2 + m /\ ~ (i + 2 <= 2) /\ (i + 2) - 2 = i
    BY <1>1
<1>9. \A i \in 1 .. m : Request(k, n)[i + 2] = Body(k, n)[i]
    BY <1>7, <1>8
<1> QED
    BY <1>1, <1>4, <1>5, <1>7, <1>9 DEF m

\* A read takes a piece from the front of what was sent.
LEMMA ChunkIsTaken ==
    ASSUME NEW s \in Sessions, wire \in [Sessions -> Seq(Items)],
           NEW c \in Chunks(s), Consume(s, c)
    PROVE  /\ c \in Seq(Items) /\ Len(c) \in 1 .. Len(wire[s])
           /\ wire' = [wire EXCEPT ![s] = wire'[s]] /\ wire'[s] \in Seq(Items)
           /\ Len(wire'[s]) = Len(wire[s]) - Len(c)
           /\ \A i \in 1 .. Len(c) : c[i] = wire[s][i]
           /\ \A i \in 1 .. Len(wire'[s]) : wire'[s][i] = wire[s][Len(c) + i]
           /\ s \in whole => \/ Len(c) = Len(wire[s])
                             \/ wire[s][Len(c) + 1].kind # "blank"
<1>1. wire[s] \in Seq(Items) /\ Len(wire[s]) \in Nat
    OBVIOUS
<1>2. PICK m \in 1 .. Len(wire[s]) :
        /\ c = SubSeq(wire[s], 1, m)
        /\ s \notin whole \/ m = Len(wire[s]) \/ wire[s][m + 1].kind # "blank"
    BY DEF Chunks
<1>3. /\ c \in Seq(Items) /\ Len(c) = m
      /\ \A i \in 1 .. m : c[i] = wire[s][i]
    BY <1>1, <1>2, SubSeqProperties
<1>4. wire'[s] = SubSeq(wire[s], m + 1, Len(wire[s]))
      /\ wire' = [wire EXCEPT ![s] = SubSeq(wire[s], m + 1, Len(wire[s]))]
    BY <1>3 DEF Consume
<1>5. \A i \in m + 1 .. Len(wire[s]) : wire[s][i] \in Items
    BY <1>1
<1>6. /\ wire'[s] \in Seq(Items)
      /\ Len(wire'[s]) = Len(wire[s]) - m
      /\ \A i \in 1 .. Len(wire[s]) - m : wire'[s][i] = wire[s][m + i]
  <2>1. m + 1 \in Int /\ Len(wire[s]) \in Int
      BY <1>1
  <2>2. /\ SubSeq(wire[s], m + 1, Len(wire[s])) \in Seq(Items)
        /\ Len(SubSeq(wire[s], m + 1, Len(wire[s]))) =
             IF m + 1 <= Len(wire[s]) THEN Len(wire[s]) - (m + 1) + 1 ELSE 0
        /\ \A i \in 1 .. Len(wire[s]) - (m + 1) + 1 :
             SubSeq(wire[s], m + 1, Len(wire[s]))[i] = wire[s][(m + 1) + i - 1]
      BY <1>5, <2>1, SubSeqProperties
  <2> QED
      BY <1>1, <1>4, <2>2
<1> QED
    BY <1>1, <1>2, <1>3, <1>4, <1>6
-----------------------------------------------------------------------------
(***************************************************************************)
(* Types.                                                                  *)
(***************************************************************************)

\* An answer names a request of the session, and only a whole body has one.
LEMMA AnswerNames ==
    ASSUME TypeOK, NEW s \in Sessions, NEW data
    PROVE  Answer(s, data) \in 0 .. MaxRequests
<1>1. ASSUME NEW k \in DOMAIN bodies[s], data = Body(k, bodies[s][k])
      PROVE  k \in 1 .. MaxRequests /\ data[1].req = k
  <2>1. k \in 1 .. MaxRequests /\ bodies[s][k] \in Numbers
      BY <1>1, FramingAssumption DEF TypeOK, Numbers
  <2>2. data[1] = Item("body", k, bodies[s][k])
      BY <1>1, <2>1, RequestItems
  <2> QED
      BY <2>1, <2>2 DEF Item
<1>2. CASE \E k \in DOMAIN bodies[s] : data = Body(k, bodies[s][k])
  <2>1. PICK k \in DOMAIN bodies[s] : data = Body(k, bodies[s][k])
      BY <1>2
  <2>2. Answer(s, data) = data[1].req
      BY <1>2 DEF Answer
  <2>3. data[1].req \in 1 .. MaxRequests
      BY <2>1, <1>1
  <2> QED
      BY <2>2, <2>3, FramingAssumption
<1>3. CASE ~ \E k \in DOMAIN bodies[s] : data = Body(k, bodies[s][k])
    BY <1>3, FramingAssumption DEF Answer, Invalid
<1> QED
    BY <1>2, <1>3

\* process_request adds one answer.
LEMMA ProcessAnswers ==
    ASSUME TypeOK, NEW s \in Sessions, NEW data, ProcessRequest(s, data)
    PROVE  /\ replies' \in [Sessions -> Seq(0 .. MaxRequests)]
           /\ phase' = [phase EXCEPT ![s] = "write"]
           /\ replies' = [replies EXCEPT ![s] = replies'[s]]
           /\ Len(replies'[s]) = Len(replies[s]) + 1
           /\ \A j \in 1 .. Len(replies[s]) : replies'[s][j] = replies[s][j]
           /\ replies'[s][Len(replies[s]) + 1] = Answer(s, data)
<1>1. Answer(s, data) \in 0 .. MaxRequests /\ replies[s] \in Seq(0 .. MaxRequests)
    BY AnswerNames DEF TypeOK
<1>2. replies' = [replies EXCEPT ![s] = Append(replies[s], Answer(s, data))]
      /\ phase' = [phase EXCEPT ![s] = "write"]
    BY DEF ProcessRequest
<1>3. replies \in [Sessions -> Seq(0 .. MaxRequests)]
    BY DEF TypeOK
<1> QED
    BY <1>1, <1>2, <1>3, AppendProperties

\* What a read of a header makes of its piece.
LEMMA HeaderIsRead ==
    ASSUME NEW c \in Seq(Items)
    PROVE  /\ ContentLength(c) # NotANumber => ContentLength(c) \in Nat
           /\ First(c, "blank") # 0 =>
                /\ First(c, "blank") \in 1 .. Len(c)
                /\ AfterBlank(c) \in Seq(Items)
                /\ Len(AfterBlank(c)) = Len(c) - First(c, "blank")
                /\ \A i \in 1 .. Len(AfterBlank(c)) : AfterBlank(c)[i] = c[First(c, "blank") + i]
<1>1. Len(c) \in Nat /\ \A i \in 1 .. Len(c) : c[i] \in Items
    OBVIOUS
<1>2. ContentLength(c) # NotANumber => ContentLength(c) \in Nat
  <2>1. CASE First(c, "length") = 0
      BY <2>1 DEF ContentLength
  <2>2. CASE First(c, "length") # 0
    <3>1. c[First(c, "length")] \in Items
        BY <1>1, <2>2, FirstFinds
    <3> QED
        BY <2>2, <3>1, FramingAssumption DEF ContentLength, Items
  <2> QED
      BY <2>1, <2>2
<1>3. ASSUME First(c, "blank") # 0
      PROVE  /\ First(c, "blank") \in 1 .. Len(c)
             /\ AfterBlank(c) \in Seq(Items)
             /\ Len(AfterBlank(c)) = Len(c) - First(c, "blank")
             /\ \A i \in 1 .. Len(AfterBlank(c)) : AfterBlank(c)[i] = c[First(c, "blank") + i]
  <2> DEFINE b == First(c, "blank")
  <2>1. b \in 1 .. Len(c)
      BY <1>3, FirstFinds
  <2> HIDE DEF b
  <2>2. \A i \in b + 1 .. Len(c) : c[i] \in Items
      BY <1>1, <2>1
  <2>3. /\ SubSeq(c, b + 1, Len(c)) \in Seq(Items)
        /\ Len(SubSeq(c, b + 1, Len(c))) =
             IF b + 1 <= Len(c) THEN Len(c) - (b + 1) + 1 ELSE 0
        /\ \A i \in 1 .. Len(c) - (b + 1) + 1 :
             SubSeq(c, b + 1, Len(c))[i] = c[(b + 1) + i - 1]
      BY <1>1, <2>1, <2>2, SubSeqProperties
  <2>4. AfterBlank(c) = SubSeq(c, b + 1, Len(c))
      BY DEF AfterBlank, b
  <2> QED
      BY <1>1, <2>1, <2>3, <2>4 DEF b
<1> QED
    BY <1>2, <1>3

\* The three ways a read of a header goes on, of which the code takes the one
\* that fits its piece.
HeaderIncomplete(s, c) ==
    /\ First(c, "blank") = 0
    /\ phase' = [phase EXCEPT ![s] = "gone"]
    /\ UNCHANGED <<remaining, message, replies>>
RequestComplete(s, c) ==
    /\ First(c, "blank") # 0 /\ Len(AfterBlank(c)) >= ContentLength(c)
    /\ ProcessRequest(s, SubSeq(AfterBlank(c), 1, ContentLength(c)))
    /\ UNCHANGED <<remaining, message>>
BodyIncomplete(s, c) ==
    /\ First(c, "blank") # 0 /\ Len(AfterBlank(c)) < ContentLength(c)
    /\ phase' = [phase EXCEPT ![s] = "body"]
    /\ message' = [message EXCEPT ![s] = AfterBlank(c)]
    /\ remaining' = [remaining EXCEPT ![s] = ContentLength(c) - Len(AfterBlank(c))]
    /\ UNCHANGED replies

LEMMA ReadHeaderGoesOn ==
    ASSUME NEW s \in Sessions, NEW c, ReadHeader(s, c)
    PROVE  /\ phase[s] = "header" /\ Consume(s, c) /\ ContentLength(c) # NotANumber
           /\ UNCHANGED <<patient, whole, running, left, bodies>>
           /\ HeaderIncomplete(s, c) \/ RequestComplete(s, c) \/ BodyIncomplete(s, c)
BY DEF ReadHeader, HeaderIncomplete, RequestComplete, BodyIncomplete, habits

LEMMA ReadHeaderKeepsTypes ==
    ASSUME TypeOK, NEW s \in Sessions, NEW c \in Chunks(s), ReadHeader(s, c)
    PROVE  TypeOK'
<1> USE DEF TypeOK
<1>1. /\ phase[s] = "header" /\ Consume(s, c) /\ ContentLength(c) # NotANumber
      /\ UNCHANGED <<patient, whole, running, left, bodies>>
      /\ HeaderIncomplete(s, c) \/ RequestComplete(s, c) \/ BodyIncomplete(s, c)
    BY ReadHeaderGoesOn
<1>2. c \in Seq(Items) /\ wire' \in [Sessions -> Seq(Items)]
  <2>1. c \in Seq(Items) /\ wire' = [wire EXCEPT ![s] = wire'[s]] /\ wire'[s] \in Seq(Items)
      BY <1>1, ChunkIsTaken
  <2> QED
      BY <2>1
<1>3. CASE HeaderIncomplete(s, c)
    BY <1>1, <1>2, <1>3 DEF HeaderIncomplete
<1>4. CASE RequestComplete(s, c)
  <2>1. /\ replies' \in [Sessions -> Seq(0 .. MaxRequests)]
        /\ phase' = [phase EXCEPT ![s] = "write"]
        /\ UNCHANGED <<remaining, message>>
      BY <1>4, ProcessAnswers DEF RequestComplete
  <2> QED
      BY <1>1, <1>2, <2>1
<1>5. CASE BodyIncomplete(s, c)
  <2>1. /\ AfterBlank(c) \in Seq(Items) /\ Len(AfterBlank(c)) < ContentLength(c)
        /\ ContentLength(c) \in Nat /\ Len(AfterBlank(c)) \in Nat
      BY <1>1, <1>2, <1>5, HeaderIsRead DEF BodyIncomplete
  <2>2. ContentLength(c) - Len(AfterBlank(c)) \in Nat \ {0}
      BY <2>1
  <2>3. /\ phase' = [phase EXCEPT ![s] = "body"]
        /\ message' = [message EXCEPT ![s] = AfterBlank(c)]
        /\ remaining' = [remaining EXCEPT ![s] = ContentLength(c) - Len(AfterBlank(c))]
        /\ replies' = replies
      BY <1>5 DEF BodyIncomplete
  <2> HIDE DEF TypeOK
  <2>4. message' \in [Sessions -> Seq(Items)]
      BY <2>1, <2>3 DEF TypeOK
  <2>5. /\ remaining' \in [Sessions -> Nat]
        /\ phase' \in [Sessions -> {"new", "header", "body", "write", "gone"}]
        /\ \A q \in Sessions : phase'[q] = "body" => remaining'[q] > 0
      BY <2>2, <2>3 DEF TypeOK
  <2> QED
      BY <1>1, <1>2, <2>3, <2>4, <2>5 DEF TypeOK
<1> QED
    BY <1>1, <1>3, <1>4, <1>5

LEMMA ReadBodyKeepsTypes ==
    ASSUME TypeOK, NEW s \in Sessions, NEW c \in Chunks(s), ReadBody(s, c)
    PROVE  TypeOK'
<1> USE DEF TypeOK
<1>1. /\ phase[s] = "body" /\ Consume(s, c)
      /\ message' = [message EXCEPT ![s] = message[s] \o c]
      /\ UNCHANGED <<patient, whole, running, left, bodies>>
    BY DEF ReadBody, habits
<1>2. c \in Seq(Items) /\ Len(c) \in Nat /\ wire' \in [Sessions -> Seq(Items)]
  <2>1. c \in Seq(Items) /\ wire' = [wire EXCEPT ![s] = wire'[s]] /\ wire'[s] \in Seq(Items)
      BY <1>1, ChunkIsTaken
  <2>2. Len(c) \in Nat
      BY <2>1, LenProperties
  <2> QED
      BY <2>1, <2>2
<1>3. message' \in [Sessions -> Seq(Items)]
  <2>1. message[s] \o c \in Seq(Items)
      BY <1>2, ConcatProperties
  <2> QED
      BY <1>1, <2>1
<1>4. CASE Len(c) >= remaining[s]
  <2>1. /\ replies' \in [Sessions -> Seq(0 .. MaxRequests)]
        /\ phase' = [phase EXCEPT ![s] = "write"] /\ UNCHANGED remaining
      BY <1>4, ProcessAnswers DEF ReadBody
  <2> QED
      BY <1>1, <1>2, <1>3, <2>1
<1>5. CASE ~ (Len(c) >= remaining[s])
  <2>1. /\ remaining' = [remaining EXCEPT ![s] = remaining[s] - Len(c)]
        /\ UNCHANGED <<phase, replies>>
      BY <1>5 DEF ReadBody
  <2>2. remaining[s] - Len(c) \in Nat \ {0}
      BY <1>2, <1>5
  <2> HIDE DEF TypeOK
  <2>3. /\ remaining' \in [Sessions -> Nat]
        /\ \A q \in Sessions : phase'[q] = "body" => remaining'[q] > 0
      BY <2>1, <2>2 DEF TypeOK
  <2> QED
      BY <1>1, <1>2, <1>3, <2>1, <2>3 DEF TypeOK
<1> QED
    BY <1>4, <1>5

LEMMA SendKeepsTypes ==
    ASSUME TypeOK, NEW s \in Sessions, NEW n \in Numbers, SendRequest(s, n)
    PROVE  /\ TypeOK'
           /\ UNCHANGED <<patient, whole, running, phase, left, remaining, message, replies>>
           /\ phase[s] \in {"header", "body", "write"}
           /\ Len(bodies[s]) + 1 \in 1 .. MaxRequests
           /\ bodies' = [bodies EXCEPT ![s] = bodies'[s]]
           /\ Len(bodies'[s]) = Len(bodies[s]) + 1
           /\ bodies'[s][Len(bodies[s]) + 1] = n
           /\ wire' = [wire EXCEPT ![s] = wire[s] \o Request(Len(bodies[s]) + 1, n)]
<1> USE DEF TypeOK
<1>1. /\ bodies[s] \in Seq(Numbers) /\ Len(bodies[s]) + 1 \in 1 .. MaxRequests
      /\ bodies' = [bodies EXCEPT ![s] = Append(bodies[s], n)]
      /\ wire' = [wire EXCEPT ![s] = wire[s] \o Request(Len(bodies[s]) + 1, n)]
      /\ UNCHANGED <<patient, whole, running, phase, left, remaining, message, replies>>
      /\ phase[s] \in {"header", "body", "write"}
    BY FramingAssumption DEF SendRequest, ClientIsThere, habits, Numbers
<1>2. wire' \in [Sessions -> Seq(Items)]
  <2>1. wire[s] \o Request(Len(bodies[s]) + 1, n) \in Seq(Items)
      BY <1>1, RequestItems, ConcatProperties
  <2> QED
      BY <1>1, <2>1
<1>3. /\ Append(bodies[s], n) \in Seq(Numbers)
      /\ Len(Append(bodies[s], n)) = Len(bodies[s]) + 1
      /\ Append(bodies[s], n)[Len(bodies[s]) + 1] = n
    BY <1>1, AppendProperties
<1>4. bodies' \in [Sessions -> Seq(Numbers)]
    BY <1>1, <1>3 DEF Numbers
<1> QED
    BY <1>1, <1>2, <1>3, <1>4 DEF Numbers

\* A step that moves no data.
LEMMA OthersKeepTypes ==
    ASSUME TypeOK, NEW s \in Sessions,
           \/ Leave(s) \/ Accept(s) \/ WriteDone(s) \/ OperationFails(s) \/ Shutdown
           \/ \E c \in Chunks(s) : ReadHeaderThrows(s, c)
    PROVE  TypeOK'
<1> USE DEF TypeOK, habits
<1>1. CASE Leave(s)
    BY <1>1 DEF Leave
<1>2. CASE Accept(s)
    BY <1>2 DEF Accept
<1>3. CASE WriteDone(s)
    BY <1>3 DEF WriteDone
<1>4. CASE OperationFails(s)
    BY <1>4 DEF OperationFails
<1>5. CASE Shutdown
    BY <1>5 DEF Shutdown
<1>6. ASSUME NEW c \in Chunks(s), ReadHeaderThrows(s, c) PROVE TypeOK'
  <2>1. wire' = [wire EXCEPT ![s] = wire'[s]] /\ wire'[s] \in Seq(Items)
      BY <1>6, ChunkIsTaken DEF ReadHeaderThrows
  <2>2. wire' \in [Sessions -> Seq(Items)]
      BY <2>1
  <2> QED
      BY <1>6, <2>2 DEF ReadHeaderThrows
<1> QED
    BY <1>1, <1>2, <1>3, <1>4, <1>5, <1>6

\* The kinds of steps.
LEMMA Steps ==
    ASSUME [Next]_vars
    PROVE  \/ UNCHANGED vars
           \/ Shutdown
           \/ \E s \in Sessions :
                \/ \E n \in Numbers : SendRequest(s, n)
                \/ Leave(s) \/ Accept(s) \/ WriteDone(s) \/ OperationFails(s)
                \/ \E c \in Chunks(s) :
                     ReadHeader(s, c) \/ ReadBody(s, c) \/ ReadHeaderThrows(s, c)
BY DEF Next, Read, Numbers

LEMMA TypeStep == TypeOK /\ [Next]_vars => TypeOK'
<1> SUFFICES ASSUME TypeOK, [Next]_vars PROVE TypeOK'
    OBVIOUS
<1>1. CASE UNCHANGED vars
    BY <1>1 DEF TypeOK, vars, habits
<1>2. CASE Shutdown
    BY <1>2 DEF TypeOK, Shutdown, habits
<1>3. ASSUME NEW s \in Sessions, NEW n \in Numbers, SendRequest(s, n) PROVE TypeOK'
    BY <1>3, SendKeepsTypes
<1>4. ASSUME NEW s \in Sessions, Leave(s) \/ Accept(s) \/ WriteDone(s) \/ OperationFails(s)
      PROVE  TypeOK'
    BY <1>4, OthersKeepTypes
<1>5. ASSUME NEW s \in Sessions, NEW c \in Chunks(s),
             ReadHeader(s, c) \/ ReadBody(s, c) \/ ReadHeaderThrows(s, c)
      PROVE  TypeOK'
    BY <1>5, ReadHeaderKeepsTypes, ReadBodyKeepsTypes, OthersKeepTypes
<1> QED
    BY <1>1, <1>2, <1>3, <1>4, <1>5, Steps

\* The types hold, and read_body is only begun with something left to read.
THEOREM FramingTypeOK == Spec => []TypeOK
<1>1. Init => TypeOK
    BY FramingAssumption DEF Init, TypeOK
<1> QED
    BY <1>1, TypeStep, PTL DEF Spec
-----------------------------------------------------------------------------
(***************************************************************************)
(* No more answers than requests.                                          *)
(***************************************************************************)

\* The requests that were answered or whose body is being read.
Done(s) == Len(replies[s]) + (IF phase[s] = "body" THEN 1 ELSE 0)

Blanks(s) == {i \in 1 .. Len(wire[s]) : wire[s][i].kind = "blank"}

\* Each header on its way belongs to a later request than those, and headers
\* are in the order of their requests.  An answer costs a header, whatever
\* else is dropped or taken for a body.
HeadersAreAhead(s) ==
    /\ Done(s) <= Len(bodies[s])
    /\ \A i \in Blanks(s) : Done(s) < wire[s][i].req /\ wire[s][i].req <= Len(bodies[s])
    /\ \A i, j \in Blanks(s) : i < j => wire[s][i].req < wire[s][j].req

\* What a session knows of its requests.
LEMMA SessionTypes ==
    ASSUME TypeOK, NEW s \in Sessions
    PROVE  /\ wire[s] \in Seq(Items) /\ Len(wire[s]) \in Nat
           /\ bodies[s] \in Seq(Numbers) /\ Len(bodies[s]) \in 0 .. MaxRequests
           /\ replies[s] \in Seq(0 .. MaxRequests) /\ Len(replies[s]) \in Nat
           /\ Done(s) \in Nat
           /\ \A i \in 1 .. Len(wire[s]) : wire[s][i].req \in 1 .. MaxRequests
<1>1. /\ wire[s] \in Seq(Items) /\ bodies[s] \in Seq(Numbers)
      /\ replies[s] \in Seq(0 .. MaxRequests) /\ Len(bodies[s]) <= MaxRequests
    BY DEF TypeOK, Numbers
<1>2. /\ Len(wire[s]) \in Nat /\ Len(bodies[s]) \in Nat /\ Len(replies[s]) \in Nat
    BY <1>1, LenProperties
<1>3. \A i \in 1 .. Len(wire[s]) : wire[s][i].req \in 1 .. MaxRequests
  <2>1. \A i \in 1 .. Len(wire[s]) : wire[s][i] \in Items
      BY <1>1
  <2> QED
      BY <2>1 DEF Items
<1>4. Done(s) \in Nat
  <2>1. CASE phase[s] = "body"
      BY <1>2, <2>1 DEF Done
  <2>2. CASE phase[s] # "body"
      BY <1>2, <2>2 DEF Done
  <2> QED
      BY <2>1, <2>2
<1>5. Len(bodies[s]) \in 0 .. MaxRequests
    BY <1>1, <1>2, FramingAssumption
<1> QED
    BY <1>1, <1>2, <1>3, <1>4, <1>5

\* The same after a step.
LEMMA SessionTypesNext ==
    ASSUME TypeOK', NEW s \in Sessions
    PROVE  Done(s)' \in Nat /\ Len(wire'[s]) \in Nat /\ Len(replies'[s]) \in Nat
<1>1. wire'[s] \in Seq(Items) /\ replies'[s] \in Seq(0 .. MaxRequests)
    BY DEF TypeOK
<1>2. Len(wire'[s]) \in Nat /\ Len(replies'[s]) \in Nat
    BY <1>1, LenProperties
<1>3. CASE phase'[s] = "body"
    BY <1>2, <1>3 DEF Done
<1>4. CASE phase'[s] # "body"
    BY <1>2, <1>4 DEF Done
<1> QED
    BY <1>2, <1>3, <1>4

\* A session that nothing was sent to, and that answers nothing.
LEMMA AloneKeepsHeaders ==
    ASSUME TypeOK, TypeOK', NEW s \in Sessions, HeadersAreAhead(s),
           UNCHANGED <<wire[s], bodies[s], replies[s]>>,
           phase'[s] = "body" => phase[s] = "body"
    PROVE  HeadersAreAhead(s)'
<1>1. Done(s)' <= Done(s) /\ Done(s)' \in Nat /\ Done(s) \in Nat
  <2>1. Len(replies[s]) \in Nat /\ Done(s) \in Nat /\ Done(s)' \in Nat
      BY SessionTypes, SessionTypesNext
  <2>2. CASE phase'[s] = "body"
    <3>1. Done(s)' = Len(replies[s]) + 1 /\ Done(s) = Len(replies[s]) + 1
        BY <2>2 DEF Done
    <3> QED
        BY <2>1, <3>1
  <2>3. CASE phase'[s] # "body" /\ phase[s] = "body"
      BY <2>1, <2>3 DEF Done
  <2>4. CASE phase'[s] # "body" /\ phase[s] # "body"
      BY <2>1, <2>4 DEF Done
  <2> QED
      BY <2>2, <2>3, <2>4
<1>2. Blanks(s)' = Blanks(s)
    BY DEF Blanks
<1>3. /\ \A i \in Blanks(s) : wire[s][i].req \in Nat
      /\ Len(bodies[s]) \in Nat
    BY SessionTypes, FramingAssumption DEF Blanks
<1> QED
    BY <1>1, <1>2, <1>3 DEF HeadersAreAhead

\* Taking m items off the front, and one header with them for each request more.
LEMMA TakingKeepsHeaders ==
    ASSUME TypeOK, TypeOK', NEW s \in Sessions, HeadersAreAhead(s),
           NEW m \in Nat, UNCHANGED bodies[s],
           Len(wire'[s]) = Len(wire[s]) - m,
           \A i \in 1 .. Len(wire'[s]) : wire'[s][i] = wire[s][m + i],
           \/ Done(s)' <= Done(s)
           \/ Done(s)' <= Done(s) + 1 /\ \E b \in Blanks(s) : b <= m
    PROVE  HeadersAreAhead(s)'
<1>1. /\ Done(s)' \in Nat /\ Done(s) \in Nat /\ Len(bodies[s]) \in Nat
      /\ \A i \in Blanks(s) : wire[s][i].req \in Nat
      /\ Len(wire[s]) \in Nat /\ Len(wire'[s]) \in Nat
  <2>1. /\ Done(s)' \in Nat /\ Done(s) \in Nat /\ Len(bodies[s]) \in 0 .. MaxRequests
        /\ \A i \in 1 .. Len(wire[s]) : wire[s][i].req \in 1 .. MaxRequests
        /\ Len(wire[s]) \in Nat /\ Len(wire'[s]) \in Nat
      BY SessionTypes, SessionTypesNext
  <2> QED
      BY <2>1, FramingAssumption DEF Blanks
<1>2. \A i \in Blanks(s)' : m + i \in Blanks(s) /\ wire'[s][i] = wire[s][m + i] /\ i \in Nat
    BY <1>1 DEF Blanks
<1>0. \A i, j \in Blanks(s)' : i < j => wire'[s][i].req < wire'[s][j].req
  <2> SUFFICES ASSUME NEW i \in Blanks(s)', NEW j \in Blanks(s)', i < j
               PROVE  wire'[s][i].req < wire'[s][j].req
      OBVIOUS
  <2>1. m + i \in Blanks(s) /\ m + j \in Blanks(s) /\ m + i < m + j
      BY <1>2
  <2>2. wire[s][m + i].req < wire[s][m + j].req
      BY <2>1 DEF HeadersAreAhead
  <2> QED
      BY <1>2, <2>2
<1>3. CASE Done(s)' <= Done(s)
  <2>1. Done(s)' <= Len(bodies'[s])
      BY <1>1, <1>3 DEF HeadersAreAhead
  <2>2. ASSUME NEW i \in Blanks(s)'
        PROVE  Done(s)' < wire'[s][i].req /\ wire'[s][i].req <= Len(bodies'[s])
    <3>1. m + i \in Blanks(s) /\ wire'[s][i] = wire[s][m + i]
        BY <1>2
    <3>2. /\ Done(s) < wire[s][m + i].req /\ wire[s][m + i].req <= Len(bodies[s])
          /\ wire[s][m + i].req \in Nat
        BY <1>1, <3>1 DEF HeadersAreAhead
    <3> QED
        BY <1>1, <1>3, <3>1, <3>2
  <2> QED
      BY <1>0, <2>1, <2>2 DEF HeadersAreAhead
<1>4. ASSUME NEW b \in Blanks(s), b <= m, Done(s)' <= Done(s) + 1 PROVE HeadersAreAhead(s)'
  <2>1. Done(s)' <= wire[s][b].req /\ wire[s][b].req <= Len(bodies[s]) /\ b \in Nat
      BY <1>1, <1>4 DEF HeadersAreAhead, Blanks
  <2>2. \A i \in Blanks(s)' : b < m + i /\ m + i \in Nat
      BY <1>1, <1>2, <1>4, <2>1 DEF Blanks
  <2>3. \A i \in Blanks(s)' : wire[s][b].req < wire[s][m + i].req
      BY <1>2, <1>4, <2>2 DEF HeadersAreAhead
  <2>4. ASSUME NEW i \in Blanks(s)'
        PROVE  Done(s)' < wire'[s][i].req /\ wire'[s][i].req <= Len(bodies'[s])
    <3>1. m + i \in Blanks(s) /\ wire'[s][i] = wire[s][m + i]
        BY <1>2
    <3>2. /\ wire[s][m + i].req \in Nat /\ wire[s][b].req \in Nat
          /\ wire[s][m + i].req <= Len(bodies[s])
        BY <1>1, <3>1, <1>4 DEF HeadersAreAhead
    <3>3. wire[s][b].req < wire[s][m + i].req
        BY <2>3
    <3> QED
        BY <1>1, <2>1, <3>1, <3>2, <3>3
  <2>6. Done(s)' <= Len(bodies'[s])
      BY <1>1, <2>1
  <2> QED
      BY <1>0, <2>4, <2>6 DEF HeadersAreAhead
<1> QED
    BY <1>3, <1>4

LEMMA SendKeepsHeaders ==
    ASSUME TypeOK, NEW s \in Sessions, HeadersAreAhead(s), NEW n \in Numbers, SendRequest(s, n)
    PROVE  HeadersAreAhead(s)'
<1> DEFINE k == Len(bodies[s]) + 1
           l == Len(wire[s])
<1>1. /\ TypeOK' /\ k \in 1 .. MaxRequests /\ Len(bodies'[s]) = k
      /\ UNCHANGED <<phase, replies>>
      /\ wire'[s] = wire[s] \o Request(k, n)
  <2>1. /\ TypeOK' /\ k \in 1 .. MaxRequests /\ Len(bodies'[s]) = k
        /\ UNCHANGED <<phase, replies>>
        /\ wire' = [wire EXCEPT ![s] = wire[s] \o Request(k, n)]
      BY SendKeepsTypes
  <2>2. wire \in [Sessions -> Seq(Items)]
      BY DEF TypeOK
  <2> QED
      BY <2>1, <2>2
<1>2. Done(s)' = Done(s) /\ Done(s) <= Len(bodies[s]) /\ Done(s) \in Nat /\ Len(bodies[s]) \in Nat
  <2>1. Done(s)' = Done(s)
      BY <1>1 DEF Done
  <2>2. Done(s) \in Nat /\ Len(bodies[s]) \in 0 .. MaxRequests
      BY SessionTypes
  <2> QED
      BY <2>1, <2>2 DEF HeadersAreAhead
<1>3. /\ Request(k, n) \in Seq(Items) /\ Len(Request(k, n)) \in Nat
      /\ \A i \in 1 .. Len(Request(k, n)) :
           Request(k, n)[i].kind = "blank" => i = 2 /\ Request(k, n)[i].req = k
  <2>1. /\ Request(k, n) \in Seq(Items) /\ Len(Body(k, n)) \in Nat
        /\ Len(Request(k, n)) = Len(Body(k, n)) + 2
        /\ Request(k, n)[1].kind = "length"
        /\ Request(k, n)[2].req = k
        /\ \A i \in 1 .. Len(Body(k, n)) : Request(k, n)[i + 2].kind = "body"
    <3>1. /\ Request(k, n) \in Seq(Items) /\ Len(Body(k, n)) \in Nat
          /\ Len(Request(k, n)) = Len(Body(k, n)) + 2
          /\ Request(k, n)[1] = Item("length", k, n)
          /\ Request(k, n)[2] = Item("blank", k, n)
          /\ \A i \in 1 .. Len(Body(k, n)) : Body(k, n)[i] = Item("body", k, n)
          /\ \A i \in 1 .. Len(Body(k, n)) : Request(k, n)[i + 2] = Body(k, n)[i]
        BY <1>1, RequestItems
    <3> HIDE DEF k
    <3>2. /\ Item("length", k, n).kind = "length" /\ Item("blank", k, n).req = k
          /\ Item("body", k, n).kind = "body"
        BY DEF Item
    <3> QED
        BY <3>1, <3>2
  <2>2. ASSUME NEW i \in 1 .. Len(Request(k, n)), i # 1, i # 2
        PROVE  Request(k, n)[i].kind = "body"
    <3>1. i - 2 \in 1 .. Len(Body(k, n)) /\ (i - 2) + 2 = i
        BY <2>1, <2>2
    <3> QED
        BY <2>1, <3>1
  <2> QED
      BY <2>1, <2>2
<1>4. /\ wire[s] \in Seq(Items) /\ l \in Nat
      /\ \A i \in Blanks(s) : wire[s][i].req \in Nat /\ i <= l
    BY SessionTypes, FramingAssumption DEF Blanks
<1> HIDE DEF k
<1>5. /\ Len(wire'[s]) = l + Len(Request(k, n))
      /\ \A i \in 1 .. l + Len(Request(k, n)) : wire'[s][i] =
           IF i <= l THEN wire[s][i] ELSE Request(k, n)[i - l]
    BY <1>1, <1>3, <1>4, ConcatProperties
<1>6. \A i \in Blanks(s)' : \/ i \in Blanks(s) /\ wire'[s][i] = wire[s][i]
                            \/ i = l + 2 /\ wire'[s][i].req = k
  <2> SUFFICES ASSUME NEW i \in 1 .. l + Len(Request(k, n)), wire'[s][i].kind = "blank"
               PROVE  \/ i \in Blanks(s) /\ wire'[s][i] = wire[s][i]
                      \/ i = l + 2 /\ wire'[s][i].req = k
      BY <1>5 DEF Blanks
  <2>1. CASE i <= l
      BY <1>4, <1>5, <2>1 DEF Blanks
  <2>2. CASE ~ (i <= l)
    <3>1. i - l \in 1 .. Len(Request(k, n)) /\ wire'[s][i] = Request(k, n)[i - l]
        BY <1>3, <1>4, <1>5, <2>2
    <3>2. i - l = 2 /\ Request(k, n)[i - l].req = k
        BY <1>3, <3>1
    <3> QED
        BY <1>4, <3>1, <3>2
  <2> QED
      BY <2>1, <2>2
<1>7. \A i \in Blanks(s) : wire[s][i].req < k /\ k \in Nat
    BY <1>2, <1>4 DEF HeadersAreAhead, k
<1>8. k = Len(bodies'[s]) /\ Done(s) < k
    BY <1>1, <1>2 DEF k
<1>9. \A i \in Blanks(s)' : Done(s)' < wire'[s][i].req /\ wire'[s][i].req <= Len(bodies'[s])
    BY <1>2, <1>4, <1>6, <1>7, <1>8 DEF HeadersAreAhead
<1>10. ASSUME NEW i \in Blanks(s)', NEW j \in Blanks(s)', i < j
       PROVE  wire'[s][i].req < wire'[s][j].req
  <2>1. \A x \in Blanks(s) : x <= l /\ x \in Nat
      BY <1>4 DEF Blanks
  <2>2. i \in Blanks(s) /\ wire'[s][i] = wire[s][i]
      BY <1>4, <1>6, <1>10, <2>1
  <2>3. CASE j \in Blanks(s) /\ wire'[s][j] = wire[s][j]
      BY <1>10, <2>2, <2>3 DEF HeadersAreAhead
  <2>4. CASE wire'[s][j].req = k
      BY <1>7, <2>2, <2>4
  <2> QED
      BY <1>6, <2>3, <2>4
<1> QED
    BY <1>2, <1>7, <1>8, <1>9, <1>10 DEF HeadersAreAhead

LEMMA ReadKeepsHeaders ==
    ASSUME TypeOK, TypeOK', NEW s \in Sessions, HeadersAreAhead(s), NEW c \in Chunks(s),
           ReadHeader(s, c) \/ ReadBody(s, c) \/ ReadHeaderThrows(s, c)
    PROVE  HeadersAreAhead(s)'
<1>1. Consume(s, c) /\ bodies' = bodies /\ wire \in [Sessions -> Seq(Items)]
      /\ phase \in [Sessions -> {"new", "header", "body", "write", "gone"}]
    BY DEF ReadHeader, ReadBody, ReadHeaderThrows, TypeOK
<1>2. /\ c \in Seq(Items) /\ Len(c) \in 1 .. Len(wire[s])
      /\ Len(wire'[s]) = Len(wire[s]) - Len(c)
      /\ \A i \in 1 .. Len(wire'[s]) : wire'[s][i] = wire[s][Len(c) + i]
      /\ \A i \in 1 .. Len(c) : c[i] = wire[s][i]
    BY <1>1, ChunkIsTaken
<1>3. /\ Len(c) \in Nat /\ Len(replies[s]) \in Nat /\ Done(s) \in Nat /\ Len(wire[s]) \in Nat
    BY <1>2, SessionTypes
<1>4. \/ Done(s)' <= Done(s)
      \/ Done(s)' <= Done(s) + 1 /\ First(c, "blank") # 0
  <2>1. CASE ReadHeader(s, c)
    <3>1. /\ phase[s] = "header"
          /\ HeaderIncomplete(s, c) \/ RequestComplete(s, c) \/ BodyIncomplete(s, c)
        BY <2>1, ReadHeaderGoesOn
    <3>2. CASE HeaderIncomplete(s, c)
        BY <1>1, <1>3, <3>1, <3>2 DEF HeaderIncomplete, Done
    <3>3. CASE RequestComplete(s, c)
      <4>1. Len(replies'[s]) = Len(replies[s]) + 1 /\ phase'[s] = "write"
            /\ First(c, "blank") # 0
          BY <1>1, <3>3, ProcessAnswers DEF RequestComplete
      <4> QED
          BY <1>3, <3>1, <4>1 DEF Done
    <3>4. CASE BodyIncomplete(s, c)
        BY <1>1, <1>3, <3>1, <3>4 DEF BodyIncomplete, Done
    <3> QED
        BY <3>1, <3>2, <3>3, <3>4
  <2>2. CASE ReadBody(s, c) /\ Len(c) >= remaining[s]
    <3>1. phase[s] = "body" /\ Len(replies'[s]) = Len(replies[s]) + 1 /\ phase'[s] = "write"
        BY <1>1, <2>2, ProcessAnswers DEF ReadBody
    <3> QED
        BY <1>3, <3>1 DEF Done
  <2>3. CASE ReadBody(s, c) /\ ~ (Len(c) >= remaining[s])
    <3>1. phase' = phase /\ replies' = replies
        BY <2>3 DEF ReadBody
    <3> QED
        BY <1>3, <3>1 DEF Done
  <2>4. CASE ReadHeaderThrows(s, c)
      BY <1>3, <2>4 DEF ReadHeaderThrows, Done
  <2> QED
      BY <2>1, <2>2, <2>3, <2>4
<1>5. First(c, "blank") # 0 => First(c, "blank") \in Blanks(s) /\ First(c, "blank") <= Len(c)
  <2>1. First(c, "blank") # 0 =>
          First(c, "blank") \in 1 .. Len(c) /\ c[First(c, "blank")].kind = "blank"
      BY <1>2, FirstFinds
  <2> QED
      BY <1>2, <1>3, <2>1 DEF Blanks
<1>6. bodies'[s] = bodies[s]
    BY <1>1
<1> QED
    BY <1>2, <1>3, <1>4, <1>5, <1>6, TakingKeepsHeaders

\* What a step does not do to the sessions it is not about.
Untouched(q) ==
    /\ UNCHANGED <<wire[q], bodies[q], replies[q], message[q], remaining[q]>>
    /\ phase'[q] = phase[q] \/ (phase'[q] = "gone" /\ ~ running')

LEMMA OthersAreUntouched ==
    ASSUME TypeOK, NEW s \in Sessions, NEW q \in Sessions \ {s},
           \/ \E n \in Numbers : SendRequest(s, n)
           \/ \E c \in Chunks(s) :
                ReadHeader(s, c) \/ ReadBody(s, c) \/ ReadHeaderThrows(s, c)
    PROVE  Untouched(q)
<1>0. q # s
    OBVIOUS
<1>1. ASSUME NEW n \in Numbers, SendRequest(s, n) PROVE Untouched(q)
  <2>1. /\ bodies' = [bodies EXCEPT ![s] = bodies'[s]]
        /\ wire' = [wire EXCEPT ![s] = wire[s] \o Request(Len(bodies[s]) + 1, n)]
        /\ UNCHANGED <<phase, remaining, message, replies>>
      BY <1>1, SendKeepsTypes
  <2>2. bodies'[q] = bodies[q] /\ wire'[q] = wire[q]
      BY <1>0, <2>1 DEF TypeOK
  <2> QED
      BY <2>1, <2>2 DEF Untouched
<1>2. ASSUME NEW c, ReadHeaderThrows(s, c) PROVE Untouched(q)
    BY <1>0, <1>2 DEF ReadHeaderThrows, Consume, TypeOK, Untouched
<1>3. ASSUME NEW c, ReadBody(s, c) PROVE Untouched(q)
  <2>1. /\ bodies' = bodies
        /\ ~ (Len(c) >= remaining[s]) => UNCHANGED <<phase, replies>>
        /\ Len(c) >= remaining[s] => (ProcessRequest(s, message'[s]) /\ UNCHANGED remaining)
        /\ ~ (Len(c) >= remaining[s]) =>
             remaining' = [remaining EXCEPT ![s] = remaining[s] - Len(c)]
        /\ message' = [message EXCEPT ![s] = message[s] \o c] /\ Consume(s, c)
      BY <1>3 DEF ReadBody
  <2>2. UNCHANGED <<wire[q], message[q], remaining[q]>>
      BY <1>0, <2>1 DEF Consume, TypeOK
  <2>3. UNCHANGED <<phase[q], replies[q]>>
      BY <1>0, <2>1 DEF ProcessRequest, TypeOK
  <2> QED
      BY <2>1, <2>2, <2>3 DEF Untouched
<1>4. ASSUME NEW c, ReadHeader(s, c) PROVE Untouched(q)
  <2>1. /\ Consume(s, c) /\ bodies' = bodies
        /\ HeaderIncomplete(s, c) \/ RequestComplete(s, c) \/ BodyIncomplete(s, c)
      BY <1>4, ReadHeaderGoesOn
  <2>2. UNCHANGED wire[q]
      BY <1>0, <2>1 DEF Consume, TypeOK
  <2>3. UNCHANGED <<phase[q], replies[q], message[q], remaining[q]>>
    <3>1. CASE HeaderIncomplete(s, c)
        BY <1>0, <3>1 DEF HeaderIncomplete, TypeOK
    <3>2. CASE RequestComplete(s, c)
        BY <1>0, <3>2 DEF RequestComplete, ProcessRequest, TypeOK
    <3>3. CASE BodyIncomplete(s, c)
        BY <1>0, <3>3 DEF BodyIncomplete, TypeOK
    <3> QED
        BY <2>1, <3>1, <3>2, <3>3
  <2> QED
      BY <2>1, <2>2, <2>3 DEF Untouched
<1> QED
    BY <1>1, <1>2, <1>3, <1>4

\* Steps that move no data: an operation begins or ends.
LEMMA QuietSteps ==
    ASSUME TypeOK, NEW q \in Sessions,
           \/ UNCHANGED vars \/ Shutdown
           \/ \E s \in Sessions : Leave(s) \/ Accept(s) \/ WriteDone(s) \/ OperationFails(s)
    PROVE  /\ UNCHANGED <<patient, whole, wire[q], bodies[q], replies[q], message[q], remaining[q]>>
           /\ \/ phase'[q] = phase[q]
              \/ phase[q] \in {"new", "write"} /\ phase'[q] = "header"
              \/ phase'[q] = "gone" /\ (~ running' \/ q \in left')
<1> USE DEF TypeOK, habits
<1>1. CASE UNCHANGED vars
    BY <1>1 DEF vars
<1>2. CASE Shutdown
    BY <1>2 DEF Shutdown
<1>3. ASSUME NEW s \in Sessions, Leave(s) \/ Accept(s)
      PROVE  /\ UNCHANGED <<patient, whole, wire, bodies, replies, message, remaining>>
             /\ phase'[q] = phase[q] \/ (phase[q] = "new" /\ phase'[q] = "header")
    BY <1>3 DEF Leave, Accept
<1>4. ASSUME NEW s \in Sessions, WriteDone(s) \/ OperationFails(s)
      PROVE  /\ UNCHANGED <<patient, whole, wire, bodies, replies, message, remaining>>
             /\ \/ phase'[q] = phase[q]
                \/ phase[q] = "write" /\ phase'[q] = "header"
                \/ phase'[q] = "gone" /\ q \in left'
    BY <1>4 DEF WriteDone, OperationFails
<1> QED
    BY <1>1, <1>2, <1>3, <1>4

LEMMA HeadersStep ==
    ASSUME TypeOK, \A s \in Sessions : HeadersAreAhead(s), [Next]_vars
    PROVE  \A s \in Sessions : HeadersAreAhead(s)'
<1> SUFFICES ASSUME NEW q \in Sessions PROVE HeadersAreAhead(q)'
    OBVIOUS
<1>1. TypeOK'
    BY TypeStep
<1>2. CASE \/ UNCHANGED vars \/ Shutdown
           \/ \E s \in Sessions : Leave(s) \/ Accept(s) \/ WriteDone(s) \/ OperationFails(s)
    BY <1>1, <1>2, QuietSteps, AloneKeepsHeaders
<1>3. ASSUME NEW s \in Sessions, NEW n \in Numbers, SendRequest(s, n)
      PROVE  HeadersAreAhead(q)'
  <2>1. CASE q = s
      BY <1>3, <2>1, SendKeepsHeaders
  <2>2. CASE q # s
      BY <1>1, <1>3, <2>2, OthersAreUntouched, AloneKeepsHeaders DEF Untouched
  <2> QED
      BY <2>1, <2>2
<1>4. ASSUME NEW s \in Sessions, NEW c \in Chunks(s),
             ReadHeader(s, c) \/ ReadBody(s, c) \/ ReadHeaderThrows(s, c)
      PROVE  HeadersAreAhead(q)'
  <2>1. CASE q = s
      BY <1>1, <1>4, <2>1, ReadKeepsHeaders
  <2>2. CASE q # s
      BY <1>1, <1>4, <2>2, OthersAreUntouched, AloneKeepsHeaders DEF Untouched
  <2> QED
      BY <2>1, <2>2
<1> QED
    BY <1>2, <1>3, <1>4, Steps
-----------------------------------------------------------------------------
(***************************************************************************)
(* The answers of a client that waits for them.                            *)
(***************************************************************************)

\* All requests are answered, and nothing is on its way.
Settled(s) ==
    Len(bodies[s]) = Len(replies[s]) /\ wire[s] = <<>> /\ phase[s] # "body"
\* One request is not, and no read has returned any of it;
Arriving(s) ==
    LET k == Len(bodies[s])
    IN  /\ k = Len(replies[s]) + 1 /\ phase[s] \in {"header", "write"}
        /\ wire[s] = Request(k, bodies[s][k])
\* or message_ holds the front of its body.
Collecting(s) ==
    LET k == Len(bodies[s])
    IN  /\ k = Len(replies[s]) + 1 /\ phase[s] = "body"
        /\ bodies[s][k] # NotANumber
        /\ message[s] \o wire[s] = Body(k, bodies[s][k])
        /\ remaining[s] = Len(wire[s])

AnswersInOrder(s) == \A k \in DOMAIN replies[s] : replies[s][k] = k
IsServed(s) ==
    /\ AnswersInOrder(s)
    /\ phase[s] # "gone" => Settled(s) \/ Arriving(s) \/ Collecting(s)
PatientAreServed == \A s \in patient : IsServed(s)

\* Two sequences of items that agree everywhere.
LEMMA SameItems ==
    ASSUME NEW a \in Seq(Items), NEW b \in Seq(Items), Len(a) = Len(b),
           \A i \in 1 .. Len(a) : a[i] = b[i]
    PROVE  a = b
BY SeqEqual

\* What a piece from the front of a request contains.
LEMMA PieceOfRequest ==
    ASSUME NEW k \in 1 .. MaxRequests, NEW n \in Numbers, NEW c \in Seq(Items),
           Len(c) \in 1 .. Len(Request(k, n)),
           \A i \in 1 .. Len(c) : c[i] = Request(k, n)[i]
    PROVE  /\ ContentLength(c) = n
           /\ First(c, "blank") = (IF Len(c) = 1 THEN 0 ELSE 2)
<1>1. /\ Len(Body(k, n)) \in Nat /\ Len(Request(k, n)) = Len(Body(k, n)) + 2
      /\ Request(k, n)[1] = Item("length", k, n)
      /\ Request(k, n)[2] = Item("blank", k, n)
      /\ \A i \in 1 .. Len(Body(k, n)) : Body(k, n)[i] = Item("body", k, n)
      /\ \A i \in 1 .. Len(Body(k, n)) : Request(k, n)[i + 2] = Body(k, n)[i]
    BY RequestItems
<1>2. /\ c[1].kind = "length" /\ c[1].len = n /\ Len(c) \in Nat
      /\ Len(c) # 1 => 2 \in 1 .. Len(c) /\ c[2].kind = "blank"
  <2>1. 1 \in 1 .. Len(c) /\ Len(c) \in Nat /\ (Len(c) # 1 => 2 \in 1 .. Len(c))
    <3>1. Len(c) \in Nat /\ Len(c) >= 1
        BY <1>1
    <3>2. \A l \in Nat : l >= 1 => 1 \in 1 .. l /\ (l # 1 => 2 \in 1 .. l)
        OBVIOUS
    <3> QED
        BY <3>1, <3>2
  <2>2. /\ c[1] = Item("length", k, n)
        /\ Len(c) # 1 => c[2] = Item("blank", k, n)
      BY <1>1, <2>1
  <2>3. /\ Item("length", k, n).kind = "length" /\ Item("length", k, n).len = n
        /\ Item("blank", k, n).kind = "blank"
      BY DEF Item
  <2> QED
      BY <2>1, <2>2, <2>3
<1>3. First(c, "length") = 1
    BY <1>2, FirstFinds
<1>4. First(c, "blank") = (IF Len(c) = 1 THEN 0 ELSE 2)
  <2>1. CASE Len(c) = 1
    <3>1. \A i \in 1 .. Len(c) : c[i].kind # "blank"
        BY <1>2, <2>1
    <3> QED
        BY <2>1, <3>1, FirstFinds
  <2>2. CASE Len(c) # 1
    <3>1. First(c, "blank") # 0 /\ First(c, "blank") <= 2 /\ First(c, "blank") \in 1 .. Len(c)
        BY <1>2, <2>2, FirstFinds
    <3>2. First(c, "blank") # 1
        BY <1>2, <3>1, FirstFinds
    <3> QED
        BY <2>2, <3>1, <3>2
  <2> QED
      BY <2>1, <2>2
<1> QED
    BY <1>2, <1>3, <1>4 DEF ContentLength

\* A whole body gets the answer to its request.
LEMMA BodyIsAnswered ==
    ASSUME TypeOK, NEW s \in Sessions, NEW k \in 1 .. Len(bodies[s])
    PROVE  Answer(s, Body(k, bodies[s][k])) = k
<1>1. k \in DOMAIN bodies[s] /\ k \in 1 .. MaxRequests /\ bodies[s][k] \in Numbers
  <2>1. bodies[s] \in Seq(Numbers) /\ Len(bodies[s]) \in 0 .. MaxRequests
      BY SessionTypes
  <2> QED
      BY <2>1, FramingAssumption
<1>2. Body(k, bodies[s][k])[1] = Item("body", k, bodies[s][k])
    BY <1>1, RequestItems
<1> QED
    BY <1>1, <1>2 DEF Answer, Item

\* The next request of a client that has all its answers.
LEMMA SendServes ==
    ASSUME TypeOK, NEW s \in patient, s \in Sessions, IsServed(s),
           NEW n \in Numbers, SendRequest(s, n)
    PROVE  IsServed(s)'
<1> DEFINE k == Len(bodies[s]) + 1
<1>1. /\ UNCHANGED <<phase, replies>> /\ phase[s] \in {"header", "body", "write"}
      /\ k \in 1 .. MaxRequests /\ Len(bodies'[s]) = k /\ bodies'[s][k] = n
      /\ wire'[s] = wire[s] \o Request(k, n)
  <2>1. /\ UNCHANGED <<phase, replies>> /\ phase[s] \in {"header", "body", "write"}
        /\ k \in 1 .. MaxRequests /\ Len(bodies'[s]) = k /\ bodies'[s][k] = n
        /\ wire' = [wire EXCEPT ![s] = wire[s] \o Request(k, n)]
      BY SendKeepsTypes
  <2>2. wire \in [Sessions -> Seq(Items)]
      BY DEF TypeOK
  <2> QED
      BY <2>1, <2>2
<1>2. Len(replies[s]) = Len(bodies[s])
    BY DEF SendRequest
<1>3. Len(replies[s]) \in Nat
    BY SessionTypes
<1>4. Settled(s)
  <2>1. ~ Arriving(s)
      BY <1>2, <1>3 DEF Arriving
  <2>2. ~ Collecting(s)
    <3> SUFFICES ASSUME Collecting(s) PROVE FALSE
        OBVIOUS
    <3>1. Len(replies[s]) < Len(bodies[s])
        BY DEF Collecting
    <3> QED
        BY <1>2, <1>3, <3>1
  <2> QED
      BY <1>1, <2>1, <2>2 DEF IsServed
<1>5. wire'[s] = Request(k, n)
  <2>1. Request(k, n) \in Seq(Items)
      BY <1>1, RequestItems
  <2> QED
      BY <1>1, <1>4, <2>1, ConcatEmptySeq DEF Settled
<1>6. Arriving(s)'
    BY <1>1, <1>2, <1>4, <1>5 DEF Arriving, Settled
<1> QED
    BY <1>1, <1>6 DEF IsServed, AnswersInOrder

\* One more answer, to the last request, of which nothing is left.
LEMMA AnswerServes ==
    ASSUME TypeOK, NEW s \in Sessions, AnswersInOrder(s), UNCHANGED bodies,
           Len(bodies[s]) = Len(replies[s]) + 1,
           ProcessRequest(s, Body(Len(bodies[s]), bodies[s][Len(bodies[s])])),
           wire'[s] = <<>>
    PROVE  IsServed(s)'
<1> DEFINE k == Len(bodies[s])
<1>1. Len(replies[s]) \in Nat /\ k \in 1 .. Len(bodies[s]) /\ k = Len(replies[s]) + 1
    BY SessionTypes
<1>2. Answer(s, Body(k, bodies[s][k])) = k
    BY <1>1, BodyIsAnswered
<1>3. /\ replies' \in [Sessions -> Seq(0 .. MaxRequests)]
      /\ phase' = [phase EXCEPT ![s] = "write"]
      /\ Len(replies'[s]) = Len(replies[s]) + 1
      /\ \A j \in 1 .. Len(replies[s]) : replies'[s][j] = replies[s][j]
      /\ replies'[s][Len(replies[s]) + 1] = k
    BY <1>2, ProcessAnswers
<1>4. DOMAIN replies'[s] = 1 .. Len(replies[s]) + 1 /\ DOMAIN replies[s] = 1 .. Len(replies[s])
  <2>1. replies[s] \in Seq(0 .. MaxRequests) /\ replies'[s] \in Seq(0 .. MaxRequests)
      BY <1>3 DEF TypeOK
  <2> QED
      BY <1>3, <2>1, LenProperties
<1>5. AnswersInOrder(s)'
    BY <1>1, <1>3, <1>4 DEF AnswersInOrder
<1>6. phase'[s] = "write"
    BY <1>3 DEF TypeOK
<1>7. Settled(s)'
    BY <1>1, <1>3, <1>6 DEF Settled
<1> QED
    BY <1>5, <1>7 DEF IsServed

LEMMA ReadHeaderServes ==
    ASSUME TypeOK, NEW s \in patient, s \in Sessions, IsServed(s),
           NEW c \in Chunks(s), ReadHeader(s, c)
    PROVE  /\ IsServed(s)'
           /\ s \in whole => phase'[s] # "gone"
<1> DEFINE k == Len(bodies[s])
           n == bodies[s][k]
<1>1. /\ phase[s] = "header" /\ Consume(s, c) /\ ContentLength(c) # NotANumber
      /\ UNCHANGED bodies
      /\ HeaderIncomplete(s, c) \/ RequestComplete(s, c) \/ BodyIncomplete(s, c)
    BY ReadHeaderGoesOn
<1>2. /\ c \in Seq(Items) /\ Len(c) \in 1 .. Len(wire[s])
      /\ wire'[s] \in Seq(Items)
      /\ Len(wire'[s]) = Len(wire[s]) - Len(c)
      /\ \A i \in 1 .. Len(c) : c[i] = wire[s][i]
      /\ \A i \in 1 .. Len(wire'[s]) : wire'[s][i] = wire[s][Len(c) + i]
      /\ s \in whole => \/ Len(c) = Len(wire[s])
                        \/ wire[s][Len(c) + 1].kind # "blank"
    BY <1>1, ChunkIsTaken DEF TypeOK
<1>3. Arriving(s)
  <2>1. wire[s] # <<>>
      BY <1>2
  <2> QED
      BY <1>1, <2>1 DEF IsServed, Settled, Collecting
<1>4. /\ Len(replies[s]) \in Nat /\ k = Len(replies[s]) + 1 /\ k \in 1 .. MaxRequests
      /\ n \in Numbers /\ wire[s] = Request(k, n) /\ k \in 1 .. Len(bodies[s])
  <2>1. /\ Len(replies[s]) \in Nat /\ bodies[s] \in Seq(Numbers) /\ k \in 0 .. MaxRequests
      BY SessionTypes
  <2> QED
      BY <1>3, <2>1, FramingAssumption DEF Arriving
<1> HIDE DEF k, n
<1> DEFINE b == Body(k, n)
<1>5. /\ b \in Seq(Items) /\ Len(b) \in Nat \ {0} /\ Len(wire[s]) = Len(b) + 2
      /\ Len(b) = (IF n = NotANumber THEN 1 ELSE n)
      /\ wire[s][2] = Item("blank", k, n)
      /\ \A i \in 1 .. Len(b) : wire[s][i + 2] = b[i]
  <2>1. k \in 1 .. MaxRequests /\ n \in Numbers /\ wire[s] = Request(k, n)
      BY <1>4
  <2>2. /\ b \in Seq(Items) /\ Len(b) \in Nat \ {0} /\ Len(Request(k, n)) = Len(b) + 2
        /\ Len(b) = (IF n = NotANumber THEN 1 ELSE n)
        /\ Request(k, n)[2] = Item("blank", k, n)
        /\ \A i \in 1 .. Len(b) : Request(k, n)[i + 2] = b[i]
      BY <2>1, RequestItems
  <2> QED
      BY <2>1, <2>2
<1>6. ContentLength(c) = n /\ First(c, "blank") = (IF Len(c) = 1 THEN 0 ELSE 2)
    BY <1>2, <1>4, PieceOfRequest
<1> HIDE DEF b
<1>7. n # NotANumber /\ n = Len(b) /\ n \in Nat
    BY <1>1, <1>5, <1>6
<1>8. CASE HeaderIncomplete(s, c)
  <2>1. phase' = [phase EXCEPT ![s] = "gone"] /\ replies' = replies /\ Len(c) = 1
      BY <1>2, <1>6, <1>8 DEF HeaderIncomplete
  <2>2. s \notin whole
    <3>1. wire[s][Len(c) + 1].kind = "blank" /\ Len(c) # Len(wire[s])
        BY <1>5, <2>1 DEF Item
    <3> QED
        BY <1>2, <3>1
  <2>3. phase'[s] = "gone"
      BY <2>1 DEF TypeOK
  <2> QED
      BY <2>1, <2>2, <2>3 DEF IsServed, AnswersInOrder
<1>9. ASSUME First(c, "blank") # 0
      PROVE  /\ AfterBlank(c) \in Seq(Items) /\ Len(AfterBlank(c)) = Len(c) - 2
             /\ Len(c) \in Nat /\ Len(c) >= 2
             /\ \A i \in 1 .. Len(c) - 2 : AfterBlank(c)[i] = b[i]
  <2>1. /\ AfterBlank(c) \in Seq(Items) /\ Len(AfterBlank(c)) = Len(c) - 2
        /\ Len(c) \in Nat /\ Len(c) >= 2
        /\ \A i \in 1 .. Len(AfterBlank(c)) : AfterBlank(c)[i] = c[2 + i]
      BY <1>2, <1>6, <1>9, HeaderIsRead
  <2>2. ASSUME NEW i \in 1 .. Len(c) - 2 PROVE AfterBlank(c)[i] = b[i]
    <3>1. /\ 2 + i \in 1 .. Len(c) /\ i \in 1 .. Len(b) /\ 2 + i = i + 2
          /\ AfterBlank(c)[i] = c[2 + i]
        BY <1>2, <1>5, <2>1
    <3>2. c[2 + i] = wire[s][i + 2] /\ wire[s][i + 2] = b[i]
        BY <1>2, <1>5, <3>1
    <3> QED
        BY <3>1, <3>2
  <2> QED
      BY <2>1, <2>2
<1>10. CASE RequestComplete(s, c)
  <2>1. /\ AfterBlank(c) \in Seq(Items) /\ Len(AfterBlank(c)) = Len(c) - 2
        /\ Len(c) \in Nat /\ Len(c) >= 2
        /\ \A i \in 1 .. Len(c) - 2 : AfterBlank(c)[i] = b[i]
        /\ Len(AfterBlank(c)) >= n /\ ProcessRequest(s, SubSeq(AfterBlank(c), 1, n))
      BY <1>6, <1>9, <1>10 DEF RequestComplete
  <2>2. Len(c) = n + 2 /\ Len(wire[s]) = n + 2
      BY <1>2, <1>5, <1>7, <2>1
  <2>3. wire'[s] = <<>>
      BY <1>2, <2>2, EmptySeq
  <2>4. SubSeq(AfterBlank(c), 1, n) = b
    <3>1. SubSeq(AfterBlank(c), 1, n) = AfterBlank(c)
      <4>1. Len(AfterBlank(c)) = n
          BY <1>7, <2>1, <2>2
      <4> QED
          BY <2>1, <4>1, SubSeqFull
    <3>2. AfterBlank(c) = b
      <4>1. Len(AfterBlank(c)) = Len(b) /\ \A i \in 1 .. Len(AfterBlank(c)) : AfterBlank(c)[i] = b[i]
          BY <1>7, <2>1, <2>2
      <4> QED
          BY <1>5, <2>1, <4>1, SameItems
    <3> QED
        BY <3>1, <3>2
  <2>5. AnswersInOrder(s) /\ ProcessRequest(s, Body(Len(bodies[s]), bodies[s][Len(bodies[s])]))
      BY <2>1, <2>4 DEF b, k, n, IsServed
  <2>6. IsServed(s)'
      BY <1>1, <1>4, <2>3, <2>5, AnswerServes DEF k
  <2>7. phase'[s] = "write"
      BY <2>1, ProcessAnswers DEF TypeOK
  <2> QED
      BY <2>6, <2>7
<1>11. CASE BodyIncomplete(s, c)
  <2>1. /\ AfterBlank(c) \in Seq(Items) /\ Len(AfterBlank(c)) = Len(c) - 2
        /\ Len(c) \in Nat /\ Len(c) >= 2
        /\ \A i \in 1 .. Len(c) - 2 : AfterBlank(c)[i] = b[i]
        /\ phase' = [phase EXCEPT ![s] = "body"]
        /\ message' = [message EXCEPT ![s] = AfterBlank(c)]
        /\ remaining' = [remaining EXCEPT ![s] = n - Len(AfterBlank(c))]
        /\ replies' = replies
      BY <1>6, <1>9, <1>11 DEF BodyIncomplete
  <2>2. /\ phase'[s] = "body" /\ message'[s] = AfterBlank(c)
        /\ remaining'[s] = n - (Len(c) - 2)
      BY <2>1 DEF TypeOK
  <2>3. remaining'[s] = Len(wire'[s])
      BY <1>2, <1>5, <1>7, <2>1, <2>2
  <2>4. message'[s] \o wire'[s] = b
    <3> DEFINE a == AfterBlank(c)
               w == wire'[s]
    <3>0. a \in Seq(Items) /\ w \in Seq(Items)
        BY <1>2, <2>1
    <3>1. /\ a \o w \in Seq(Items) /\ Len(a \o w) = Len(a) + Len(w)
          /\ \A i \in 1 .. Len(a) + Len(w) : (a \o w)[i] =
               IF i <= Len(a) THEN a[i] ELSE w[i - Len(a)]
      <4> HIDE DEF a, w
      <4> QED
          BY <3>0, ConcatProperties
    <3>2. Len(a) + Len(w) = Len(b) /\ Len(a) = Len(c) - 2 /\ Len(w) = Len(b) - Len(a)
        BY <1>2, <1>5, <2>1
    <3>3. ASSUME NEW i \in 1 .. Len(b) PROVE (a \o w)[i] = b[i]
      <4>0. Len(a) \in Nat /\ Len(b) \in Nat /\ i \in 1 .. Len(a) + Len(w)
          BY <1>5, <2>1, <3>2
      <4>1. CASE i <= Len(a)
        <5>1. (a \o w)[i] = a[i]
            BY <3>1, <4>0, <4>1
        <5>2. i \in 1 .. Len(c) - 2
            BY <2>1, <3>2, <4>0, <4>1
        <5> QED
            BY <2>1, <5>1, <5>2
      <4>2. CASE ~ (i <= Len(a))
        <5>1. i - Len(a) \in 1 .. Len(w) /\ Len(c) + (i - Len(a)) = i + 2
            BY <1>5, <2>1, <3>2, <4>2
        <5>2. w[i - Len(a)] = wire[s][Len(c) + (i - Len(a))]
            BY <1>2, <5>1
        <5> QED
            BY <1>5, <3>1, <3>2, <4>2, <5>1, <5>2
      <4> QED
          BY <4>1, <4>2
    <3> HIDE DEF a, w
    <3>4. a \o w = b
        BY <1>5, <3>1, <3>2, <3>3, SameItems
    <3> QED
        BY <2>2, <3>4 DEF a, w
  <2>5. Collecting(s)'
      BY <1>1, <1>4, <1>7, <2>1, <2>2, <2>3, <2>4 DEF Collecting, k, n, b
  <2> QED
      BY <2>1, <2>2, <2>5 DEF IsServed, AnswersInOrder
<1> QED
    BY <1>1, <1>8, <1>10, <1>11

LEMMA ReadBodyServes ==
    ASSUME TypeOK, NEW s \in patient, s \in Sessions, IsServed(s),
           NEW c \in Chunks(s), ReadBody(s, c)
    PROVE  IsServed(s)' /\ phase'[s] # "gone"
<1> DEFINE k == Len(bodies[s])
           b == Body(k, bodies[s][k])
           w == wire'[s]
<1>1. /\ phase[s] = "body" /\ Consume(s, c) /\ UNCHANGED bodies
      /\ message' = [message EXCEPT ![s] = message[s] \o c]
      /\ message \in [Sessions -> Seq(Items)]
    BY DEF ReadBody, TypeOK
<1>2. /\ c \in Seq(Items) /\ Len(c) \in 1 .. Len(wire[s])
      /\ w \in Seq(Items)
      /\ Len(w) = Len(wire[s]) - Len(c)
      /\ \A i \in 1 .. Len(c) : c[i] = wire[s][i]
      /\ \A i \in 1 .. Len(w) : w[i] = wire[s][Len(c) + i]
    BY <1>1, ChunkIsTaken DEF TypeOK
<1>3. Collecting(s) /\ AnswersInOrder(s)
    BY <1>1 DEF IsServed, Settled, Arriving
<1>4. /\ Len(replies[s]) \in Nat /\ k = Len(replies[s]) + 1
      /\ bodies[s][k] # NotANumber /\ message[s] \o wire[s] = b
      /\ remaining[s] = Len(wire[s]) /\ Len(wire[s]) \in Nat
      /\ wire[s] \in Seq(Items) /\ message[s] \in Seq(Items)
    BY <1>1, <1>3, SessionTypes DEF Collecting
<1> HIDE DEF k, b
<1>5. c \o w = wire[s]
  <2>1. /\ c \o w \in Seq(Items) /\ Len(c \o w) = Len(c) + Len(w)
        /\ \A i \in 1 .. Len(c) + Len(w) : (c \o w)[i] =
             IF i <= Len(c) THEN c[i] ELSE w[i - Len(c)]
      BY <1>2, ConcatProperties
  <2>2. Len(c) + Len(w) = Len(wire[s])
      BY <1>2, <1>4
  <2>3. ASSUME NEW i \in 1 .. Len(wire[s]) PROVE (c \o w)[i] = wire[s][i]
    <3>1. CASE i <= Len(c)
        BY <1>2, <2>1, <2>2, <3>1
    <3>2. CASE ~ (i <= Len(c))
      <4>1. i - Len(c) \in 1 .. Len(w) /\ Len(c) + (i - Len(c)) = i
          BY <1>2, <1>4, <2>2, <3>2
      <4> QED
          BY <1>2, <2>1, <2>2, <3>2, <4>1
    <3> QED
        BY <3>1, <3>2
  <2> HIDE DEF w
  <2> QED
      BY <1>4, <2>1, <2>2, <2>3, SameItems
<1>6. message'[s] \o w = b
  <2>1. message'[s] = message[s] \o c
      BY <1>1
  <2>2. (message[s] \o c) \o w = message[s] \o (c \o w)
    <3>1. message[s] \in Seq(Items) /\ c \in Seq(Items) /\ w \in Seq(Items)
        BY <1>2, <1>4
    <3>2. \A x, y, z \in Seq(Items) : (x \o y) \o z = x \o (y \o z)
        BY ConcatAssociative
    <3> HIDE DEF w
    <3> QED
        BY <3>1, <3>2
  <2> QED
      BY <1>4, <1>5, <2>1, <2>2
<1>7. CASE Len(c) >= remaining[s]
  <2>1. Len(w) = 0
      BY <1>2, <1>4, <1>7
  <2>2. w = <<>>
      BY <1>2, <2>1, EmptySeq
  <2>3. message'[s] = b
    <3>1. message'[s] \in Seq(Items)
      <4>1. message[s] \o c \in Seq(Items)
          BY <1>2, <1>4, ConcatProperties
      <4> QED
          BY <1>1, <4>1
    <3> QED
        BY <1>6, <2>2, <3>1, ConcatEmptySeq
  <2>4. ProcessRequest(s, message'[s])
      BY <1>7 DEF ReadBody
  <2>5. IsServed(s)'
      BY <1>1, <1>3, <1>4, <2>2, <2>3, <2>4, AnswerServes DEF k, b
  <2>6. phase'[s] = "write"
      BY <2>4, ProcessAnswers DEF TypeOK
  <2> QED
      BY <2>5, <2>6
<1>8. CASE ~ (Len(c) >= remaining[s])
  <2>1. /\ remaining' = [remaining EXCEPT ![s] = remaining[s] - Len(c)]
        /\ phase' = phase /\ replies' = replies
      BY <1>8 DEF ReadBody
  <2>2. remaining'[s] = Len(wire'[s])
      BY <1>2, <1>4, <2>1 DEF TypeOK
  <2>3. Collecting(s)'
      BY <1>1, <1>4, <1>6, <2>1, <2>2 DEF Collecting, k, b
  <2> QED
      BY <1>1, <1>3, <2>1, <2>3 DEF IsServed, AnswersInOrder
<1> QED
    BY <1>7, <1>8

\* A session whose reads do not end inside of a header is dropped only when
\* its client has left or the process ends.
WholeStay == \A s \in patient \cap whole : phase[s] = "gone" => s \in left \/ ~ running

\* As long as client and server stay, there is always a handler that brings an
\* unanswered request further: the end of a write, or of a read that finds
\* something.  This is what fairness needs for RequestIsAnswered.
RequestIsNotStuck ==
    \A s \in patient \cap whole :
        running /\ s \notin left /\ Len(replies[s]) < Len(bodies[s])
            => phase[s] = "write" \/ (phase[s] \in {"header", "body"} /\ Chunks(s) # {})

Patience == TypeOK /\ PatientAreServed /\ WholeStay

\* The steps that move no data.
LEMMA QuietServes ==
    ASSUME Patience, NEW q \in patient,
           \/ UNCHANGED vars \/ Shutdown
           \/ \E s \in Sessions : Leave(s) \/ Accept(s) \/ WriteDone(s) \/ OperationFails(s)
    PROVE  /\ UNCHANGED <<patient, whole>> /\ IsServed(q)'
           /\ phase'[q] = "gone" => \/ phase[q] = "gone" \/ q \in left' \/ ~ running'
<1>1. q \in Sessions /\ IsServed(q) /\ TypeOK
    BY DEF Patience, PatientAreServed, TypeOK
<1>2. /\ UNCHANGED <<patient, whole, wire[q], bodies[q], replies[q], message[q], remaining[q]>>
      /\ \/ phase'[q] = phase[q]
         \/ phase[q] \in {"new", "write"} /\ phase'[q] = "header"
         \/ phase'[q] = "gone" /\ (~ running' \/ q \in left')
    BY <1>1, QuietSteps
<1>3. AnswersInOrder(q)'
    BY <1>1, <1>2 DEF IsServed, AnswersInOrder
<1>4. ASSUME phase'[q] # "gone" PROVE Settled(q)' \/ Arriving(q)' \/ Collecting(q)'
  <2>1. phase[q] # "gone"
      BY <1>2, <1>4
  <2>2. CASE Settled(q)
      BY <1>2, <1>4, <2>2 DEF Settled
  <2>3. CASE Arriving(q)
      BY <1>2, <1>4, <2>3 DEF Arriving
  <2>4. CASE Collecting(q)
      BY <1>2, <1>4, <2>4 DEF Collecting
  <2> QED
      BY <1>1, <2>1, <2>2, <2>3, <2>4 DEF IsServed
<1> QED
    BY <1>2, <1>3, <1>4 DEF IsServed

\* A session that another one's step leaves alone.
LEMMA UntouchedServes ==
    ASSUME NEW q, IsServed(q), Untouched(q)
    PROVE  IsServed(q)'
<1>1. AnswersInOrder(q)'
    BY DEF Untouched, IsServed, AnswersInOrder
<1>2. CASE phase'[q] = phase[q]
  <2>1. CASE Settled(q)
      BY <1>1, <1>2, <2>1 DEF Settled, Untouched, IsServed
  <2>2. CASE Arriving(q)
      BY <1>1, <1>2, <2>2 DEF Arriving, Untouched, IsServed
  <2>3. CASE Collecting(q)
      BY <1>1, <1>2, <2>3 DEF Collecting, Untouched, IsServed
  <2>4. CASE phase[q] = "gone"
      BY <1>1, <1>2, <2>4 DEF IsServed
  <2> QED
      BY <2>1, <2>2, <2>3, <2>4 DEF IsServed
<1>3. CASE phase'[q] = "gone"
    BY <1>1, <1>3 DEF IsServed
<1> QED
    BY <1>2, <1>3 DEF Untouched

LEMMA PatienceStep == Patience /\ [Next]_vars => Patience'
<1> SUFFICES ASSUME Patience, [Next]_vars PROVE PatientAreServed' /\ WholeStay'
    BY TypeStep DEF Patience
<1>0. TypeOK /\ patient \subseteq Sessions
      /\ \A q \in patient \cap whole : phase[q] = "gone" => q \in left \/ ~ running
    BY DEF Patience, TypeOK, WholeStay
<1> DEFINE Goal(q) ==
      /\ IsServed(q)'
      /\ q \in whole /\ phase'[q] = "gone" => q \in left' \/ ~ running'
<1>1. UNCHANGED <<patient, whole>> /\ left \subseteq left' /\ (running' => running)
  <2>1. CASE UNCHANGED vars
      BY <2>1 DEF vars, habits
  <2>2. CASE Shutdown
      BY <2>2 DEF Shutdown, habits
  <2>3. ASSUME NEW s \in Sessions, \E n \in Numbers : SendRequest(s, n)
        PROVE  UNCHANGED <<patient, whole, left, running>>
      BY <2>3 DEF SendRequest, habits
  <2>4. ASSUME NEW s \in Sessions, Leave(s)
        PROVE  UNCHANGED <<patient, whole, running>> /\ left \subseteq left'
      BY <2>4 DEF Leave, habits
  <2>5. ASSUME NEW s \in Sessions, NEW c \in Chunks(s),
               ReadHeader(s, c) \/ ReadBody(s, c) \/ ReadHeaderThrows(s, c)
        PROVE  UNCHANGED <<patient, whole, left>> /\ (running' => running)
    <3>1. CASE ReadHeader(s, c)
        BY <1>0, <3>1, ReadHeaderGoesOn DEF ReadHeader, habits
    <3>2. CASE ReadBody(s, c)
        BY <3>2 DEF ReadBody, habits
    <3>3. CASE ReadHeaderThrows(s, c)
        BY <3>3 DEF ReadHeaderThrows, habits
    <3> QED
        BY <2>5, <3>1, <3>2, <3>3
  <2>6. ASSUME NEW s \in Sessions, Accept(s) \/ WriteDone(s) \/ OperationFails(s)
        PROVE  UNCHANGED <<patient, whole, running, left>>
      BY <2>6 DEF Accept, WriteDone, OperationFails, habits
  <2> QED
      BY <2>1, <2>2, <2>3, <2>4, <2>5, <2>6, Steps
<1>2. SUFFICES ASSUME NEW q \in patient PROVE Goal(q)
    BY <1>1 DEF PatientAreServed, WholeStay
<1>3. q \in Sessions /\ IsServed(q)
    BY <1>0 DEF Patience, PatientAreServed
<1>4. q \in whole /\ phase[q] = "gone" => q \in left' \/ ~ running'
    BY <1>0, <1>1
<1>5. CASE \/ UNCHANGED vars \/ Shutdown
           \/ \E s \in Sessions : Leave(s) \/ Accept(s) \/ WriteDone(s) \/ OperationFails(s)
    BY <1>4, <1>5, QuietServes
<1>6. ASSUME NEW s \in Sessions, NEW n \in Numbers, SendRequest(s, n) PROVE Goal(q)
  <2>1. phase' = phase
      BY <1>0, <1>6, SendKeepsTypes
  <2>2. CASE q = s
      BY <1>0, <1>3, <1>4, <1>6, <2>1, <2>2, SendServes
  <2>3. CASE q # s
      BY <1>0, <1>3, <1>4, <1>6, <2>1, <2>3, OthersAreUntouched, UntouchedServes
  <2> QED
      BY <2>2, <2>3
<1>7. ASSUME NEW s \in Sessions, NEW c \in Chunks(s),
             ReadHeader(s, c) \/ ReadBody(s, c) \/ ReadHeaderThrows(s, c)
      PROVE  Goal(q)
  <2>1. CASE q # s
    <3>1. Untouched(q)
        BY <1>0, <1>3, <1>7, <2>1, OthersAreUntouched
    <3>2. q \in whole /\ phase'[q] = "gone" => q \in left' \/ ~ running'
        BY <1>4, <3>1 DEF Untouched
    <3> QED
        BY <1>3, <3>1, <3>2, UntouchedServes
  <2>2. CASE q = s /\ ReadHeader(s, c)
      BY <1>0, <1>3, <2>2, ReadHeaderServes
  <2>3. CASE q = s /\ ReadBody(s, c)
      BY <1>0, <1>3, <2>3, ReadBodyServes
  <2>4. CASE q = s /\ ReadHeaderThrows(s, c)
    <3>1. phase'[q] = "gone" /\ replies' = replies /\ ~ running'
        BY <1>3, <2>4 DEF ReadHeaderThrows
    <3> QED
        BY <1>3, <3>1 DEF IsServed, AnswersInOrder
  <2> QED
      BY <1>7, <2>1, <2>2, <2>3, <2>4
<1> QED
    BY <1>5, <1>6, <1>7, Steps

LEMMA InitIsPatient == Init => Patience /\ \A s \in Sessions : HeadersAreAhead(s)
<1> SUFFICES ASSUME Init PROVE Patience /\ \A s \in Sessions : HeadersAreAhead(s)
    OBVIOUS
<1>1. /\ patient \subseteq Sessions /\ TypeOK
      /\ \A s \in Sessions : /\ wire[s] = <<>> /\ bodies[s] = <<>> /\ replies[s] = <<>>
                             /\ phase[s] = "new"
    BY FramingAssumption DEF Init, TypeOK
<1>2. Len(<<>>) = 0 /\ DOMAIN <<>> = {}
    OBVIOUS
<1>3. \A s \in Sessions : IsServed(s)
    BY <1>1, <1>2 DEF IsServed, AnswersInOrder, Settled
<1>4. ASSUME NEW s \in Sessions PROVE HeadersAreAhead(s)
  <2>1. Blanks(s) = {}
      BY <1>1, <1>2 DEF Blanks
  <2>2. Len(replies[s]) = 0 /\ Len(bodies[s]) = 0 /\ phase[s] # "body"
      BY <1>1, <1>2
  <2>3. Done(s) = 0
      BY <2>2 DEF Done
  <2> QED
      BY <2>1, <2>2, <2>3 DEF HeadersAreAhead
<1>5. WholeStay
    BY <1>1 DEF WholeStay
<1> QED
    BY <1>1, <1>3, <1>4, <1>5 DEF Patience, PatientAreServed

LEMMA FramingInvariants ==
    Spec => [](Patience /\ \A s \in Sessions : HeadersAreAhead(s))
<1>1. Patience /\ (\A s \in Sessions : HeadersAreAhead(s)) /\ [Next]_vars
        => (Patience /\ \A s \in Sessions : HeadersAreAhead(s))'
    BY PatienceStep, HeadersStep DEF Patience
<1> QED
    BY <1>1, InitIsPatient, PTL DEF Spec

\* However the network cuts the stream into reads, whatever the other clients
\* send and whoever leaves: no session answers more requests than its client
\* sent, and a client that waits gets the answer to each request, in order.
THEOREM FramingAnswersMatch == Spec => []AnswersMatch
<1>1. Patience /\ (\A s \in Sessions : HeadersAreAhead(s)) => AnswersMatch
  <2> SUFFICES ASSUME Patience, \A s \in Sessions : HeadersAreAhead(s), NEW s \in Sessions
               PROVE  /\ Len(replies[s]) <= Len(bodies[s])
                      /\ s \in patient => \A k \in DOMAIN replies[s] : replies[s][k] = k
      BY DEF AnswersMatch
  <2>1. Len(replies[s]) \in Nat /\ Len(bodies[s]) \in 0 .. MaxRequests /\ Done(s) \in Nat
      BY SessionTypes DEF Patience
  <2>2. Len(replies[s]) <= Done(s)
    <3>1. CASE phase[s] = "body"
        BY <2>1, <3>1 DEF Done
    <3>2. CASE phase[s] # "body"
        BY <2>1, <3>2 DEF Done
    <3> QED
        BY <3>1, <3>2
  <2>3. Done(s) <= Len(bodies[s])
      BY DEF HeadersAreAhead
  <2> QED
      BY <2>1, <2>2, <2>3, FramingAssumption
         DEF Patience, PatientAreServed, IsServed, AnswersInOrder
<1> QED
    BY <1>1, FramingInvariants, PTL

\* The safety part of RequestIsAnswered: with a buffer_ that a header fits in,
\* no read and no order of handlers leaves a request of a patient client behind
\* without an operation that will find something.
THEOREM FramingRequestIsNotStuck ==
    ASSUME BufferSize >= 2
    PROVE  Spec => []RequestIsNotStuck
<1>1. Patience => RequestIsNotStuck
  <2> SUFFICES ASSUME Patience, NEW s \in patient \cap whole, running, s \notin left,
                      Len(replies[s]) < Len(bodies[s]), phase[s] # "write"
               PROVE  phase[s] \in {"header", "body"} /\ Chunks(s) # {}
      BY DEF RequestIsNotStuck
  <2> DEFINE k == Len(bodies[s])
             n == bodies[s][k]
  <2>1. s \in Sessions /\ TypeOK /\ IsServed(s) /\ phase[s] # "gone"
      BY DEF Patience, TypeOK, PatientAreServed, WholeStay
  <2>2. /\ Len(replies[s]) \in Nat /\ bodies[s] \in Seq(Numbers) /\ k \in 0 .. MaxRequests
        /\ wire[s] \in Seq(Items) /\ Len(wire[s]) \in Nat
      BY <2>1, SessionTypes
  <2>3. k \in 1 .. MaxRequests /\ n \in Numbers
      BY <2>2, FramingAssumption
  <2>4. /\ Len(Body(k, n)) \in Nat \ {0} /\ Len(Request(k, n)) = Len(Body(k, n)) + 2
        /\ Body(k, n) \in Seq(Items)
        /\ \A i \in 1 .. Len(Body(k, n)) : Body(k, n)[i] = Item("body", k, n)
        /\ \A i \in 1 .. Len(Body(k, n)) : Request(k, n)[i + 2] = Body(k, n)[i]
      BY <2>3, RequestItems
  <2>5. BufferSize \in Nat
      BY FramingAssumption
  <2>6. CASE Arriving(s)
    <3>1. phase[s] = "header" /\ wire[s] = Request(k, n)
        BY <2>6 DEF Arriving
    <3>2. /\ 2 \in 1 .. Len(wire[s]) /\ 2 <= BufferSize
          /\ wire[s][2 + 1].kind # "blank"
      <4>1. 1 \in 1 .. Len(Body(k, n)) /\ wire[s][1 + 2] = Body(k, n)[1]
          BY <2>4, <3>1
      <4>2. wire[s][3] = Item("body", k, n)
          BY <2>4, <4>1
      <4> QED
          BY <2>4, <2>5, <3>1, <4>2 DEF Item
    <3>3. SubSeq(wire[s], 1, 2) \in Chunks(s)
        BY <3>2 DEF Chunks
    <3> QED
        BY <3>1, <3>3
  <2>7. CASE Collecting(s)
    <3>1. /\ phase[s] = "body" /\ message[s] \o wire[s] = Body(k, n)
          /\ remaining[s] = Len(wire[s]) /\ message[s] \in Seq(Items)
        BY <2>1, <2>7 DEF Collecting, TypeOK
    <3>2. Len(wire[s]) > 0 /\ 1 \in 1 .. Len(wire[s]) /\ 1 <= BufferSize
        BY <2>1, <2>2, <2>5, <3>1 DEF TypeOK
    <3>3. 1 = Len(wire[s]) \/ wire[s][1 + 1].kind # "blank"
      <4>0. SUFFICES ASSUME Len(wire[s]) # 1 PROVE wire[s][2].kind # "blank"
          OBVIOUS
      <4> DEFINE a == message[s]
                 w == wire[s]
      <4>1. a \in Seq(Items) /\ w \in Seq(Items)
          BY <2>2, <3>1
      <4> HIDE DEF a, w
      <4>2. /\ Len(a \o w) = Len(a) + Len(w) /\ Len(a) \in Nat /\ Len(w) \in Nat
            /\ \A i \in 1 .. Len(a) + Len(w) : (a \o w)[i] =
                 IF i <= Len(a) THEN a[i] ELSE w[i - Len(a)]
          BY <4>1, ConcatProperties, LenProperties
      <4>3. Len(w) >= 2
        <5>1. Len(wire[s]) \in Nat
            BY <4>2 DEF w
        <5>2. \A l \in Nat : l > 0 /\ l # 1 => l >= 2
            OBVIOUS
        <5> QED
            BY <3>2, <4>0, <5>1, <5>2 DEF w
      <4>4. Len(a) + 2 \in 1 .. Len(a) + Len(w) /\ ~ (Len(a) + 2 <= Len(a))
            /\ (Len(a) + 2) - Len(a) = 2
          BY <4>2, <4>3
      <4>5. (a \o w)[Len(a) + 2] = w[2]
          BY <4>2, <4>4
      <4>6. a \o w = Body(k, n)
          BY <3>1 DEF a, w
      <4>7. w[2] = Item("body", k, n)
          BY <2>4, <4>2, <4>4, <4>5, <4>6
      <4> QED
          BY <4>7 DEF Item, w
    <3>4. SubSeq(wire[s], 1, 1) \in Chunks(s)
        BY <3>2, <3>3 DEF Chunks
    <3> QED
        BY <3>1, <3>4
  <2>8. ~ Settled(s)
      BY <2>2 DEF Settled
  <2> QED
      BY <2>1, <2>6, <2>7, <2>8 DEF IsServed
<1> QED
    BY <1>1, FramingInvariants, PTL
=============================================================================
