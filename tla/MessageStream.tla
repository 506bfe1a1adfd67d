---------------------------- MODULE MessageStream ----------------------------
(***************************************************************************)
(* What the reading half promises: the frames a server sends, however the  *)
(* network cuts their bytes, become one sequence of messages.  Control     *)
(* frames come out where they were sent, also between the fragments of a   *)
(* message; a fragmented message comes out at its last fragment; the first *)
(* offending frame ends the stream with the close code for its offence,    *)
(* and a Close ends it normally.  There are no buffers, headers, masks or  *)
(* partial frames here, and text is judged by the Unicode table.           *)
(***************************************************************************)
EXTENDS Integers, Sequences, FiniteSets

U == INSTANCE Utf8
S == INSTANCE SequencesExt

CONSTANTS
  Frame,      \* the frames a server may send (records, see FrameReader)
  MaxFrames,  \* how many it sends at most
  CloseCodes  \* the close codes a Close frame may carry

VARIABLES
  sent,       \* all frames sent, in order
  out,        \* the messages delivered, in order
  verdict     \* "open", "closed", or the close code of a failure

vars == <<sent, out, verdict>>

-----------------------------------------------------------------------------
IsData(f)    == f.opcode < 8
IsControl(f) == f.opcode >= 8

Kind(f) ==
  CASE f.opcode = 1 -> "Text"  [] f.opcode = 2 -> "Binary"
    [] f.opcode = 8 -> "Close" [] f.opcode = 9 -> "Ping" [] f.opcode = 10 -> "Pong"

WellFormed(f) ==
  /\ f.rsv = 0 /\ ~ f.masked
  /\ f.opcode \in {0, 1, 2, 8, 9, 10}
  /\ IsControl(f) => f.fin /\ f.form = 7
  /\ f.opcode = 8 => Len(f.data) # 1

\* The data frames before the i-th frame, and whether the last of them left
\* a message unfinished.
DataBefore(i) == {j \in 1 .. i - 1 : IsData(sent[j])}

Unfinished(i) ==
  \E j \in DataBefore(i) :
    /\ ~ sent[j].fin
    /\ \A k \in DataBefore(i) : k <= j

InOrder(i) == IsData(sent[i]) => (sent[i].opcode = 0 <=> Unfinished(i))

Completes(i) == sent[i].fin

\* The frame that began the message the i-th frame belongs to.
First(i) ==
  IF sent[i].opcode # 0 THEN i
  ELSE CHOOSE j \in DataBefore(i) :
         /\ sent[j].opcode # 0
         /\ \A k \in DataBefore(i) : sent[k].opcode # 0 => k <= j

Payload(i) ==
  IF IsControl(sent[i]) THEN sent[i].data
  ELSE S!FlattenSeq([k \in 1 .. i - First(i) + 1 |->
         LET f == sent[First(i) + k - 1]
         IN  IF IsData(f) THEN f.data ELSE << >>])

Message(i) == [type |-> Kind(sent[First(i)]), final |-> TRUE, data |-> Payload(i)]

TextOf(i) ==
  CASE sent[First(i)].opcode = 1 -> Payload(i)
    [] sent[i].opcode = 8 -> SubSeq(Payload(i), 3, Len(Payload(i)))
    [] OTHER -> << >>

BadClose(i) ==
  /\ sent[i].opcode = 8
  /\ Payload(i) # << >>
  /\ Payload(i)[1] * 256 + Payload(i)[2] \notin CloseCodes

\* The close code the i-th frame earns, given that all before it were fine.
Offence(i) ==
  CASE ~ WellFormed(sent[i]) \/ ~ InOrder(i) -> "1002"
    [] WellFormed(sent[i]) /\ InOrder(i) /\ Completes(i)
       /\ ~ U!WellFormedText(TextOf(i)) -> "1007"
    [] WellFormed(sent[i]) /\ InOrder(i) /\ Completes(i)
       /\ U!WellFormedText(TextOf(i)) /\ BadClose(i) -> "1002"
    [] OTHER -> "none"

\* The frame the next delivery comes from: the earliest one that completes a
\* message not delivered yet.
IsNext(i) ==
  /\ Completes(i)
  /\ Cardinality({j \in 1 .. i - 1 : Completes(j)}) = Len(out)

FaultlessBefore(i) == \A j \in 1 .. i - 1 : Offence(j) = "none"

-----------------------------------------------------------------------------
Init ==
  /\ sent = << >>
  /\ out = << >>
  /\ verdict = "open"

Send(f) ==
  /\ Len(sent) < MaxFrames
  /\ sent' = Append(sent, f)
  /\ UNCHANGED <<out, verdict>>

Deliver(i) ==
  /\ verdict = "open"
  /\ FaultlessBefore(i) /\ IsNext(i) /\ Offence(i) = "none"
  /\ out' = Append(out, Message(i))
  /\ verdict' = IF sent[i].opcode = 8 THEN "closed" ELSE "open"
  /\ UNCHANGED sent

\* The stream fails only after everything before the fault was delivered.
Fail(i) ==
  /\ verdict = "open"
  /\ FaultlessBefore(i) /\ Offence(i) # "none"
  /\ Cardinality({j \in 1 .. i - 1 : Completes(j)}) = Len(out)
  /\ verdict' = Offence(i)
  /\ UNCHANGED <<sent, out>>

Advance == \E i \in 1 .. Len(sent) : Deliver(i) \/ Fail(i)

Next == (\E f \in Frame : Send(f)) \/ Advance

Spec == Init /\ [][Next]_vars

\* What can be delivered, or must fail, is in the end.
Delivery == WF_vars(Advance)

==============================================================================
