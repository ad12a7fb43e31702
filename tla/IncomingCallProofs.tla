------------------------- MODULE IncomingCallProofs -------------------------
(***************************************************************************)
(* Proofs about IncomingCall, for any number of phones and accounts: the   *)
(* module is kept while the carrier may have the call, the carrier is      *)
(* answered for the winner alone, no phone whose 200 was taken is left in  *)
(* its dialog, and every account's record is settled last and closed.      *)
(*                                                                         *)
(* The invariant relates the router's call to the main goroutine, each leg *)
(* to what its phone was told, and each record to the legs of its account. *)
(***************************************************************************)
EXTENDS IncomingCall, TLAPS

RouterCalls == [closing : SUBSET Phones, idle : BOOLEAN, legs : SUBSET Phones, winner : Phones \cup {Nobody},
                phase : {"none", "ringing", "connecting", "connected", "ending", "gone"}]

\* Places of a leg before it has a 200 and after its flags are set; of the main goroutine before legs run.
Before == {"none", "setup", "fence", "send", "offer", "drain"}
Over == {"record", "report", "done"}
Untried == {"probe", "reject", "start"}

\* The router's call: it goes only when every phone and the module are closed.
RouterInv ==
    /\ router \in RouterCalls
    /\ router.phase = "none" => rung = {} /\ main \in {"probe", "reject", "done"}
    /\ main \in {"probe", "reject"} => router.phase = "none"
    /\ router.phase \in {"none", "ringing"} => router.winner = Nobody
    /\ router.phase = "gone" => router.legs = {} /\ moduleClosed
    /\ router.idle => moduleClosed
    /\ rung \ peerClosed \subseteq router.legs /\ router.legs \subseteq rung
    /\ finalizer # "none" <=> router.phase = "gone"

\* The main goroutine: when the line is let go, and whom it has taken for the winner.
MainInv ==
    /\ main \in {"report", "abandoned", "join", "last", "done"} => line \in {"none", "left"}
    /\ moduleClosed => main \in {"join", "last", "done"}
    /\ main = "answer" => won # Nobody
    /\ winner \in selected \cup {Nobody} /\ won \in selected \cup {Nobody}
    /\ main \in Untried => \A l \in Phones : leg[l] = "none"
    /\ main \in {"last", "done"} => \A l \in rung : leg[l] = "done"

\* A leg: only the router's winner is selected, and a 200 is followed by a BYE.
LegInv(l) ==
    /\ leg[l] # "none" => l \in rung
    /\ l \in selected => router.winner = l
    /\ leg[l] \in Before => l \notin responses
    /\ l \in responses => phone[l] \in {"answered", "left"}
    /\ l \in responses /\ (leg[l] \in {"finish"} \cup Over \/ l \in peerClosed) => l \in byes \/ phone[l] = "left"
    /\ l \in peerClosed \ responses => leg[l] \in {"finish"} \cup Over
    /\ l \in finished <=> leg[l] \in Over
    /\ l \in finished => outcome[l] # "none"

\* The record of an account: it is settled by its last leg, and closed by the later of two writers.
RecordInv(a) ==
    /\ record[a].finished =>
          /\ LegsOf(a) \subseteq finished /\ record[a].state \in {"pending", "ended"}
          /\ \A l \in LegsOf(a) \cap selected : record[a].outcome = outcome[l]
          /\ finalizer = "done" => record[a].state = "ended"
    /\ record[a].state # "none" /\ ~ record[a].finished => \E l \in LegsOf(a) : leg[l] \notin {"report", "done"}
    /\ main \in Untried => ~ record[a].finished /\ record[a].state = "none"

Inv == TypeOK /\ RouterInv /\ MainInv /\ (\A l \in Phones : LegInv(l)) /\ \A a \in Owners : RecordInv(a)

-----------------------------------------------------------------------------
(* What a step leaves of the legs and the records.                         *)

\* Outcomes that are known stay.
Kept ==
    /\ stopped' \subseteq Phones
    /\ outcome' \in [Phones -> Outcomes]
    /\ \A l \in Phones : outcome[l] # "none" => outcome'[l] = outcome[l]

\* The step leaves leg e as it was.
SameLeg(e) ==
    /\ leg'[e] = leg[e] /\ phone'[e] = phone[e]
    /\ e \in rung => e \in rung'
    /\ e \in selected' => router'.winner = e
    /\ e \in responses <=> e \in responses'
    /\ e \in peerClosed' => e \in peerClosed
    /\ e \in byes => e \in byes'
    /\ e \in finished <=> e \in finished'
    /\ outcome[e] # "none" => outcome'[e] # "none"

\* The step neither writes a record nor takes away what one rests on.
Steady ==
    /\ Kept /\ rung' = rung /\ record' = record
    /\ finished \subseteq finished'
    /\ \A e \in finished : e \in selected' => e \in selected
    /\ finalizer' = "done" => finalizer = "done"
    /\ main' \in Untried => main \in Untried
    /\ \A e \in Phones : leg'[e] \in {"report", "done"} => leg[e] \in {"report", "done"}

\* Such a leg keeps its invariant.
LEMMA LegStays ==
    ASSUME NEW e \in Phones, LegInv(e), SameLeg(e)
    PROVE  LegInv(e)'
BY DEF LegInv, SameLeg, Before, Over

\* After such a step every record keeps its invariant.
LEMMA RecordsStay ==
    ASSUME Inv, Steady, NEW a \in Owners
    PROVE  RecordInv(a)'
<1>1. RecordInv(a) /\ TypeOK /\ \A l \in Phones : LegInv(l)  BY DEF Inv
<1>2. LegsOf(a)' = LegsOf(a) /\ LegsOf(a) \subseteq Phones  BY <1>1 DEF LegsOf, Steady, TypeOK
<1>3. \A l \in finished : outcome'[l] = outcome[l]  BY <1>1 DEF Steady, Kept, LegInv, TypeOK
<1>4. record'[a] = record[a]  BY DEF Steady
<1>5. record[a].finished =>
          /\ LegsOf(a)' \subseteq finished' /\ record'[a].state \in {"pending", "ended"}
          /\ \A l \in LegsOf(a)' \cap selected' : record'[a].outcome = outcome'[l]
          /\ finalizer' = "done" => record'[a].state = "ended"
  BY <1>1, <1>2, <1>3, <1>4 DEF Steady, RecordInv
<1>6. record[a].state # "none" /\ ~ record[a].finished => \E l \in LegsOf(a)' : leg'[l] \notin {"report", "done"}
  BY <1>1, <1>2 DEF Steady, RecordInv
<1>7. main' \in Untried => ~ record[a].finished /\ record[a].state = "none"
  BY <1>1 DEF Steady, RecordInv
<1> QED  BY <1>4, <1>5, <1>6, <1>7 DEF RecordInv

\* A step of one leg.
LEMMA LegStepKeeps ==
    ASSUME Inv, TypeOK', RouterInv', MainInv', Steady,
           NEW l \in Phones, LegInv(l)', \A e \in Phones \ {l} : SameLeg(e)
    PROVE  Inv'
<1>1. \A e \in Phones : LegInv(e)'  BY LegStays DEF Inv
<1>2. \A a \in Owners : RecordInv(a)'  BY RecordsStay
<1>3. Owners' = Owners  BY DEF Owners
<1> QED  BY <1>1, <1>2, <1>3 DEF Inv

\* A step that leaves every leg alone.
LEMMA StepKeeps ==
    ASSUME Inv, TypeOK', RouterInv', MainInv', Steady, \A e \in Phones : SameLeg(e)
    PROVE  Inv'
<1>1. \A e \in Phones : LegInv(e)'  BY LegStays DEF Inv
<1>2. \A a \in Owners : RecordInv(a)'  BY RecordsStay
<1> QED  BY <1>1, <1>2 DEF Inv

\* Stopping legs keeps the outcomes that are known,
LEMMA StoppingKeeps ==
    ASSUME TypeOK, NEW S \in SUBSET Phones, NEW reason \in Outcomes, Stopping(S, reason)
    PROVE  Kept
<1>1. stopped' \subseteq Phones  BY DEF Stopping, TypeOK
<1>2. outcome' \in [Phones -> Outcomes]  BY DEF Stopping, TypeOK, Outcomes
<1>3. \A l \in Phones : outcome[l] # "none" => outcome'[l] = outcome[l]  BY DEF Stopping, TypeOK
<1> QED  BY <1>1, <1>2, <1>3 DEF Kept

\* and gives one to each of them.
LEMMA StoppingSettles ==
    ASSUME TypeOK, NEW S \in SUBSET Phones, NEW reason \in Outcomes \ {"none"}, Stopping(S, reason), NEW l \in S
    PROVE  outcome'[l] # "none"
BY DEF Stopping, TypeOK, Outcomes

\* A step that stops nobody keeps them too.
LEMMA UnstoppedKeeps ==
    ASSUME TypeOK, UNCHANGED <<stopped, outcome>>
    PROVE  Kept
BY DEF TypeOK, Kept

Legs == {"none", "setup", "fence", "send", "offer", "loop", "drain", "lock", "ack", "bye",
         "finish", "record", "report", "done"}

\* A leg's goroutine goes from place to place.
LEMMA LegAtTyped ==
    ASSUME TypeOK, NEW l \in Phones, NEW place \in Legs, LegAt(l, place)
    PROVE  leg' \in [Phones -> Legs]
BY DEF TypeOK, LegAt, Legs

-----------------------------------------------------------------------------
\* A step of a leg before it has a 200.
LEMMA OfferStep ==
    ASSUME Inv, NEW l \in Phones,
           Setup(l) \/ Fence(l) \/ Send(l) \/ Done(l) \/ DrainDeadline(l) \/ TxDone(l)
    PROVE  Inv'
<1> USE DEF LegFrame, callVars, legVars, phoneVars
<1>1. CASE Setup(l)
  <2>1. Kept  BY <1>1, StoppingKeeps, UnstoppedKeeps DEF Inv, Setup, Outcomes
  <2>8. leg' \in [Phones -> Legs]  BY <1>1, LegAtTyped DEF Inv, TypeOK, Setup, Legs
  <2>2. TypeOK'  BY <1>1, <2>1, <2>8 DEF Inv, TypeOK, Setup, Kept, Legs
  <2>3. RouterInv' /\ MainInv'  BY <1>1 DEF Inv, TypeOK, Setup, LegAt, RouterInv, MainInv, LegInv, Untried, Current
  <2>4. LegInv(l)'  BY <1>1, <2>1 DEF Inv, TypeOK, Setup, LegAt, Kept, LegInv, MainInv, RouterInv, Before, Over, Current
  <2>5. \A e \in Phones \ {l} : SameLeg(e)  BY <1>1, <2>1 DEF Inv, TypeOK, Setup, LegAt, SameLeg, Kept, LegInv
  <2>6. Steady  BY <1>1, <2>1 DEF Inv, TypeOK, Setup, LegAt, Steady
  <2> QED  BY <2>1, <2>2, <2>3, <2>4, <2>5, <2>6, LegStepKeeps
<1>2. CASE Fence(l)
  <2>1. Kept  BY <1>2, StoppingKeeps, UnstoppedKeeps DEF Inv, Fence, Outcomes
  <2>8. leg' \in [Phones -> Legs]  BY <1>2, LegAtTyped DEF Inv, TypeOK, Fence, Legs
  <2>2. TypeOK'  BY <1>2, <2>1, <2>8 DEF Inv, TypeOK, Fence, Kept, Legs
  <2>3. RouterInv' /\ MainInv'  BY <1>2 DEF Inv, TypeOK, Fence, LegAt, RouterInv, MainInv, LegInv, Untried, Current
  <2>4. LegInv(l)'  BY <1>2, <2>1 DEF Inv, TypeOK, Fence, LegAt, Kept, LegInv, MainInv, RouterInv, Before, Over, Current
  <2>5. \A e \in Phones \ {l} : SameLeg(e)  BY <1>2, <2>1 DEF Inv, TypeOK, Fence, LegAt, SameLeg, Kept, LegInv
  <2>6. Steady  BY <1>2, <2>1 DEF Inv, TypeOK, Fence, LegAt, Steady
  <2> QED  BY <2>1, <2>2, <2>3, <2>4, <2>5, <2>6, LegStepKeeps
<1>3. CASE Send(l)
  <2>1. Kept  BY <1>3, StoppingKeeps, UnstoppedKeeps DEF Inv, Send, Outcomes
  <2>8. leg' \in [Phones -> Legs]  BY <1>3, LegAtTyped DEF Inv, TypeOK, Send, Legs
  <2>2. TypeOK'  BY <1>3, <2>1, <2>8 DEF Inv, TypeOK, Send, Kept, Legs
  <2>3. RouterInv' /\ MainInv'  BY <1>3 DEF Inv, TypeOK, Send, LegAt, RouterInv, MainInv, LegInv, Untried, Current
  <2>4. LegInv(l)'  BY <1>3, <2>1 DEF Inv, TypeOK, Send, LegAt, Kept, LegInv, MainInv, RouterInv, Before, Over, Current
  <2>5. \A e \in Phones \ {l} : SameLeg(e)  BY <1>3, <2>1 DEF Inv, TypeOK, Send, LegAt, SameLeg, Kept, LegInv
  <2>6. Steady  BY <1>3, <2>1 DEF Inv, TypeOK, Send, LegAt, Steady
  <2> QED  BY <2>1, <2>2, <2>3, <2>4, <2>5, <2>6, LegStepKeeps
<1>4. CASE Done(l)
  <2>1. Kept  BY <1>4, StoppingKeeps, UnstoppedKeeps DEF Inv, Done, Outcomes
  <2>8. leg' \in [Phones -> Legs]  BY <1>4, LegAtTyped DEF Inv, TypeOK, Done, Legs
  <2>2. TypeOK'  BY <1>4, <2>1, <2>8 DEF Inv, TypeOK, Done, Kept, Legs
  <2>3. RouterInv' /\ MainInv'  BY <1>4 DEF Inv, TypeOK, Done, LegAt, RouterInv, MainInv, LegInv, Untried, Current
  <2>4. LegInv(l)'  BY <1>4, <2>1 DEF Inv, TypeOK, Done, LegAt, Kept, LegInv, MainInv, RouterInv, Before, Over, Current
  <2>5. \A e \in Phones \ {l} : SameLeg(e)  BY <1>4, <2>1 DEF Inv, TypeOK, Done, LegAt, SameLeg, Kept, LegInv
  <2>6. Steady  BY <1>4, <2>1 DEF Inv, TypeOK, Done, LegAt, Steady
  <2> QED  BY <2>1, <2>2, <2>3, <2>4, <2>5, <2>6, LegStepKeeps
<1>5. CASE DrainDeadline(l)
  <2>1. Kept  BY <1>5, StoppingKeeps, UnstoppedKeeps DEF Inv, DrainDeadline, Outcomes
  <2>8. leg' \in [Phones -> Legs]  BY <1>5, LegAtTyped DEF Inv, TypeOK, DrainDeadline, Legs
  <2>2. TypeOK'  BY <1>5, <2>1, <2>8 DEF Inv, TypeOK, DrainDeadline, Kept, Legs
  <2>3. RouterInv' /\ MainInv'  BY <1>5 DEF Inv, TypeOK, DrainDeadline, LegAt, RouterInv, MainInv, LegInv, Untried, Current
  <2>4. LegInv(l)'  BY <1>5, <2>1 DEF Inv, TypeOK, DrainDeadline, LegAt, Kept, LegInv, MainInv, RouterInv, Before, Over, Current
  <2>5. \A e \in Phones \ {l} : SameLeg(e)  BY <1>5, <2>1 DEF Inv, TypeOK, DrainDeadline, LegAt, SameLeg, Kept, LegInv
  <2>6. Steady  BY <1>5, <2>1 DEF Inv, TypeOK, DrainDeadline, LegAt, Steady
  <2> QED  BY <2>1, <2>2, <2>3, <2>4, <2>5, <2>6, LegStepKeeps
<1>6. CASE TxDone(l)
  <2>1. Kept  BY <1>6, StoppingKeeps, UnstoppedKeeps DEF Inv, TxDone, Outcomes
  <2>8. leg' \in [Phones -> Legs]  BY <1>6, LegAtTyped DEF Inv, TypeOK, TxDone, Legs
  <2>2. TypeOK'  BY <1>6, <2>1, <2>8 DEF Inv, TypeOK, TxDone, Kept, Legs
  <2>3. RouterInv' /\ MainInv'  BY <1>6 DEF Inv, TypeOK, TxDone, LegAt, RouterInv, MainInv, LegInv, Untried, Current
  <2>4. LegInv(l)'  BY <1>6, <2>1 DEF Inv, TypeOK, TxDone, LegAt, Kept, LegInv, MainInv, RouterInv, Before, Over, Current
  <2>5. \A e \in Phones \ {l} : SameLeg(e)  BY <1>6, <2>1 DEF Inv, TypeOK, TxDone, LegAt, SameLeg, Kept, LegInv
  <2>6. Steady  BY <1>6, <2>1 DEF Inv, TypeOK, TxDone, LegAt, Steady
  <2> QED  BY <2>1, <2>2, <2>3, <2>4, <2>5, <2>6, LegStepKeeps
<1> QED  BY <1>1, <1>2, <1>3, <1>4, <1>5, <1>6

-----------------------------------------------------------------------------
\* A step of a leg with its phone's replies, up to the end of the dialog.
LEMMA ReplyStep ==
    ASSUME Inv, NEW l \in Phones,
           HandleRefusal(l) \/ HandleUnusable(l) \/ HandleAnswer(l) \/ Ack(l) \/ EndDialog(l) \/ Finish(l) \/ RefreshFails(l) \/ PhoneReplies(l)
    PROVE  Inv'
<1> USE DEF LegFrame, callVars, legVars, phoneVars
<1>1. CASE HandleRefusal(l)
  <2>1. Kept  BY <1>1, StoppingKeeps, UnstoppedKeeps DEF Inv, HandleRefusal, Outcomes
  <2>8. leg' \in [Phones -> Legs]  BY <1>1, LegAtTyped DEF Inv, TypeOK, HandleRefusal, Legs
  <2>2. TypeOK'  BY <1>1, <2>1, <2>8 DEF Inv, TypeOK, HandleRefusal, Kept, Legs
  <2>3. RouterInv' /\ MainInv'  BY <1>1 DEF Inv, TypeOK, HandleRefusal, LegAt, RouterInv, MainInv, LegInv, Untried, Current
  <2>4. LegInv(l)'  BY <1>1, <2>1 DEF Inv, TypeOK, HandleRefusal, LegAt, Kept, LegInv, MainInv, RouterInv, Before, Over, Current
  <2>5. \A e \in Phones \ {l} : SameLeg(e)  BY <1>1, <2>1 DEF Inv, TypeOK, HandleRefusal, LegAt, SameLeg, Kept, LegInv
  <2>6. Steady  BY <1>1, <2>1 DEF Inv, TypeOK, HandleRefusal, LegAt, Steady
  <2> QED  BY <2>1, <2>2, <2>3, <2>4, <2>5, <2>6, LegStepKeeps
<1>2. CASE HandleUnusable(l)
  <2>1. Kept  BY <1>2, StoppingKeeps, UnstoppedKeeps DEF Inv, HandleUnusable, Outcomes
  <2>8. leg' \in [Phones -> Legs]  BY <1>2, LegAtTyped DEF Inv, TypeOK, HandleUnusable, Legs
  <2>2. TypeOK'  BY <1>2, <2>1, <2>8 DEF Inv, TypeOK, HandleUnusable, Kept, Legs
  <2>3. RouterInv' /\ MainInv'  BY <1>2 DEF Inv, TypeOK, HandleUnusable, LegAt, RouterInv, MainInv, LegInv, Untried, Current
  <2>4. LegInv(l)'  BY <1>2, <2>1 DEF Inv, TypeOK, HandleUnusable, LegAt, Kept, LegInv, MainInv, RouterInv, Before, Over, Current
  <2>5. \A e \in Phones \ {l} : SameLeg(e)  BY <1>2, <2>1 DEF Inv, TypeOK, HandleUnusable, LegAt, SameLeg, Kept, LegInv
  <2>6. Steady  BY <1>2, <2>1 DEF Inv, TypeOK, HandleUnusable, LegAt, Steady
  <2> QED  BY <2>1, <2>2, <2>3, <2>4, <2>5, <2>6, LegStepKeeps
<1>3. CASE HandleAnswer(l)
  <2>1. Kept  BY <1>3, StoppingKeeps, UnstoppedKeeps DEF Inv, HandleAnswer, Outcomes
  <2>8. leg' \in [Phones -> Legs]  BY <1>3, LegAtTyped DEF Inv, TypeOK, HandleAnswer, Legs
  <2>2. TypeOK'  BY <1>3, <2>1, <2>8 DEF Inv, TypeOK, HandleAnswer, Kept, Legs
  <2>3. RouterInv' /\ MainInv'  BY <1>3 DEF Inv, TypeOK, HandleAnswer, LegAt, RouterInv, MainInv, LegInv, Untried, Current
  <2>4. LegInv(l)'  BY <1>3, <2>1 DEF Inv, TypeOK, HandleAnswer, LegAt, Kept, LegInv, MainInv, RouterInv, Before, Over, Current
  <2>5. \A e \in Phones \ {l} : SameLeg(e)  BY <1>3, <2>1 DEF Inv, TypeOK, HandleAnswer, LegAt, SameLeg, Kept, LegInv
  <2>6. Steady  BY <1>3, <2>1 DEF Inv, TypeOK, HandleAnswer, LegAt, Steady
  <2> QED  BY <2>1, <2>2, <2>3, <2>4, <2>5, <2>6, LegStepKeeps
<1>4. CASE Ack(l)
  <2>1. Kept
    <3>1. (IF l \in selected THEN rung ELSE {l}) \in SUBSET Phones /\ "other" \in Outcomes
      BY DEF Inv, TypeOK, Outcomes
    <3>2. UNCHANGED <<stopped, outcome>> \/ Stopping(IF l \in selected THEN rung ELSE {l}, "other")  BY <1>4 DEF Ack
    <3> QED  BY <3>1, <3>2, StoppingKeeps, UnstoppedKeeps DEF Inv
  <2>8. leg' \in [Phones -> Legs]
    <3>1. LegAt(l, "loop") \/ LegAt(l, "bye")  BY <1>4 DEF Ack
    <3> QED  BY <3>1, LegAtTyped DEF Inv, Legs
  <2>2. TypeOK'
    <3>1. acked' \subseteq Phones /\ winner' \in Phones \cup {Nobody}  BY <1>4 DEF Inv, TypeOK, Ack
    <3>2. callStopped' \in BOOLEAN  BY <1>4 DEF Inv, TypeOK, Ack
    <3>3. UNCHANGED <<main, line, won, connected, moduleClosed, done, rung, ended, peerClosed, selected, finished,
                      responses, router, record, finalizer, phone, byes>>
      BY <1>4 DEF Ack
    <3> QED  BY <2>1, <2>8, <3>1, <3>2, <3>3 DEF Inv, TypeOK, Kept, Legs
  <2>3. RouterInv' /\ MainInv'
    BY <1>4 DEF Inv, TypeOK, Ack, LegAt, RouterInv, MainInv, LegInv, Untried, Before
  <2>4. LegInv(l)'  BY <1>4, <2>1 DEF Inv, TypeOK, Ack, LegAt, Kept, LegInv, Before, Over
  <2>5. \A e \in Phones \ {l} : SameLeg(e)  BY <1>4, <2>1 DEF Inv, TypeOK, Ack, LegAt, SameLeg, Kept, LegInv
  <2>6. Steady  BY <1>4, <2>1 DEF Inv, TypeOK, Ack, LegAt, Steady
  <2> QED  BY <2>1, <2>2, <2>3, <2>4, <2>5, <2>6, LegStepKeeps
<1>5. CASE EndDialog(l)
  <2>1. Kept  BY <1>5, StoppingKeeps, UnstoppedKeeps DEF Inv, EndDialog, Outcomes
  <2>8. leg' \in [Phones -> Legs]  BY <1>5, LegAtTyped DEF Inv, TypeOK, EndDialog, Legs
  <2>2. TypeOK'  BY <1>5, <2>1, <2>8 DEF Inv, TypeOK, EndDialog, Kept, Legs
  <2>3. RouterInv' /\ MainInv'  BY <1>5 DEF Inv, TypeOK, EndDialog, LegAt, RouterInv, MainInv, LegInv, Untried, Current
  <2>4. LegInv(l)'  BY <1>5, <2>1 DEF Inv, TypeOK, EndDialog, LegAt, Kept, LegInv, MainInv, RouterInv, Before, Over, Current
  <2>5. \A e \in Phones \ {l} : SameLeg(e)  BY <1>5, <2>1 DEF Inv, TypeOK, EndDialog, LegAt, SameLeg, Kept, LegInv
  <2>6. Steady  BY <1>5, <2>1 DEF Inv, TypeOK, EndDialog, LegAt, Steady
  <2> QED  BY <2>1, <2>2, <2>3, <2>4, <2>5, <2>6, LegStepKeeps
<1>6. CASE Finish(l)
  <2>1. Kept  BY <1>6, StoppingKeeps, UnstoppedKeeps DEF Inv, Finish, Outcomes
  <2>7. outcome'[l] # "none"  BY <1>6, StoppingSettles DEF Inv, Finish, Outcomes
  <2>8. leg' \in [Phones -> Legs]  BY <1>6, LegAtTyped DEF Inv, TypeOK, Finish, Legs
  <2>2. TypeOK'  BY <1>6, <2>1, <2>8 DEF Inv, TypeOK, Finish, Kept, Legs
  <2>3. RouterInv' /\ MainInv'  BY <1>6 DEF Inv, TypeOK, Finish, LegAt, RouterInv, MainInv, LegInv, Untried, Current
  <2>4. LegInv(l)'  BY <1>6, <2>1, <2>7 DEF Inv, TypeOK, Finish, LegAt, Kept, LegInv, MainInv, RouterInv, Before, Over, Current
  <2>5. \A e \in Phones \ {l} : SameLeg(e)  BY <1>6, <2>1 DEF Inv, TypeOK, Finish, LegAt, SameLeg, Kept, LegInv
  <2>6. Steady  BY <1>6, <2>1 DEF Inv, TypeOK, Finish, LegAt, Steady
  <2> QED  BY <2>1, <2>2, <2>3, <2>4, <2>5, <2>6, LegStepKeeps
<1>7. CASE RefreshFails(l)
  <2>1. Kept  BY <1>7, StoppingKeeps, UnstoppedKeeps DEF Inv, RefreshFails, Outcomes
  <2>8. leg' \in [Phones -> Legs]  BY <1>7, LegAtTyped DEF Inv, TypeOK, RefreshFails, Legs
  <2>2. TypeOK'  BY <1>7, <2>1, <2>8 DEF Inv, TypeOK, RefreshFails, Kept, Legs
  <2>3. RouterInv' /\ MainInv'  BY <1>7 DEF Inv, TypeOK, RefreshFails, LegAt, RouterInv, MainInv, LegInv, Untried, Current
  <2>4. LegInv(l)'  BY <1>7, <2>1 DEF Inv, TypeOK, RefreshFails, LegAt, Kept, LegInv, MainInv, RouterInv, Before, Over, Current
  <2>5. \A e \in Phones \ {l} : SameLeg(e)  BY <1>7, <2>1 DEF Inv, TypeOK, RefreshFails, LegAt, SameLeg, Kept, LegInv
  <2>6. Steady  BY <1>7, <2>1 DEF Inv, TypeOK, RefreshFails, LegAt, Steady
  <2> QED  BY <2>1, <2>2, <2>3, <2>4, <2>5, <2>6, LegStepKeeps
<1>8. CASE PhoneReplies(l)
  <2>1. Kept  BY <1>8, StoppingKeeps, UnstoppedKeeps DEF Inv, PhoneReplies, Outcomes
  <2>8. leg' \in [Phones -> Legs]  BY <1>8, LegAtTyped DEF Inv, TypeOK, PhoneReplies, Legs
  <2>2. TypeOK'  BY <1>8, <2>1, <2>8 DEF Inv, TypeOK, PhoneReplies, Kept, Legs
  <2>3. RouterInv' /\ MainInv'  BY <1>8 DEF Inv, TypeOK, PhoneReplies, LegAt, RouterInv, MainInv, LegInv, Untried, Current
  <2>4. LegInv(l)'  BY <1>8, <2>1 DEF Inv, TypeOK, PhoneReplies, LegAt, Kept, LegInv, MainInv, RouterInv, Before, Over, Current
  <2>5. \A e \in Phones \ {l} : SameLeg(e)  BY <1>8, <2>1 DEF Inv, TypeOK, PhoneReplies, LegAt, SameLeg, Kept, LegInv
  <2>6. Steady  BY <1>8, <2>1 DEF Inv, TypeOK, PhoneReplies, LegAt, Steady
  <2> QED  BY <2>1, <2>2, <2>3, <2>4, <2>5, <2>6, LegStepKeeps
<1> QED  BY <1>1, <1>2, <1>3, <1>4, <1>5, <1>6, <1>7, <1>8

-----------------------------------------------------------------------------
(* The router's call: what its operations return.                          *)

\* An ended call closes every leg.
LEMMA EndedCall ==
    ASSUME NEW r \in RouterCalls, r.closing \subseteq r.legs
    PROVE  LET q == Ended(r)
           IN /\ q \in RouterCalls /\ q.closing \subseteq q.legs
              /\ q.legs = r.legs /\ q.idle = r.idle /\ q.winner = r.winner /\ q.phase = "ending"
BY DEF RouterCalls, Ended

\* A call without legs whose module is idle is gone.
LEMMA ForgottenCall ==
    ASSUME NEW r \in RouterCalls, r.closing \subseteq r.legs
    PROVE  LET q == Forgotten(r)
           IN /\ q \in RouterCalls /\ q.closing \subseteq q.legs
              /\ q.legs = r.legs /\ q.idle = r.idle /\ q.winner = r.winner
              /\ q.phase = IF r.idle /\ r.legs = {} THEN "gone" ELSE r.phase
BY DEF RouterCalls, Forgotten

\* A withdrawn leg is being closed; without a winner, or of the winner, the call ends.
LEMMA WithdrawnCall ==
    ASSUME NEW r \in RouterCalls, r.closing \subseteq r.legs, NEW l \in r.legs
    PROVE  LET q == Withdrawn(r, l)
           IN /\ q \in RouterCalls /\ q.closing \subseteq q.legs
              /\ q.legs = r.legs /\ q.idle = r.idle /\ q.winner = r.winner /\ q.phase \in {r.phase, "ending"}
<1> DEFINE q == [r EXCEPT !.closing = @ \cup {l}]
<1>1. /\ q \in RouterCalls /\ q.closing \subseteq q.legs
      /\ q.legs = r.legs /\ q.idle = r.idle /\ q.winner = r.winner /\ q.phase = r.phase
  BY DEF RouterCalls
<1>2. Withdrawn(r, l) \in {Ended(r), Ended(q), q}  BY DEF Withdrawn
<1> HIDE DEF q
<1> QED  BY <1>1, <1>2, EndedCall

\* A closed leg leaves the call.
LEMMA ClientClosedCall ==
    ASSUME NEW r \in RouterCalls, r.closing \subseteq r.legs, NEW l \in Phones
    PROVE  LET q == ClientClosed(r, l)
           IN /\ q \in RouterCalls /\ q.closing \subseteq q.legs
              /\ q.legs = r.legs \ {l} /\ q.idle = r.idle /\ q.winner = r.winner
              /\ q.phase \in {r.phase, "ending", "gone"}
              /\ q.phase = "gone" => r.phase = "gone" \/ (r.idle /\ q.legs = {})
              /\ r.phase = "gone" /\ l \notin r.legs => q.phase = "gone"
<1>1. CASE l \notin r.legs
  BY <1>1 DEF ClientClosed
<1>2. CASE l \in r.legs
  <2> DEFINE w == Withdrawn(r, l)
             q == [w EXCEPT !.legs = @ \ {l}, !.closing = @ \ {l}]
  <2>1. /\ w \in RouterCalls /\ w.closing \subseteq w.legs
        /\ w.legs = r.legs /\ w.idle = r.idle /\ w.winner = r.winner /\ w.phase \in {r.phase, "ending"}
    BY <1>2, WithdrawnCall
  <2>2. ClientClosed(r, l) = Forgotten(q)  BY <1>2 DEF ClientClosed
  <2> HIDE DEF w
  <2>3. /\ q \in RouterCalls /\ q.closing \subseteq q.legs
        /\ q.legs = r.legs \ {l} /\ q.idle = r.idle /\ q.winner = r.winner /\ q.phase \in {r.phase, "ending"}
    BY <2>1 DEF RouterCalls
  <2> HIDE DEF q
  <2> QED  BY <1>2, <2>2, <2>3, ForgottenCall
<1> QED  BY <1>1, <1>2

\* The call ends when its module is idle.
LEMMA ModuleClosedCall ==
    ASSUME NEW r \in RouterCalls, r.closing \subseteq r.legs, r.phase # "gone"
    PROVE  LET q == ModuleClosed(r)
           IN /\ q \in RouterCalls /\ q.closing \subseteq q.legs
              /\ q.legs = r.legs /\ q.winner = r.winner /\ q.phase \in {"ending", "gone"}
              /\ q.phase = "gone" => q.legs = {}
<1> DEFINE i == [r EXCEPT !.idle = TRUE]
<1>1. i \in RouterCalls /\ i.closing \subseteq i.legs /\ i.legs = r.legs /\ i.winner = r.winner
  BY DEF RouterCalls
<1>2. ModuleClosed(r) = Forgotten(Ended(i))  BY DEF ModuleClosed
<1> HIDE DEF i
<1> QED  BY <1>1, <1>2, EndedCall, ForgottenCall

\* The first answer wins, and the other legs are being closed.
LEMMA AnsweredCall ==
    ASSUME NEW r \in RouterCalls, NEW l \in Phones
    PROVE  LET q == Answered(r, l)
           IN /\ q \in RouterCalls /\ q.closing \subseteq q.legs
              /\ q.legs = r.legs /\ q.idle = r.idle /\ q.winner = l /\ q.phase = "connecting"
BY DEF RouterCalls, Answered

\* actionsLocked: the router's call, the outcomes and the finalizer afterwards.
LEMMA ApplyKeeps ==
    ASSUME TypeOK, NEW q, NEW S \in SUBSET Phones, NEW reason \in Outcomes, Apply(q, S, reason)
    PROVE  /\ Kept /\ router' = q /\ callStopped' \in BOOLEAN
           /\ finalizer' = IF q.phase = "gone" /\ router.phase # "gone" THEN "run" ELSE finalizer
<1> DEFINE ends == router.phase \notin {"none", "ending", "gone"} /\ q.phase \in {"ending", "gone"}
           told == IF ends THEN rung ELSE (q.closing \ router.closing) \cap rung
<1>1. told \cup S \in SUBSET Phones  BY DEF TypeOK
<1>2. Stopping(told \cup S, reason)  BY DEF Apply
<1> HIDE DEF told
<1>3. Kept  BY <1>1, <1>2, StoppingKeeps
<1>4. callStopped' \in BOOLEAN  BY DEF Apply, TypeOK
<1> QED  BY <1>3, <1>4 DEF Apply

\* A router's call that keeps its winner, and whose legs are those of phones that are not closed,
\* may take the place of the present one.
LEMMA CallEvolves ==
    ASSUME Inv, NEW q \in RouterCalls, router' = q, q.closing \subseteq q.legs, q.legs \subseteq router.legs,
           rung \ peerClosed' \subseteq q.legs, q.winner = router.winner, q.idle => moduleClosed',
           q.phase \in {router.phase, "ending", "gone"}, router.phase # "none",
           q.phase = "gone" => q.legs = {} /\ moduleClosed',
           router.phase = "gone" => q.phase = "gone",
           finalizer' = IF q.phase = "gone" /\ router.phase # "gone" THEN "run" ELSE finalizer,
           rung' = rung, main \in {"probe", "reject"} \/ main' \notin {"probe", "reject"}
    PROVE  /\ RouterInv'
           /\ finalizer' = "done" => finalizer = "done"
<1>1. RouterInv /\ TypeOK  BY DEF Inv
<1>2. main \notin {"probe", "reject"}  BY <1>1 DEF RouterInv
<1>3. finalizer' # "none" <=> q.phase = "gone"  BY <1>1 DEF RouterInv
<1>4. q.phase # "none"  BY DEF RouterCalls
<1>5. q.phase \in {"none", "ringing"} => router.phase = "ringing"  BY <1>4
<1> QED  BY <1>1, <1>2, <1>3, <1>4, <1>5 DEF RouterInv, RouterCalls
-----------------------------------------------------------------------------
(* Steps of a leg, its phone and the router on the router's call.          *)

\* A leg that is at work belongs to a call of the router.
LEMMA LegHasCall ==
    ASSUME Inv, NEW l \in Phones, leg[l] # "none"
    PROVE  l \in rung /\ router.phase # "none" /\ main \notin {"probe", "reject", "start"}
BY DEF Inv, RouterInv, MainInv, LegInv, Untried

\* Router.Answer: the phone wins, or is too late.
LEMMA LockStep ==
    ASSUME Inv, NEW l \in Phones, Lock(l)
    PROVE  Inv'
<1> USE DEF LegFrame, phoneVars
<1>1. leg[l] = "lock" /\ LegAt(l, "ack") /\ LegFrame
  BY DEF Lock
<1>2. leg' \in [Phones -> Legs]  BY <1>1, LegAtTyped DEF Inv, Legs
<1>3. UNCHANGED <<winner, peerClosed, finished, responses, record, phone, acked, byes>>  BY DEF Lock
<1>4. l \in rung /\ router.phase # "none"  BY <1>1, LegHasCall
<1>5. CASE Apply(Answered(router, l), {}, "elsewhere") /\ selected' = selected \cup {l} /\ Current(l, "ringing")
  <2> DEFINE q == Answered(router, l)
  <2>1. /\ q \in RouterCalls /\ q.closing \subseteq q.legs
        /\ q.legs = router.legs /\ q.idle = router.idle /\ q.winner = l /\ q.phase = "connecting"
    BY AnsweredCall DEF Inv, RouterInv
  <2> HIDE DEF q
  <2>2. Kept /\ router' = q /\ callStopped' \in BOOLEAN /\ finalizer' = finalizer
    BY <1>5, <2>1, ApplyKeeps DEF Inv, Outcomes, q
  <2>3. router.phase = "ringing" /\ router.winner = Nobody  BY <1>5 DEF Current, Inv, RouterInv
  <2>4. selected = {}  BY <2>3, IncomingConstants DEF Inv, LegInv, TypeOK
  <2>5. TypeOK'  BY <1>1, <1>2, <1>3, <1>5, <2>1, <2>2 DEF Inv, TypeOK, Kept, Legs, RouterCalls
  <2>6. RouterInv'
    BY <1>1, <1>3, <1>4, <2>1, <2>2, <2>3 DEF Inv, RouterInv
  <2>7. MainInv'
    BY <1>1, <1>3, <1>5, <2>4 DEF Inv, MainInv, LegAt, TypeOK, Untried
  <2>8. LegInv(l)'  BY <1>1, <1>3, <1>4, <2>1, <2>2 DEF Inv, TypeOK, Kept, LegAt, LegInv, Before, Over
  <2>9. \A e \in Phones \ {l} : SameLeg(e)
    BY <1>1, <1>3, <1>5, <2>1, <2>2, <2>4 DEF Inv, TypeOK, LegAt, SameLeg, Kept
  <2>10. Steady
    BY <1>1, <1>3, <1>5, <2>2 DEF Inv, TypeOK, LegAt, LegInv, Steady, Over
  <2> QED  BY <2>5, <2>6, <2>7, <2>8, <2>9, <2>10, LegStepKeeps
<1>6. CASE Stopping({l}, "other") /\ UNCHANGED <<selected, router, callStopped, finalizer>>
  <2>1. Kept  BY <1>6, StoppingKeeps DEF Inv, Outcomes
  <2>2. TypeOK'  BY <1>1, <1>2, <1>3, <1>6, <2>1 DEF Inv, TypeOK, Kept, Legs
  <2>3. RouterInv' /\ MainInv'  BY <1>1, <1>3, <1>6 DEF Inv, TypeOK, LegAt, RouterInv, MainInv, Untried
  <2>4. LegInv(l)'  BY <1>1, <1>3, <1>4, <1>6, <2>1 DEF Inv, TypeOK, Kept, LegAt, LegInv, Before, Over
  <2>5. \A e \in Phones \ {l} : SameLeg(e)  BY <1>1, <1>3, <1>6, <2>1 DEF Inv, TypeOK, LegAt, SameLeg, Kept, LegInv
  <2>6. Steady  BY <1>1, <1>3, <1>6, <2>1 DEF Inv, TypeOK, LegAt, Steady
  <2> QED  BY <2>2, <2>3, <2>4, <2>5, <2>6, LegStepKeeps
<1> QED  BY <1>5, <1>6 DEF Lock

\* The router learns that a phone is closed, from its leg or from the phone's BYE.
LEMMA ClosedStep ==
    ASSUME Inv, NEW l \in Phones, ReportLeg(l) \/ PhoneBye(l)
    PROVE  Inv'
<1> USE DEF LegFrame, phoneVars
<1> DEFINE q == ClientClosed(router, l)
<1>0. TypeOK /\ router \in RouterCalls /\ router.closing \subseteq router.legs  BY DEF Inv, RouterInv, TypeOK
<1>1. /\ q \in RouterCalls /\ q.closing \subseteq q.legs
      /\ q.legs = router.legs \ {l} /\ q.idle = router.idle /\ q.winner = router.winner
      /\ q.phase \in {router.phase, "ending", "gone"}
      /\ q.phase = "gone" => router.phase = "gone" \/ (router.idle /\ q.legs = {})
      /\ router.phase = "gone" /\ l \notin router.legs => q.phase = "gone"
  BY <1>0, ClientClosedCall
<1> HIDE DEF q
<1>2. router.phase = "gone" => router.legs = {} /\ moduleClosed  BY DEF Inv, RouterInv
<1>3. router.idle => moduleClosed  BY DEF Inv, RouterInv
<1>4. leg[l] # "none"  BY DEF ReportLeg, PhoneBye, Inv, LegInv, Before
<1>5. l \in rung /\ router.phase # "none" /\ main \notin {"probe", "reject", "start"}  BY <1>4, LegHasCall
<1>6. CASE ReportLeg(l)
  <2>1. leg[l] = "report" /\ LegAt(l, "done") /\ LegFrame
        /\ UNCHANGED <<winner, peerClosed, selected, finished, responses, record, phone, acked, byes>>
    BY <1>6 DEF ReportLeg
  <2>2. leg' \in [Phones -> Legs]  BY <2>1, LegAtTyped DEF Inv, Legs
  <2>3. /\ Kept /\ callStopped' \in BOOLEAN /\ router' \in RouterCalls /\ router'.closing \subseteq router'.legs
        /\ router'.winner = router.winner
        /\ RouterInv' /\ (finalizer' = "done" => finalizer = "done")
    <3>1. CASE l \in peerClosed
      <4>1. Apply(q, {}, "other")  BY <1>6, <3>1 DEF ReportLeg, q
      <4>2. /\ Kept /\ router' = q /\ callStopped' \in BOOLEAN
            /\ finalizer' = IF q.phase = "gone" /\ router.phase # "gone" THEN "run" ELSE finalizer
        BY <1>0, <4>1, ApplyKeeps DEF Outcomes
      <4>3. rung \ peerClosed' \subseteq q.legs  BY <1>1, <2>1, <3>1 DEF Inv, RouterInv
      <4>4. RouterInv' /\ (finalizer' = "done" => finalizer = "done")
        BY <1>1, <1>2, <1>3, <1>5, <2>1, <4>2, <4>3, CallEvolves
      <4> QED  BY <1>1, <4>2, <4>4
    <3>2. CASE l \notin peerClosed
      <4>1. UNCHANGED <<router, callStopped, stopped, outcome, finalizer>>  BY <1>6, <3>2 DEF ReportLeg
      <4>2. Kept  BY <1>0, <4>1, UnstoppedKeeps
      <4> QED  BY <1>0, <2>1, <4>1, <4>2 DEF Inv, TypeOK, RouterInv
    <3> QED  BY <3>1, <3>2
  <2>4. finalizer' \in {"none", "run", "done"}
    <3>1. finalizer' \in {finalizer, "run"}
      BY <1>6 DEF ReportLeg, Apply
    <3> QED  BY <1>0, <3>1 DEF TypeOK
  <2>5. TypeOK'  BY <1>0, <2>1, <2>2, <2>3, <2>4 DEF TypeOK, Kept, Legs, RouterCalls
  <2>6. MainInv'  BY <2>1 DEF Inv, TypeOK, LegAt, MainInv, Untried
  <2>7. LegInv(l)'  BY <2>1, <2>3, <1>5 DEF Inv, TypeOK, Kept, LegAt, LegInv, Before, Over
  <2>8. \A e \in Phones \ {l} : SameLeg(e)  BY <2>1, <2>3 DEF Inv, TypeOK, LegAt, SameLeg, Kept, LegInv
  <2>9. Steady  BY <2>1, <2>3 DEF Inv, TypeOK, LegAt, Steady
  <2> QED  BY <2>3, <2>5, <2>6, <2>7, <2>8, <2>9, LegStepKeeps
<1>7. CASE PhoneBye(l)
  <2>1. /\ phone[l] = "answered" /\ l \in responses /\ phone' = [phone EXCEPT ![l] = "left"]
        /\ peerClosed' = peerClosed \cup {l} /\ Apply(q, {l}, "other") /\ LegFrame
        /\ UNCHANGED <<leg, winner, selected, finished, responses, record, acked, byes>>
    BY <1>7 DEF PhoneBye, q
  <2>2. /\ Kept /\ router' = q /\ callStopped' \in BOOLEAN
        /\ finalizer' = IF q.phase = "gone" /\ router.phase # "gone" THEN "run" ELSE finalizer
    BY <1>0, <2>1, ApplyKeeps DEF Outcomes
  <2>3. rung \ peerClosed' \subseteq q.legs  BY <1>1, <2>1 DEF Inv, RouterInv
  <2>4. RouterInv' /\ (finalizer' = "done" => finalizer = "done")
    BY <1>1, <1>2, <1>3, <1>5, <2>1, <2>2, <2>3, CallEvolves
  <2>5. phone' \in [Phones -> {"idle", "ringing", "declined", "answered", "unusable", "left"}]
        /\ peerClosed' \subseteq Phones /\ finalizer' \in {"none", "run", "done"}
    BY <1>0, <2>1, <2>2 DEF TypeOK
  <2>6. TypeOK'  BY <1>0, <1>1, <2>1, <2>2, <2>5 DEF TypeOK, Kept, RouterCalls
  <2>7. MainInv'  BY <2>1 DEF Inv, MainInv
  <2>8. LegInv(l)'  BY <1>1, <1>5, <2>1, <2>2 DEF Inv, TypeOK, Kept, LegInv, Before
  <2>9. \A e \in Phones \ {l} : SameLeg(e)  BY <1>1, <2>1, <2>2 DEF Inv, TypeOK, SameLeg, Kept, LegInv
  <2>10. Steady  BY <2>1, <2>2, <2>4 DEF Inv, TypeOK, Steady
  <2> QED  BY <2>4, <2>6, <2>7, <2>8, <2>9, <2>10, LegStepKeeps
<1> QED  BY <1>6, <1>7

\* The router ends the call, or withdraws a phone.
LEMMA RouterStep ==
    ASSUME Inv, RouterEnds \/ \E l \in Phones : RouterWithdraws(l)
    PROVE  Inv'
<1> USE DEF phoneVars
<1>0. TypeOK /\ router \in RouterCalls /\ router.closing \subseteq router.legs  BY DEF Inv, RouterInv, TypeOK
<1>1. ASSUME NEW q \in RouterCalls, q.closing \subseteq q.legs, q.legs = router.legs, q.idle = router.idle,
             q.winner = router.winner, q.phase \in {router.phase, "ending"},
             router.phase \in {"ringing", "connecting", "connected"},
             NEW reason \in Outcomes, Apply(q, {}, reason),
             UNCHANGED <<main, line, winner, won, connected, moduleClosed, done, leg, rung, peerClosed, selected,
                         finished, responses, record, phoneVars, ended>>
      PROVE  Inv'
  <2>1. /\ Kept /\ router' = q /\ callStopped' \in BOOLEAN
        /\ finalizer' = IF q.phase = "gone" /\ router.phase # "gone" THEN "run" ELSE finalizer
    BY <1>0, <1>1, ApplyKeeps
  <2>2. finalizer' = finalizer  BY <1>1, <2>1
  <2>3. rung \ peerClosed' \subseteq q.legs /\ (router.idle => moduleClosed)  BY <1>1 DEF Inv, RouterInv
  <2>4. RouterInv'  BY <1>1, <2>1, <2>3, CallEvolves
  <2>5. TypeOK'  BY <1>0, <1>1, <2>1, <2>2 DEF TypeOK, Kept, RouterCalls
  <2>6. MainInv'  BY <1>1 DEF Inv, MainInv
  <2>7. \A e \in Phones : SameLeg(e)  BY <1>1, <2>1 DEF Inv, SameLeg, Kept, LegInv
  <2>8. Steady  BY <1>1, <2>1, <2>2 DEF Steady
  <2> QED  BY <2>4, <2>5, <2>6, <2>7, <2>8, StepKeeps
<1>2. CASE RouterEnds
  <2>1. PICK reason \in {"missed", "other"} : Apply(Ended(router), {}, reason)  BY <1>2 DEF RouterEnds
  <2>2. reason \in Outcomes  BY DEF Outcomes
  <2>3. LET q == Ended(router)
        IN /\ q \in RouterCalls /\ q.closing \subseteq q.legs
           /\ q.legs = router.legs /\ q.idle = router.idle /\ q.winner = router.winner /\ q.phase = "ending"
    BY <1>0, EndedCall
  <2> QED  BY <1>1, <1>2, <2>1, <2>2, <2>3 DEF RouterEnds
<1>3. CASE \E l \in Phones : RouterWithdraws(l)
  <2>1. PICK l \in Phones : RouterWithdraws(l)  BY <1>3
  <2>2. LET q == Withdrawn(router, l)
        IN /\ q \in RouterCalls /\ q.closing \subseteq q.legs
           /\ q.legs = router.legs /\ q.idle = router.idle /\ q.winner = router.winner
           /\ q.phase \in {router.phase, "ending"}
    BY <1>0, <2>1, WithdrawnCall DEF RouterWithdraws
  <2>3. "other" \in Outcomes  BY DEF Outcomes
  <2> QED  BY <1>1, <2>1, <2>2, <2>3 DEF RouterWithdraws
<1> QED  BY <1>2, <1>3

-----------------------------------------------------------------------------
(* Steps of the main goroutine.                                            *)

\* The probe that rejects the call.
LEMMA AdmissionStep ==
    ASSUME Inv, Reject \/ RejectHangup
    PROVE  Inv'
<1> USE DEF legVars, phoneVars
<1>1. CASE Reject
  <2>1. Kept
    <3>1. rung \in SUBSET Phones  BY DEF Inv, TypeOK
    <3> QED  BY <1>1, <3>1, StoppingKeeps, UnstoppedKeeps DEF Inv, Reject, Outcomes
  <2>2. TypeOK'  BY <1>1, <2>1 DEF Inv, TypeOK, Reject, Kept
  <2>3. RouterInv'  BY <1>1 DEF Inv, TypeOK, Reject, RouterInv, Current
  <2>4. MainInv'  BY <1>1 DEF Inv, TypeOK, Reject, RouterInv, MainInv, Untried
  <2>5. \A e \in Phones : SameLeg(e)  BY <1>1, <2>1 DEF Inv, Reject, SameLeg, Kept, LegInv
  <2>6. Steady  BY <1>1, <2>1 DEF Reject, Steady, Untried
  <2> QED  BY <2>2, <2>3, <2>4, <2>5, <2>6, StepKeeps
<1>2. CASE RejectHangup
  <2>1. Kept
    <3>1. rung \in SUBSET Phones  BY DEF Inv, TypeOK
    <3> QED  BY <1>2, <3>1, StoppingKeeps, UnstoppedKeeps DEF Inv, RejectHangup, Outcomes
  <2>2. TypeOK'  BY <1>2, <2>1 DEF Inv, TypeOK, RejectHangup, Kept
  <2>3. RouterInv'  BY <1>2 DEF Inv, TypeOK, RejectHangup, RouterInv, Current
  <2>4. MainInv'  BY <1>2 DEF Inv, TypeOK, RejectHangup, RouterInv, MainInv, Untried
  <2>5. \A e \in Phones : SameLeg(e)  BY <1>2, <2>1 DEF Inv, RejectHangup, SameLeg, Kept, LegInv
  <2>6. Steady  BY <1>2, <2>1 DEF RejectHangup, Steady, Untried
  <2> QED  BY <2>2, <2>3, <2>4, <2>5, <2>6, StepKeeps
<1> QED  BY <1>1, <1>2

\* The loop of run, but for what writes records.
LEMMA LoopStep ==
    ASSUME Inv, TakeWinner \/ AnswerModule \/ LoopEnds \/ MediaFails
    PROVE  Inv'
<1> USE DEF legVars, phoneVars
<1>1. CASE TakeWinner
  <2>1. Kept
    <3>1. rung \in SUBSET Phones  BY DEF Inv, TypeOK
    <3> QED  BY <1>1, <3>1, StoppingKeeps, UnstoppedKeeps DEF Inv, TakeWinner, Outcomes
  <2>2. TypeOK'  BY <1>1, <2>1 DEF Inv, TypeOK, TakeWinner, Kept
  <2>3. RouterInv'  BY <1>1 DEF Inv, TypeOK, TakeWinner, RouterInv, Current
  <2>4. MainInv'  BY <1>1 DEF Inv, TypeOK, TakeWinner, RouterInv, MainInv, Untried
  <2>5. \A e \in Phones : SameLeg(e)  BY <1>1, <2>1 DEF Inv, TakeWinner, SameLeg, Kept, LegInv
  <2>6. Steady  BY <1>1, <2>1 DEF TakeWinner, Steady, Untried
  <2> QED  BY <2>2, <2>3, <2>4, <2>5, <2>6, StepKeeps
<1>2. CASE AnswerModule
  <2>1. Kept
    <3>1. rung \in SUBSET Phones  BY DEF Inv, TypeOK
    <3> QED  BY <1>2, <3>1, StoppingKeeps, UnstoppedKeeps DEF Inv, AnswerModule, Outcomes
  <2>2. TypeOK'
    <3>1. line' \in {"ringing", "answered", "active", "idle", "none", "left"} /\ main' \in {"loop", "clean"}
      BY <1>2 DEF Inv, TypeOK, AnswerModule
    <3>2. callStopped' \in BOOLEAN  BY <1>2 DEF Inv, TypeOK, AnswerModule
    <3>3. UNCHANGED <<winner, won, connected, moduleClosed, done, leg, rung, peerClosed, selected, finished,
                      responses, router, record, finalizer, phoneVars, ended>>
      BY <1>2 DEF AnswerModule
    <3> QED  BY <2>1, <3>1, <3>2, <3>3 DEF Inv, TypeOK, Kept
  <2>3. RouterInv'  BY <1>2 DEF Inv, TypeOK, AnswerModule, RouterInv, Current
  <2>4. MainInv'  BY <1>2 DEF Inv, TypeOK, AnswerModule, RouterInv, MainInv, Untried
  <2>5. \A e \in Phones : SameLeg(e)  BY <1>2, <2>1 DEF Inv, AnswerModule, SameLeg, Kept, LegInv
  <2>6. Steady  BY <1>2, <2>1 DEF AnswerModule, Steady, Untried
  <2> QED  BY <2>2, <2>3, <2>4, <2>5, <2>6, StepKeeps
<1>3. CASE LoopEnds
  <2>1. Kept
    <3>1. rung \in SUBSET Phones  BY DEF Inv, TypeOK
    <3> QED  BY <1>3, <3>1, StoppingKeeps, UnstoppedKeeps DEF Inv, LoopEnds, Outcomes
  <2>2. TypeOK'
    <3>1. main' = "clean" /\ callStopped' \in BOOLEAN  BY <1>3 DEF Inv, TypeOK, LoopEnds
    <3>2. UNCHANGED <<line, winner, won, connected, moduleClosed, done, leg, rung, peerClosed, selected, finished,
                      responses, router, record, finalizer, phoneVars, ended>>
      BY <1>3 DEF LoopEnds
    <3> QED  BY <2>1, <3>1, <3>2 DEF Inv, TypeOK, Kept
  <2>3. RouterInv'  BY <1>3 DEF Inv, TypeOK, LoopEnds, RouterInv, Current
  <2>4. MainInv'  BY <1>3 DEF Inv, TypeOK, LoopEnds, RouterInv, MainInv, Untried
  <2>5. \A e \in Phones : SameLeg(e)  BY <1>3, <2>1 DEF Inv, LoopEnds, SameLeg, Kept, LegInv
  <2>6. Steady  BY <1>3, <2>1 DEF LoopEnds, Steady, Untried
  <2> QED  BY <2>2, <2>3, <2>4, <2>5, <2>6, StepKeeps
<1>4. CASE MediaFails
  <2>1. Kept
    <3>1. rung \in SUBSET Phones  BY DEF Inv, TypeOK
    <3> QED  BY <1>4, <3>1, StoppingKeeps, UnstoppedKeeps DEF Inv, MediaFails, Outcomes
  <2>2. TypeOK'  BY <1>4, <2>1 DEF Inv, TypeOK, MediaFails, Kept
  <2>3. RouterInv'  BY <1>4 DEF Inv, TypeOK, MediaFails, RouterInv, Current
  <2>4. MainInv'  BY <1>4 DEF Inv, TypeOK, MediaFails, RouterInv, MainInv, Untried
  <2>5. \A e \in Phones : SameLeg(e)  BY <1>4, <2>1 DEF Inv, MediaFails, SameLeg, Kept, LegInv
  <2>6. Steady  BY <1>4, <2>1 DEF MediaFails, Steady, Untried
  <2> QED  BY <2>2, <2>3, <2>4, <2>5, <2>6, StepKeeps
<1> QED  BY <1>1, <1>2, <1>3, <1>4

\* The cleanup before the router is told.
LEMMA CleanStep ==
    ASSUME Inv, Clean \/ Hangup \/ Join
    PROVE  Inv'
<1> USE DEF legVars, phoneVars
<1>1. CASE Clean
  <2>1. Kept
    <3>1. rung \in SUBSET Phones  BY DEF Inv, TypeOK
    <3> QED  BY <1>1, <3>1, StoppingKeeps, UnstoppedKeeps DEF Inv, Clean, Outcomes
  <2>2. TypeOK'  BY <1>1, <2>1 DEF Inv, TypeOK, Clean, Kept
  <2>3. RouterInv'  BY <1>1 DEF Inv, TypeOK, Clean, RouterInv, Current
  <2>4. MainInv'  BY <1>1 DEF Inv, TypeOK, Clean, RouterInv, MainInv, Untried
  <2>5. \A e \in Phones : SameLeg(e)  BY <1>1, <2>1 DEF Inv, Clean, SameLeg, Kept, LegInv
  <2>6. Steady  BY <1>1, <2>1 DEF Clean, Steady, Untried
  <2> QED  BY <2>2, <2>3, <2>4, <2>5, <2>6, StepKeeps
<1>2. CASE Hangup
  <2>1. Kept
    <3>1. rung \in SUBSET Phones  BY DEF Inv, TypeOK
    <3> QED  BY <1>2, <3>1, StoppingKeeps, UnstoppedKeeps DEF Inv, Hangup, Outcomes
  <2>2. TypeOK'  BY <1>2, <2>1 DEF Inv, TypeOK, Hangup, Kept
  <2>3. RouterInv'  BY <1>2 DEF Inv, TypeOK, Hangup, RouterInv, Current
  <2>4. MainInv'  BY <1>2 DEF Inv, TypeOK, Hangup, RouterInv, MainInv, Untried
  <2>5. \A e \in Phones : SameLeg(e)  BY <1>2, <2>1 DEF Inv, Hangup, SameLeg, Kept, LegInv
  <2>6. Steady  BY <1>2, <2>1 DEF Hangup, Steady, Untried
  <2> QED  BY <2>2, <2>3, <2>4, <2>5, <2>6, StepKeeps
<1>3. CASE Join
  <2>1. Kept
    <3>1. rung \in SUBSET Phones  BY DEF Inv, TypeOK
    <3> QED  BY <1>3, <3>1, StoppingKeeps, UnstoppedKeeps DEF Inv, Join, Outcomes
  <2>2. TypeOK'  BY <1>3, <2>1 DEF Inv, TypeOK, Join, Kept
  <2>3. RouterInv'  BY <1>3 DEF Inv, TypeOK, Join, RouterInv, Current
  <2>4. MainInv'  BY <1>3 DEF Inv, TypeOK, Join, RouterInv, MainInv, Untried
  <2>5. \A e \in Phones : SameLeg(e)  BY <1>3, <2>1 DEF Inv, Join, SameLeg, Kept, LegInv
  <2>6. Steady  BY <1>3, <2>1 DEF Join, Steady, Untried
  <2> QED  BY <2>2, <2>3, <2>4, <2>5, <2>6, StepKeeps
<1> QED  BY <1>1, <1>2, <1>3

\* The carrier, and the stop of the service.
LEMMA LineStep ==
    ASSUME Inv, CarrierConnects \/ CarrierEnds \/ Stop
    PROVE  Inv'
<1> USE DEF legVars, phoneVars
<1>1. CASE CarrierConnects
  <2>1. Kept
    <3>1. rung \in SUBSET Phones  BY DEF Inv, TypeOK
    <3> QED  BY <1>1, <3>1, StoppingKeeps, UnstoppedKeeps DEF Inv, CarrierConnects, Outcomes
  <2>2. TypeOK'  BY <1>1, <2>1 DEF Inv, TypeOK, CarrierConnects, Kept
  <2>3. RouterInv'  BY <1>1 DEF Inv, TypeOK, CarrierConnects, RouterInv, Current
  <2>4. MainInv'  BY <1>1 DEF Inv, TypeOK, CarrierConnects, RouterInv, MainInv, Untried
  <2>5. \A e \in Phones : SameLeg(e)  BY <1>1, <2>1 DEF Inv, CarrierConnects, SameLeg, Kept, LegInv
  <2>6. Steady  BY <1>1, <2>1 DEF CarrierConnects, Steady, Untried
  <2> QED  BY <2>2, <2>3, <2>4, <2>5, <2>6, StepKeeps
<1>2. CASE CarrierEnds
  <2>1. Kept
    <3>1. rung \in SUBSET Phones  BY DEF Inv, TypeOK
    <3> QED  BY <1>2, <3>1, StoppingKeeps, UnstoppedKeeps DEF Inv, CarrierEnds, Outcomes
  <2>2. TypeOK'  BY <1>2, <2>1 DEF Inv, TypeOK, CarrierEnds, Kept
  <2>3. RouterInv'  BY <1>2 DEF Inv, TypeOK, CarrierEnds, RouterInv, Current
  <2>4. MainInv'  BY <1>2 DEF Inv, TypeOK, CarrierEnds, RouterInv, MainInv, Untried
  <2>5. \A e \in Phones : SameLeg(e)  BY <1>2, <2>1 DEF Inv, CarrierEnds, SameLeg, Kept, LegInv
  <2>6. Steady  BY <1>2, <2>1 DEF CarrierEnds, Steady, Untried
  <2> QED  BY <2>2, <2>3, <2>4, <2>5, <2>6, StepKeeps
<1>3. CASE Stop
  <2>1. Kept  BY <1>3 DEF Inv, Stop, TypeOK, Kept
  <2>2. TypeOK'  BY <1>3, <2>1 DEF Inv, TypeOK, Stop, Kept
  <2>3. RouterInv'  BY <1>3 DEF Inv, TypeOK, Stop, RouterInv, Current
  <2>4. MainInv'  BY <1>3 DEF Inv, TypeOK, Stop, RouterInv, MainInv, Untried
  <2>5. \A e \in Phones : SameLeg(e)  BY <1>3, <2>1 DEF Inv, Stop, SameLeg, Kept, LegInv
  <2>6. Steady  BY <1>3, <2>1 DEF Stop, Steady, Untried
  <2> QED  BY <2>2, <2>3, <2>4, <2>5, <2>6, StepKeeps
<1> QED  BY <1>1, <1>2, <1>3

-----------------------------------------------------------------------------
(* Steps of the main goroutine on the router's call.                       *)

Rows == [finished : BOOLEAN, outcome : Outcomes, state : {"none", "open", "connected", "pending", "ended"}]

\* Router.Connected, when the line is active.
LEMMA ConnectStep ==
    ASSUME Inv, Connect
    PROVE  Inv'
<1> USE DEF legVars, phoneVars
<1>0. TypeOK /\ router \in RouterCalls  BY DEF Inv, RouterInv
<1>1. Kept  BY <1>0, UnstoppedKeeps DEF Connect
<1>2. CASE router.phase = "connecting" /\ router' = [router EXCEPT !.phase = "connected"] /\ main' = "joined"
  <2>1. /\ router' \in RouterCalls /\ router'.closing = router.closing /\ router'.legs = router.legs
        /\ router'.idle = router.idle /\ router'.winner = router.winner /\ router'.phase = "connected"
    BY <1>0, <1>2 DEF RouterCalls
  <2>2. TypeOK'  BY <1>1, <1>2, <2>1 DEF Inv, TypeOK, Connect, Kept
  <2>3. RouterInv'  BY <1>2, <2>1 DEF Inv, RouterInv, Connect
  <2>4. MainInv'  BY <1>2 DEF Inv, MainInv, Connect, Untried
  <2>5. \A e \in Phones : SameLeg(e)  BY <1>1, <2>1 DEF Inv, Connect, SameLeg, Kept, LegInv
  <2>6. Steady  BY <1>1, <1>2 DEF Connect, Steady, Untried
  <2> QED  BY <2>2, <2>3, <2>4, <2>5, <2>6, StepKeeps
<1>3. CASE main' = "clean" /\ UNCHANGED router
  <2>2. TypeOK'  BY <1>1, <1>3 DEF Inv, TypeOK, Connect, Kept
  <2>3. RouterInv' /\ MainInv'  BY <1>3 DEF Inv, RouterInv, MainInv, Connect, Untried
  <2>5. \A e \in Phones : SameLeg(e)  BY <1>1, <1>3 DEF Inv, Connect, SameLeg, Kept, LegInv
  <2>6. Steady  BY <1>1, <1>3 DEF Connect, Steady, Untried
  <2> QED  BY <2>2, <2>3, <2>5, <2>6, StepKeeps
<1> QED  BY <1>2, <1>3 DEF Connect

\* Router.ModuleClosed, unless the line was left to the carrier.
LEMMA ReportStep ==
    ASSUME Inv, Report
    PROVE  Inv'
<1> USE DEF phoneVars
<1>0. TypeOK /\ router \in RouterCalls /\ router.closing \subseteq router.legs  BY DEF Inv, RouterInv, TypeOK
<1>1. /\ main \in {"report", "abandoned"} /\ moduleClosed' = (main = "report") /\ main' = "join"
      /\ UNCHANGED <<line, winner, won, connected, done, leg, rung, peerClosed, selected, finished, responses,
                     record, phoneVars, ended>>
  BY DEF Report
<1>2. ~ moduleClosed /\ router.phase \notin {"none", "gone"} /\ ~ router.idle
  BY <1>1 DEF Inv, RouterInv, MainInv, TypeOK
<1>3. /\ Kept /\ callStopped' \in BOOLEAN /\ router' \in RouterCalls /\ router'.closing \subseteq router'.legs
      /\ router'.winner = router.winner
      /\ RouterInv' /\ (finalizer' = "done" => finalizer = "done") /\ finalizer' \in {"none", "run", "done"}
  <2>1. CASE main = "report"
    <3> DEFINE q == ModuleClosed(router)
    <3>1. /\ q \in RouterCalls /\ q.closing \subseteq q.legs
          /\ q.legs = router.legs /\ q.winner = router.winner /\ q.phase \in {"ending", "gone"}
          /\ q.phase = "gone" => q.legs = {}
      BY <1>0, <1>2, ModuleClosedCall
    <3>2. Apply(q, {}, "remote")  BY <2>1 DEF Report
    <3> HIDE DEF q
    <3>3. /\ Kept /\ router' = q /\ callStopped' \in BOOLEAN
          /\ finalizer' = IF q.phase = "gone" /\ router.phase # "gone" THEN "run" ELSE finalizer
      BY <1>0, <3>2, ApplyKeeps DEF Outcomes
    <3>4. rung \ peerClosed' \subseteq q.legs /\ moduleClosed'  BY <1>1, <2>1, <3>1 DEF Inv, RouterInv
    <3>5. RouterInv' /\ (finalizer' = "done" => finalizer = "done")
      BY <1>1, <1>2, <3>1, <3>3, <3>4, CallEvolves
    <3> QED  BY <1>0, <3>1, <3>3, <3>5 DEF TypeOK
  <2>2. CASE main # "report"
    <3>1. UNCHANGED <<router, callStopped, stopped, outcome, finalizer>>  BY <2>2 DEF Report
    <3>2. Kept  BY <1>0, <3>1, UnstoppedKeeps
    <3> QED  BY <1>0, <1>1, <1>2, <2>2, <3>1, <3>2 DEF Inv, TypeOK, RouterInv
  <2> QED  BY <2>1, <2>2
<1>4. moduleClosed' \in BOOLEAN  BY <1>1
<1>5. TypeOK'  BY <1>0, <1>1, <1>3, <1>4 DEF TypeOK, Kept, RouterCalls
<1>6. MainInv'  BY <1>1 DEF Inv, MainInv, Untried
<1>7. \A e \in Phones : SameLeg(e)  BY <1>1, <1>3 DEF Inv, SameLeg, Kept, LegInv
<1>8. Steady  BY <1>1, <1>3 DEF Steady, Untried
<1> QED  BY <1>3, <1>5, <1>6, <1>7, <1>8, StepKeeps

\* Router.Ring: the call begins, when no leg has.
LEMMA StartStep ==
    ASSUME Inv, NEW targets \in SUBSET Phones, NEW reachable \in SUBSET targets, StartIncoming(targets, reachable)
    PROVE  Inv'
<1> USE DEF phoneVars
<1>0. TypeOK /\ router \in RouterCalls  BY DEF Inv, RouterInv
<1>1. /\ main = "probe" /\ main' = "start" /\ rung' = reachable /\ callStopped' = (reachable = {})
      /\ router' = [router EXCEPT !.legs = reachable, !.phase = IF reachable = {} THEN "ending" ELSE "ringing"]
      /\ UNCHANGED <<line, winner, won, connected, moduleClosed, done, leg, stopped, peerClosed, selected, finished,
                     responses, outcome, record, finalizer, phoneVars, ended>>
  BY DEF StartIncoming
<1>2. /\ router.phase = "none" /\ router.legs = {} /\ rung = {} /\ ~ moduleClosed /\ ~ router.idle
      /\ finalizer = "none" /\ router.winner = Nobody
  BY <1>1 DEF Inv, RouterInv, MainInv
<1>3. \A l \in Phones : leg[l] = "none" /\ l \notin responses /\ l \notin finished /\ l \notin peerClosed /\ l \notin selected
  BY <1>1, <1>2, IncomingConstants DEF Inv, MainInv, LegInv, Untried, Before, Over
<1>4. /\ router' \in RouterCalls /\ router'.closing = router.closing /\ router'.legs = reachable
      /\ router'.idle = router.idle /\ router'.winner = Nobody /\ router'.phase \in {"ringing", "ending"}
  BY <1>0, <1>1, <1>2 DEF RouterCalls
<1>5. router.closing = {}  BY <1>0, <1>2 DEF TypeOK
<1>6. TypeOK'
  <2>1. callStopped' \in BOOLEAN  BY <1>1
  <2>2. rung' \subseteq Phones /\ router'.closing = {} /\ router'.legs \subseteq Phones  BY <1>1, <1>4, <1>5
  <2>3. router'.winner \in Phones \cup {Nobody} /\ router'.idle \in BOOLEAN
        /\ router'.phase \in {"none", "ringing", "connecting", "connected", "ending", "gone"}
    BY <1>4 DEF RouterCalls
  <2>4. main' = "start"  BY <1>1
  <2>5. UNCHANGED <<line, winner, won, connected, moduleClosed, done, leg, stopped, peerClosed, selected, finished,
                    responses, outcome, record, finalizer, phoneVars, ended>>
    BY <1>1
  <2> QED  BY <1>0, <2>1, <2>2, <2>3, <2>4, <2>5 DEF TypeOK
<1>7. RouterInv'  BY <1>1, <1>2, <1>3, <1>4 DEF Inv, RouterInv
<1>8. MainInv'  BY <1>1, <1>2 DEF Inv, MainInv, Untried
<1>9. \A l \in Phones : LegInv(l)'  BY <1>1, <1>3 DEF LegInv, Over
<1>10. \A a \in Owners : RecordInv(a)'  BY <1>1 DEF Inv, RecordInv, Untried
<1> QED  BY <1>6, <1>7, <1>8, <1>9, <1>10 DEF Inv

\* run starts the legs.
LEMMA RunStartStep ==
    ASSUME Inv, RunStart
    PROVE  Inv'
<1> USE DEF phoneVars
<1>0. TypeOK  BY DEF Inv
<1>1. Kept  BY <1>0, UnstoppedKeeps DEF RunStart
<1>2. leg' \in [Phones -> Legs] /\ main' \in {"clean", "loop"}  BY <1>0 DEF RunStart, Legs
<1>3. TypeOK'  BY <1>0, <1>1, <1>2 DEF TypeOK, Kept, RunStart, Legs
<1>4. RouterInv' /\ MainInv'  BY <1>2 DEF Inv, RouterInv, MainInv, RunStart, Untried
<1>5. \A l \in Phones : leg[l] = "none"  BY DEF Inv, MainInv, RunStart, Untried
<1>6. \A l \in Phones : LegInv(l)'  BY <1>5 DEF Inv, LegInv, RunStart, Before, Over
<1>7. Steady  BY <1>1, <1>2 DEF RunStart, Steady, Untried
<1>8. \A a \in Owners : RecordInv(a)'  BY <1>7, RecordsStay
<1> QED  BY <1>3, <1>4, <1>6, <1>8 DEF Inv

\* releaseFinishedLocked: every leg is done, and the call is forgotten if its module is closed.
LEMMA ReleaseStep ==
    ASSUME Inv, Release
    PROVE  Inv'
<1> USE DEF phoneVars
<1>0. TypeOK /\ router \in RouterCalls  BY DEF Inv, RouterInv
<1>1. /\ main = "last" /\ main' = "done" /\ done' = TRUE
      /\ UNCHANGED <<line, callStopped, winner, won, connected, moduleClosed, leg, rung, stopped, selected, finished,
                     responses, outcome, record, phoneVars, ended>>
  BY DEF Release
<1>2. Kept  BY <1>0, <1>1, UnstoppedKeeps
<1>3. \A l \in rung : leg[l] = "done"  BY <1>1 DEF Inv, MainInv
<1>4. MainInv'  BY <1>1 DEF Inv, MainInv, Untried
<1>5. CASE /\ moduleClosed /\ router.phase # "gone"
           /\ peerClosed' = peerClosed \cup rung
           /\ router' = [router EXCEPT !.legs = {}, !.closing = {}, !.phase = "gone"]
           /\ finalizer' = "run"
  <2>1. /\ router' \in RouterCalls /\ router'.closing = {} /\ router'.legs = {}
        /\ router'.idle = router.idle /\ router'.winner = router.winner /\ router'.phase = "gone"
    BY <1>0, <1>5 DEF RouterCalls
  <2>2. TypeOK'  BY <1>0, <1>1, <1>5, <2>1 DEF TypeOK, RouterCalls
  <2>3. RouterInv'  BY <1>1, <1>5, <2>1 DEF Inv, RouterInv
  <2>4. \A l \in Phones : LegInv(l)'  BY <1>1, <1>3, <1>5, <2>1 DEF Inv, LegInv, Over, Before
  <2>5. Steady  BY <1>1, <1>2, <1>5 DEF Steady, Untried
  <2>6. \A a \in Owners : RecordInv(a)'  BY <2>5, RecordsStay
  <2> QED  BY <1>4, <2>2, <2>3, <2>4, <2>6 DEF Inv
<1>6. CASE UNCHANGED <<peerClosed, router, finalizer>>
  <2>1. TypeOK'  BY <1>0, <1>1, <1>6 DEF TypeOK
  <2>2. RouterInv'  BY <1>1, <1>6 DEF Inv, RouterInv
  <2>3. \A e \in Phones : SameLeg(e)  BY <1>1, <1>6 DEF Inv, SameLeg, LegInv
  <2>4. Steady  BY <1>1, <1>2, <1>6 DEF Steady, Untried
  <2> QED  BY <1>4, <2>1, <2>2, <2>3, <2>4, StepKeeps
<1> QED  BY <1>5, <1>6 DEF Release

-----------------------------------------------------------------------------
(* Steps that write records.                                               *)

\* Such a step leaves what the records rest on, but for the record of one account.
Untouched(a) ==
    /\ Kept /\ UNCHANGED <<rung, finished, selected, finalizer>>
    /\ \A b \in Owners \ {a} : record'[b] = record[b]
    /\ main' \in Untried => main \in Untried

\* The other records keep their invariant.
LEMMA OthersStay ==
    ASSUME Inv, NEW a \in Owners, NEW b \in Owners \ {a}, Untouched(a),
           \A e \in LegsOf(b) : leg'[e] \in {"report", "done"} => leg[e] \in {"report", "done"}
    PROVE  RecordInv(b)'
<1>1. RecordInv(b) /\ TypeOK /\ \A l \in Phones : LegInv(l)  BY DEF Inv
<1>2. LegsOf(b)' = LegsOf(b) /\ LegsOf(b) \subseteq Phones  BY <1>1 DEF LegsOf, Untouched, TypeOK
<1>3. \A l \in finished : outcome'[l] = outcome[l]  BY <1>1 DEF Untouched, Kept, LegInv, TypeOK
<1>4. record'[b] = record[b]  BY DEF Untouched
<1> QED  BY <1>1, <1>2, <1>3, <1>4 DEF RecordInv, Untouched

\* The rows of records, one of which has changed.
LEMMA RowTyped ==
    ASSUME TypeOK, NEW a \in Owners, NEW row \in Rows, record' = [record EXCEPT ![a] = row]
    PROVE  /\ record' \in [Owners -> Rows]
           /\ record'[a] = row /\ \A b \in Owners \ {a} : record'[b] = record[b]
BY DEF TypeOK, Rows

\* recordOffer opens the record of the leg's account.
LEMMA OfferOpensStep ==
    ASSUME Inv, NEW l \in Phones, Offer(l)
    PROVE  Inv'
<1> USE DEF LegFrame, phoneVars
<1> DEFINE a == Owner[l]
<1>0. TypeOK /\ a \in Owners /\ record \in [Owners -> Rows]  BY DEF Inv, TypeOK, Owners, Rows
<1>1. /\ leg[l] = "offer" /\ LegAt(l, "loop") /\ LegFrame
      /\ UNCHANGED <<callStopped, winner, peerClosed, selected, finished, responses, router, finalizer, phoneVars>>
  BY DEF Offer
<1>2. leg' \in [Phones -> Legs] /\ leg' = [leg EXCEPT ![l] = "loop"]  BY <1>0, <1>1, LegAtTyped DEF Legs, LegAt
<1>3. Kept  BY <1>0, StoppingKeeps, UnstoppedKeeps DEF Offer, Outcomes
<1>4. l \in rung /\ router.phase # "none" /\ main \notin {"probe", "reject", "start"}  BY <1>1, LegHasCall
<1>5. RouterInv' /\ MainInv'  BY <1>0, <1>1, <1>2 DEF Inv, TypeOK, RouterInv, MainInv, Untried
<1>6. LegInv(l)'  BY <1>0, <1>1, <1>2, <1>3, <1>4 DEF Inv, TypeOK, Kept, LegInv, Before, Over
<1>7. \A e \in Phones \ {l} : SameLeg(e)  BY <1>0, <1>1, <1>2, <1>3 DEF Inv, TypeOK, SameLeg, Kept, LegInv
<1>8. CASE UNCHANGED record
  <2>1. TypeOK'
    <3>1. UNCHANGED <<main, line, won, connected, moduleClosed, done, rung, ended, callStopped, winner, peerClosed,
                      selected, finished, responses, router, finalizer, phoneVars, record>>
      BY <1>1, <1>8
    <3>2. leg' \in [Phones -> Legs]  BY <1>2
    <3> QED  BY <1>3, <3>1, <3>2 DEF Inv, TypeOK, Kept, Legs
  <2>2. Steady  BY <1>0, <1>1, <1>2, <1>3, <1>8 DEF TypeOK, Steady
  <2> QED  BY <1>5, <1>6, <1>7, <2>1, <2>2, LegStepKeeps
<1>9. CASE record' = [record EXCEPT ![a].state = IF @ = "none" THEN "open" ELSE @]
  <2> DEFINE row == [record[a] EXCEPT !.state = IF @ = "none" THEN "open" ELSE @]
  <2>1. record[a] \in Rows /\ row \in Rows /\ row.finished = record[a].finished /\ row.outcome = record[a].outcome
        /\ row.state = IF record[a].state = "none" THEN "open" ELSE record[a].state
    BY <1>0 DEF Rows
  <2>2. record' = [record EXCEPT ![a] = row]  BY <1>0, <1>9
  <2> HIDE DEF row, a
  <2>3. /\ record' \in [Owners -> Rows] /\ record'[a] = row /\ \A b \in Owners \ {a} : record'[b] = record[b]
    BY <1>0, <2>1, <2>2, RowTyped
  <2>4. TypeOK'
    <3>1. UNCHANGED <<main, line, won, connected, moduleClosed, done, rung, ended, callStopped, winner, peerClosed,
                      selected, finished, responses, router, finalizer, phoneVars>>
      BY <1>1
    <3>2. leg' \in [Phones -> Legs] /\ record' \in [Owners -> Rows]  BY <1>2, <2>3
    <3> QED  BY <1>3, <3>1, <3>2 DEF Inv, TypeOK, Kept, Legs, Rows
  <2>5. \A e \in Phones : LegInv(e)'  BY <1>6, <1>7, LegStays DEF Inv
  <2>6. Untouched(a)  BY <1>1, <1>3, <2>3 DEF Untouched
  <2>7. \A b \in Owners \ {a} : RecordInv(b)'
    <3>1. \A e \in Phones : leg'[e] \in {"report", "done"} => leg[e] \in {"report", "done"}  BY <1>0, <1>2 DEF TypeOK
    <3>2. \A b \in Owners : LegsOf(b) \subseteq Phones  BY <1>0 DEF LegsOf, TypeOK
    <3> QED  BY <1>0, <2>6, <3>1, <3>2, OthersStay
  <2>8. RecordInv(a)'
    <3>1. RecordInv(a) /\ \A e \in Phones : LegInv(e)  BY <1>0 DEF Inv
    <3>2. LegsOf(a)' = LegsOf(a) /\ LegsOf(a) \subseteq Phones /\ l \in LegsOf(a)
      BY <1>0, <1>1, <1>4 DEF LegsOf, TypeOK, a
    <3>3. leg'[l] = "loop"  BY <1>0, <1>2 DEF TypeOK
    <3>4. ~ record[a].finished
      BY <1>1, <3>1, <3>2 DEF RecordInv, LegInv, Over
    <3>5. main' \notin Untried  BY <1>1, <1>4 DEF Untried
    <3> QED  BY <2>1, <2>3, <3>2, <3>3, <3>4, <3>5 DEF RecordInv
  <2> QED  BY <1>5, <2>4, <2>5, <2>7, <2>8 DEF Inv, Owners
<1> QED  BY <1>8, <1>9 DEF Offer

\* finishAccountRecord: the last leg of an account settles its record.
LEMMA SettleStep ==
    ASSUME Inv, NEW l \in Phones, FinishAccountRecord(l)
    PROVE  Inv'
<1> USE DEF LegFrame, phoneVars
<1> DEFINE a == Owner[l]
<1>0. TypeOK /\ a \in Owners /\ record \in [Owners -> Rows]  BY DEF Inv, TypeOK, Owners, Rows
<1>1. /\ leg[l] = "record" /\ LegAt(l, "report") /\ LegFrame
      /\ UNCHANGED <<callStopped, winner, stopped, outcome, peerClosed, selected, finished, responses, router,
                     finalizer, phoneVars>>
  BY DEF FinishAccountRecord
<1>2. leg' \in [Phones -> Legs] /\ leg' = [leg EXCEPT ![l] = "report"]  BY <1>0, <1>1, LegAtTyped DEF Legs, LegAt
<1>3. Kept  BY <1>0, <1>1, UnstoppedKeeps
<1>4. l \in rung /\ router.phase # "none" /\ main \notin {"probe", "reject", "start"}  BY <1>1, LegHasCall
<1>5. RouterInv' /\ MainInv'  BY <1>0, <1>1, <1>2 DEF Inv, TypeOK, RouterInv, MainInv, Untried
<1>6. LegInv(l)'  BY <1>0, <1>1, <1>2, <1>3, <1>4 DEF Inv, TypeOK, Kept, LegInv, Before, Over
<1>7. \A e \in Phones \ {l} : SameLeg(e)  BY <1>0, <1>1, <1>2, <1>3 DEF Inv, TypeOK, SameLeg, Kept, LegInv
<1>8. \A e \in Phones : LegInv(e)'  BY <1>6, <1>7, LegStays DEF Inv
<1>9. \A e \in Phones \ {l} : leg'[e] = leg[e]  BY <1>0, <1>2 DEF TypeOK
<1>10. leg'[l] = "report"  BY <1>0, <1>2 DEF TypeOK
<1>11. \A b \in Owners \ {a} : l \notin LegsOf(b) /\ LegsOf(b) \subseteq Phones  BY <1>0 DEF LegsOf, TypeOK
<1>12. LegsOf(a)' = LegsOf(a) /\ LegsOf(a) \subseteq Phones /\ LegsOf(a) \subseteq rung /\ l \in LegsOf(a)
  BY <1>0, <1>1, <1>4 DEF LegsOf, TypeOK
<1>13. RecordInv(a) /\ \A e \in Phones : LegInv(e)  BY <1>0 DEF Inv
<1>14. main' \notin Untried  BY <1>1, <1>4 DEF Untried
<1>15. UNCHANGED <<main, line, won, connected, moduleClosed, done, rung, ended, callStopped, winner, peerClosed,
                   selected, finished, responses, router, finalizer, phoneVars>>
  BY <1>1
<1>16. CASE /\ record[a].state = "none" \/ record[a].finished \/ ~ LegsOf(a) \subseteq finished
            /\ UNCHANGED record
  <2>1. TypeOK'
    <3>1. leg' \in [Phones -> Legs]  BY <1>2
    <3>2. UNCHANGED record  BY <1>16
    <3> QED  BY <1>3, <1>15, <3>1, <3>2 DEF Inv, TypeOK, Kept, Legs
  <2>2. Untouched(a)  BY <1>1, <1>3, <1>16 DEF Untouched
  <2>3. \A b \in Owners \ {a} : RecordInv(b)'  BY <1>0, <1>9, <1>11, <2>2, OthersStay
  <2>4. record[a].state # "none" /\ ~ record[a].finished => \E y \in LegsOf(a) : y # l /\ leg[y] \notin {"report", "done"}
    BY <1>1, <1>12, <1>13, <1>16 DEF LegInv, Over
  <2>5. RecordInv(a)'
    BY <1>1, <1>9, <1>12, <1>13, <1>14, <1>16, <2>4 DEF RecordInv
  <2> QED  BY <1>5, <1>8, <2>1, <2>3, <2>5 DEF Inv, Owners
<1>17. ASSUME NEW o \in Results(LegsOf(a)), record[a].state # "none", LegsOf(a) \subseteq finished,
              record' = [record EXCEPT ![a] = [finished |-> TRUE, outcome |-> o,
                                               state |-> IF LegsOf(a) \subseteq peerClosed THEN "ended" ELSE "pending"]]
       PROVE  Inv'
  <2> DEFINE row == [finished |-> TRUE, outcome |-> o,
                     state |-> IF LegsOf(a) \subseteq peerClosed THEN "ended" ELSE "pending"]
  <2>1. o \in Outcomes  BY <1>0, <1>12, <1>17 DEF Results, TypeOK
  <2>2. row \in Rows /\ row.finished /\ row.outcome = o /\ row.state \in {"pending", "ended"}
        /\ (LegsOf(a) \subseteq peerClosed => row.state = "ended")
    BY <2>1 DEF Rows
  <2>3. record' = [record EXCEPT ![a] = row]  BY <1>17
  <2>4. \A e \in LegsOf(a) \cap selected : o = outcome[e]
    BY <1>12, <1>13, <1>17 DEF Results, LegInv
  <2>5. finalizer = "done" => LegsOf(a) \subseteq peerClosed
    BY <1>12 DEF Inv, RouterInv
  <2> HIDE DEF row, a
  <2>6. /\ record' \in [Owners -> Rows] /\ record'[a] = row /\ \A b \in Owners \ {a} : record'[b] = record[b]
    BY <1>0, <2>2, <2>3, RowTyped
  <2>7. TypeOK'
    <3>1. leg' \in [Phones -> Legs] /\ record' \in [Owners -> Rows]  BY <1>2, <2>6
    <3> QED  BY <1>3, <1>15, <3>1 DEF Inv, TypeOK, Kept, Legs, Rows
  <2>8. Untouched(a)  BY <1>1, <1>3, <2>6 DEF Untouched
  <2>9. \A b \in Owners \ {a} : RecordInv(b)'  BY <1>0, <1>9, <1>11, <2>8, OthersStay
  <2>10. RecordInv(a)'
    BY <1>1, <1>12, <1>14, <1>17, <2>2, <2>4, <2>5, <2>6 DEF RecordInv
  <2> QED  BY <1>5, <1>8, <2>7, <2>9, <2>10 DEF Inv, Owners
<1> QED  BY <1>16, <1>17 DEF FinishAccountRecord

\* recordConnected marks the winner's open record.
LEMMA JoinedStep ==
    ASSUME Inv, Joined
    PROVE  Inv'
<1> USE DEF legVars, phoneVars
<1>0. TypeOK /\ record \in [Owners -> Rows]  BY DEF Inv, TypeOK, Rows
<1>1. /\ main = "joined" /\ main' \in {"clean", "loop"}
      /\ UNCHANGED <<line, callStopped, winner, won, moduleClosed, done, legVars, router, finalizer, phoneVars, ended>>
  BY DEF Joined
<1>2. Kept  BY <1>0, <1>1, UnstoppedKeeps
<1>3. RouterInv' /\ MainInv'  BY <1>1 DEF Inv, RouterInv, MainInv, Untried
<1>4. \A e \in Phones : SameLeg(e)  BY <1>1, <1>2 DEF Inv, SameLeg, Kept, LegInv
<1>5. CASE UNCHANGED <<connected, record>>
  <2>1. TypeOK'  BY <1>1, <1>5 DEF Inv, TypeOK
  <2>2. Steady  BY <1>1, <1>2, <1>5 DEF Steady, Untried
  <2> QED  BY <1>3, <1>4, <2>1, <2>2, StepKeeps
<1>6. CASE connected' = TRUE /\ record' = [record EXCEPT ![Owner[won]].state = IF @ = "open" THEN "connected" ELSE @]
  <2>1. CASE Owner[won] \notin Owners
    <3>1. record' = record  BY <1>0, <1>6, <2>1
    <3>2. TypeOK'
      <4>1. main' \in {"clean", "loop"} /\ connected' \in BOOLEAN  BY <1>1, <1>6
      <4>2. UNCHANGED <<line, callStopped, winner, won, moduleClosed, done, legVars, router, finalizer, phoneVars, ended>>
        BY <1>1
      <4> QED  BY <3>1, <4>1, <4>2 DEF Inv, TypeOK
    <3>3. Steady  BY <1>1, <1>2, <3>1 DEF Steady, Untried
    <3> QED  BY <1>3, <1>4, <3>2, <3>3, StepKeeps
  <2>2. CASE Owner[won] \in Owners
    <3>0. PICK a \in Owners : a = Owner[won]  BY <2>2
    <3> DEFINE row == [record[a] EXCEPT !.state = IF @ = "open" THEN "connected" ELSE @]
    <3>1. record[a] \in Rows /\ row \in Rows /\ row.finished = record[a].finished /\ row.outcome = record[a].outcome
          /\ row.state = IF record[a].state = "open" THEN "connected" ELSE record[a].state
      BY <1>0, <3>0 DEF Rows
    <3>2. a \in Owners /\ record' = [record EXCEPT ![a] = row]  BY <1>0, <1>6, <3>0
    <3> HIDE DEF row
    <3>3. /\ record' \in [Owners -> Rows] /\ record'[a] = row /\ \A b \in Owners \ {a} : record'[b] = record[b]
      BY <1>0, <3>1, <3>2, RowTyped
    <3>4. TypeOK'
      <4>1. main' \in {"clean", "loop"} /\ connected' \in BOOLEAN  BY <1>1, <1>6
      <4>2. UNCHANGED <<line, callStopped, winner, won, moduleClosed, done, legVars, router, finalizer, phoneVars, ended>>
        BY <1>1
      <4> QED  BY <3>3, <4>1, <4>2 DEF Inv, TypeOK, Rows
    <3>5. \A e \in Phones : LegInv(e)'  BY <1>4, LegStays DEF Inv
    <3>6. Untouched(a)  BY <1>1, <1>2, <3>3 DEF Untouched, Untried
    <3>7. leg' = leg /\ rung' = rung /\ main' \notin Untried  BY <1>1 DEF Untried
    <3>8. \A b \in Owners \ {a} : RecordInv(b)'
      <4>1. \A b \in Owners : \A e \in LegsOf(b) : leg'[e] \in {"report", "done"} => leg[e] \in {"report", "done"}
        BY <3>7
      <4> QED  BY <3>2, <3>6, <4>1, OthersStay
    <3>9. RecordInv(a)'
      <4>1. RecordInv(a) /\ LegsOf(a)' = LegsOf(a)  BY <3>2, <3>7 DEF Inv, LegsOf
      <4>2. UNCHANGED <<finished, selected, outcome, finalizer, leg>>  BY <1>1
      <4> QED  BY <3>1, <3>3, <3>7, <4>1, <4>2 DEF RecordInv
    <3> QED  BY <1>3, <3>2, <3>4, <3>5, <3>8, <3>9 DEF Inv, Owners
  <2> QED  BY <2>1, <2>2
<1> QED  BY <1>5, <1>6 DEF Joined

\* finalizeRecords closes every record that is settled.
LEMMA FinalizeStep ==
    ASSUME Inv, Finalize
    PROVE  Inv'
<1> USE DEF callVars, legVars, phoneVars
<1>0. TypeOK /\ record \in [Owners -> Rows]  BY DEF Inv, TypeOK, Rows
<1>1. /\ finalizer = "run" /\ finalizer' = "done" /\ UNCHANGED <<callVars, legVars, router, phoneVars, ended>>
      /\ record' = [a \in Owners |-> IF record[a].finished THEN [record[a] EXCEPT !.state = "ended"] ELSE record[a]]
  BY DEF Finalize
<1>2. Kept  BY <1>0, <1>1, UnstoppedKeeps
<1>3. \A a \in Owners : /\ record'[a] \in Rows /\ record'[a].finished = record[a].finished
                        /\ record'[a].outcome = record[a].outcome
                        /\ record'[a].state = IF record[a].finished THEN "ended" ELSE record[a].state
  BY <1>0, <1>1 DEF Rows
<1>4. record' \in [Owners -> Rows]  BY <1>1, <1>3
<1>5. TypeOK'  BY <1>1, <1>4 DEF Inv, TypeOK, Rows
<1>6. RouterInv' /\ MainInv'  BY <1>1 DEF Inv, RouterInv, MainInv
<1>7. \A e \in Phones : LegInv(e)'  BY <1>1 DEF Inv, LegInv
<1>8. ASSUME NEW a \in Owners  PROVE RecordInv(a)'
  <2>1. RecordInv(a) /\ LegsOf(a)' = LegsOf(a)  BY <1>1 DEF Inv, LegsOf
  <2> QED  BY <1>1, <1>3, <2>1 DEF RecordInv
<1> QED  BY <1>5, <1>6, <1>7, <1>8 DEF Inv, Owners

-----------------------------------------------------------------------------
(* The invariant, and what follows from it.                                *)

\* Nothing has rung.
LEMMA InitInv == Init => Inv
<1> SUFFICES ASSUME Init  PROVE Inv
  OBVIOUS
<1>1. /\ leg \in [Phones -> Legs] /\ outcome \in [Phones -> Outcomes]
      /\ phone \in [Phones -> {"idle", "ringing", "declined", "answered", "unusable", "left"}]
  BY DEF Init, Legs, Outcomes
<1>2. record \in [Owners -> Rows]  BY DEF Init, Rows, Outcomes
<1>3. router \in RouterCalls /\ router.closing = {} /\ router.legs = {} /\ router.phase = "none" /\ ~ router.idle
      /\ router.winner = Nobody
  BY DEF Init, RouterCalls
<1>4. TypeOK
  <2>1. \A S \in {rung, stopped, peerClosed, selected, finished, responses, acked, byes} : S = {}  BY DEF Init
  <2>2. callStopped = FALSE /\ connected = FALSE /\ moduleClosed = FALSE /\ done = FALSE /\ ended = FALSE  BY DEF Init
  <2>3. main = "probe" /\ line = "ringing" /\ winner = Nobody /\ won = Nobody /\ finalizer = "none"  BY DEF Init
  <2>4. \A b \in {callStopped, connected, moduleClosed, done, ended} : b \in BOOLEAN  BY <2>2
  <2>5. router.idle \in BOOLEAN  BY <1>3 DEF RouterCalls
  <2> QED  BY <1>1, <1>2, <1>3, <2>1, <2>3, <2>4, <2>5 DEF TypeOK, Legs, Rows
<1>5. RouterInv /\ MainInv  BY <1>3 DEF Init, RouterInv, MainInv
<1>6. \A l \in Phones : LegInv(l)  BY DEF Init, LegInv, Before, Over
<1>7. \A a \in Owners : RecordInv(a)  BY DEF Init, RecordInv
<1> QED  BY <1>4, <1>5, <1>6, <1>7 DEF Inv

\* Every step keeps the invariant.
LEMMA NextInv == Inv /\ [Next]_vars => Inv'
<1> SUFFICES ASSUME Inv, [Next]_vars  PROVE Inv'
  OBVIOUS
<1>1. CASE UNCHANGED vars
  BY <1>1 DEF vars, callVars, legVars, phoneVars, Inv, TypeOK, RouterInv, MainInv, LegInv, RecordInv, LegsOf
<1>2. CASE MainStep
  <2>1. CASE \E targets \in SUBSET Phones : \E reachable \in SUBSET targets : StartIncoming(targets, reachable)
    BY <2>1, StartStep
  <2>2. CASE Reject \/ RejectHangup  BY <2>2, AdmissionStep
  <2>3. CASE TakeWinner \/ AnswerModule \/ LoopEnds  BY <2>3, LoopStep
  <2>4. CASE Clean \/ Hangup \/ Join  BY <2>4, CleanStep
  <2>5. CASE RunStart \/ Connect \/ Joined \/ Report \/ Release
    BY <2>5, RunStartStep, ConnectStep, JoinedStep, ReportStep, ReleaseStep
  <2> QED  BY <1>2, <2>1, <2>2, <2>3, <2>4, <2>5 DEF MainStep
<1>3. CASE MediaFails \/ Finalize \/ RouterEnds \/ CarrierConnects \/ CarrierEnds \/ Stop
  BY <1>3, LoopStep, FinalizeStep, RouterStep, LineStep
<1>4. ASSUME NEW l \in Phones, LegStep(l)  PROVE Inv'
  <2>1. CASE Setup(l) \/ Fence(l) \/ Send(l) \/ Done(l) \/ DrainDeadline(l) \/ TxDone(l)  BY <2>1, OfferStep
  <2>2. CASE HandleRefusal(l) \/ HandleUnusable(l) \/ HandleAnswer(l) \/ Ack(l) \/ EndDialog(l) \/ Finish(l)
    BY <2>2, ReplyStep
  <2>3. CASE Offer(l) \/ Lock(l) \/ FinishAccountRecord(l) \/ ReportLeg(l)
    BY <2>3, OfferOpensStep, LockStep, SettleStep, ClosedStep
  <2> QED  BY <1>4, <2>1, <2>2, <2>3 DEF LegStep
<1>5. ASSUME NEW l \in Phones, RefreshFails(l) \/ PhoneReplies(l) \/ PhoneBye(l) \/ RouterWithdraws(l)
      PROVE  Inv'
  BY <1>5, ReplyStep, ClosedStep, RouterStep
<1> QED  BY <1>1, <1>2, <1>3, <1>4, <1>5 DEF Next

\* The router's call, the goroutines, the phones and the records agree, in every reachable state.
THEOREM IncomingInvariant == Spec => []Inv
<1> QED  BY InitInv, NextInv, PTL DEF Spec

\* The type invariant of IncomingCall; while the carrier may have the call, the goroutine that holds
\* the module is at work and the router keeps the module (probeIncoming, cleanIncoming).
THEOREM IncomingLine == Spec => []LineHeld
<1>1. Inv => LineHeld  BY DEF Inv, LineHeld, HeldWhileOnLine, RouterInv, MainInv
<1> QED  BY <1>1, IncomingInvariant, PTL

\* A phone whose answer was taken is sent BYE or has hung up; the record that the phones of an
\* account share is settled by the last of them, with the winner's result, and closed in the end
\* by whichever of finishAccountRecord and finalizeRecords comes last.
THEOREM IncomingPhones == Spec => []PhonesTold
<1>1. Inv => NoPhoneLeftHanging  BY DEF Inv, NoPhoneLeftHanging, LegInv, Over
<1>2. Inv => RecordSettledLast  BY DEF Inv, RecordSettledLast, RecordInv
<1>3. Inv => RecordsClosed
  <2> SUFFICES ASSUME Inv, router.phase = "gone", finalizer = "done", \A l \in rung : leg[l] = "done",
                      NEW a \in Owners, record[a].state # "none"
               PROVE  record[a].state = "ended"
    BY DEF RecordsClosed
  <2>1. \A l \in LegsOf(a) : leg[l] = "done"  BY DEF LegsOf
  <2>2. record[a].finished  BY <2>1 DEF Inv, RecordInv
  <2> QED  BY <2>2 DEF Inv, RecordInv
<1> QED  BY <1>1, <1>2, <1>3, IncomingInvariant, PTL DEF PhonesTold, RecordsSettled

\* However many phones answer at once, the carrier is answered for the one that the router chose
\* (handleResponse, Router.Answer, run).
THEOREM IncomingWinner == Spec => AnsweredForWinner
<1>1. Inv /\ [Next]_vars => [AnswersForWinner]_vars
  <2> SUFFICES ASSUME Inv, Next, line = "ringing", line' = "answered"
               PROVE  won \in selected /\ router.winner = won
    BY DEF AnswersForWinner
  <2>1. AnswerModule
    BY DEF Next, MainStep, LegStep, LegFrame, callVars, StartIncoming, Reject, RejectHangup, RunStart, TakeWinner,
           LoopEnds, Connect, Joined, Clean, Hangup, Report, Join, Release, MediaFails, Finalize, RouterEnds,
           CarrierConnects, CarrierEnds, Stop, Setup, Fence, Send, Offer, Done, DrainDeadline, TxDone, HandleRefusal,
           HandleUnusable, HandleAnswer, Lock, Ack, EndDialog, Finish, FinishAccountRecord, ReportLeg, RefreshFails,
           PhoneReplies, PhoneBye, RouterWithdraws
  <2>2. won \in selected  BY <2>1 DEF AnswerModule, Inv, MainInv
  <2> QED  BY <2>2 DEF Inv, TypeOK, LegInv
<1> QED  BY <1>1, IncomingInvariant, PTL DEF Spec, AnsweredForWinner

=============================================================================
