---------------------------- MODULE CellularVoice ----------------------------
(***************************************************************************)
(* One cellular call on a module (internal/hardware/voice_cellular.go and   *)
(* voice_audio.go).  A call needs the module's sound path switched: the     *)
(* original settings are saved in a file first, and put back when the       *)
(* module has confirmed that no call is left.  The file outlives the        *)
(* program; the next one that finds it hangs up and restores.               *)
(*                                                                          *)
(* The module gate admits one handle at a time.  Between two AT commands    *)
(* the network may end a call or ring with a new one, which takes the       *)
(* lowest free number; the USB device may enumerate again, with its calls   *)
(* or without; and a command may fail with or without its effect.           *)
(***************************************************************************)
EXTENDS Naturals, FiniteSetsExt

CONSTANTS Id,           \* the call numbers of the module
          MaxCalls,     \* bound: calls of other parties
          MaxTroubles   \* bound: commands and files that fail, enumerations
                        \* of the device, and ends of the program

VoiceConstants == Id \subseteq Nat \ {0} /\ Id # {} /\ MaxCalls \in Nat /\ MaxTroubles \in Nat

VARIABLES calls,      \* the voice calls of the module, by number
          sound,      \* its settings: PCM on, the GPS port, the microphone
          home,       \* the user's GPS port
          disk,       \* the file with the original settings
          generation, \* enumerations of the device
          pc,         \* what the handle does
          handle,     \* the CellularCall
          others,     \* calls that other parties have made
          troubles

vars == <<calls, sound, home, disk, generation, pc, handle, others, troubles>>
modemVars == <<calls, sound, generation>>

Gps == {"none", "usbnmea"}
Free == [way |-> "none", state |-> "none", own |-> FALSE]

\* A call is ours once this handle has found, dialled or answered it.
Call == {Free} \cup [way : {"out", "in"}, state : {"dialing", "active", "incoming", "waiting"},
                     own : BOOLEAN]

NoFile == [file |-> "none", gps |-> "none"]
Torn   == [file |-> "torn", gps |-> "none"]
File == {NoFile, Torn} \cup [file : {"saved"}, gps : Gps]

\* kind is "recovery" for the handle that is made from a file.  session is
\* the enumeration its serial ports belong to; rejects are the waiting calls
\* State has read.
NoHandle == [kind |-> "none", id |-> 0, dialed |-> FALSE, gps |-> "none",
             generation |-> 0, session |-> 0, rejects |-> {}]
Handles == [kind : {"none", "out", "in", "recovery"}, id : Id \cup {0}, dialed : BOOLEAN,
            gps : Gps, generation : 0 .. MaxTroubles, session : 0 .. MaxTroubles,
            rejects : SUBSET Id]

Steps == {"none", "check", "read", "save", "written", "mute", "port", "pcm", "up", "answer",
          "ending", "chld", "chup", "confirm", "pcm off", "port back", "mute again",
          "remove", "failed", "done"}

Init == /\ calls = [i \in Id |-> Free]
        /\ home \in Gps
        /\ sound = [pcm |-> FALSE, gps |-> home, mic |-> TRUE]
        /\ disk = NoFile
        /\ generation = 0 /\ pc = "none" /\ handle = NoHandle
        /\ others = 0 /\ troubles = 0

Voice == {i \in Id : calls[i] # Free}
Ringing == {i \in Voice : calls[i].state = "incoming"}

Goto(there) == pc' = there
Rest == UNCHANGED <<home, others>>

\* The serial ports are gone when the device has enumerated again.
Attached == handle.session = generation

\* v.detached: the ports were opened again on another enumeration.
Detached == handle.session # handle.generation

\* A command works, or it fails before or after its effect.
Command(Effect, Untouched, there, failure) ==
    \/ Attached /\ Effect /\ Goto(there) /\ UNCHANGED troubles
    \/ /\ troubles < MaxTroubles
       /\ troubles' = troubles + 1
       /\ \/ Attached /\ Effect
          \/ Untouched
       /\ Goto(failure)
    \/ ~Attached /\ Untouched /\ Goto(failure) /\ UNCHANGED troubles

\* A query: only its answer matters.
Query(there, failure) == Command(TRUE, TRUE, there, failure)

------------------------------------------------------------------------------
(* Opening                                                                 *)

\* openCellularVoice: an unfinished recovery comes before an outgoing call
\* (Recover); an incoming one is refused as long as there is a file.
Open(kind) ==
    /\ pc = "none" /\ disk = NoFile
    /\ handle' = [NoHandle EXCEPT !.kind = kind, !.generation = generation,
                                  !.session = generation]
    /\ Goto("check")
    /\ UNCHANGED <<modemVars, disk, troubles>> /\ Rest

\* A call can be placed when there is none; one that rings must be alone.
Check ==
    /\ pc = "check"
    /\ \/ /\ handle.kind = "out"
          /\ Query(IF Voice = {} THEN "read" ELSE "done", "done")
          /\ UNCHANGED <<calls, handle>>
       \/ \E i \in Ringing :
             /\ handle.kind = "in" /\ Voice = {i}
             /\ Query("read", "done")
             /\ handle' = [handle EXCEPT !.id = i]
             /\ calls' = [calls EXCEPT ![i].own = TRUE]
       \/ /\ handle.kind = "in"
          /\ ~\E i \in Ringing : Voice = {i}
          /\ Goto("done") /\ UNCHANGED <<calls, handle, troubles>>
    /\ UNCHANGED <<sound, generation, disk>> /\ Rest

\* Another program may hold the sound path.
Read ==
    /\ pc = "read"
    /\ Query(IF sound.pcm THEN "done" ELSE "save", "done")
    /\ handle' = [handle EXCEPT !.gps = sound.gps]
    /\ UNCHANGED <<modemVars, disk>> /\ Rest

\* saveVoiceState: the file is created, then written and synced; a failure
\* takes it away again, an end of the program leaves it torn.
Save ==
    /\ pc = "save"
    /\ disk' = Torn
    /\ Goto("written")
    /\ UNCHANGED <<modemVars, handle, troubles>> /\ Rest

Written ==
    /\ pc = "written"
    /\ \/ /\ disk' = [file |-> "saved", gps |-> handle.gps]
          /\ Goto("mute") /\ UNCHANGED troubles
       \/ /\ troubles < MaxTroubles /\ troubles' = troubles + 1
          /\ disk' = NoFile
          /\ Goto("done")
    /\ UNCHANGED <<modemVars, handle>> /\ Rest

\* setVoiceAudio: a setting is read, set and read again.
Sets(from, Effect, there, failure) ==
    /\ pc = from
    /\ Command(Effect, UNCHANGED sound, there, failure)
    /\ UNCHANGED <<calls, generation, handle, disk>> /\ Rest

Mute      == sound' = [sound EXCEPT !.mic = FALSE]
Port(gps) == sound' = [sound EXCEPT !.gps = gps]
Pcm(on)   == sound' = [sound EXCEPT !.pcm = on]

\* prepareVoiceAudio: a failure leaves a handle that is hung up at once.
Prepare == \/ Sets("mute", Mute, "port", "ending")
           \/ Sets("port", Port("none"), "pcm", "ending")
           \/ Sets("pcm", Pcm(TRUE), "up", "ending")

------------------------------------------------------------------------------
(* The call                                                                *)

\* The lowest free number is the next call's.
NextId == Min(Id \ Voice)

\* Dial: once for a handle, whether or not the command works.
Dial ==
    /\ pc = "up" /\ handle.kind = "out" /\ ~handle.dialed
    /\ handle' = [handle EXCEPT !.dialed = TRUE]
    /\ Id # Voice
    /\ Command(calls' = [calls EXCEPT ![NextId] =
                            [way |-> "out", state |-> "dialing", own |-> TRUE]],
               UNCHANGED calls, "up", "up")
    /\ UNCHANGED <<sound, generation, disk>> /\ Rest

\* Answer reads the calls again: the one that was found must ring, alone.
Answer ==
    /\ pc = "up" /\ handle.kind = "in"
    /\ Voice = {handle.id} /\ handle.id \in Ringing
    /\ Query("answer", "up")
    /\ UNCHANGED <<modemVars, handle, disk>> /\ Rest

\* ATA takes whichever call rings by now.
AnswerSent ==
    /\ pc = "answer"
    /\ Command(IF Ringing = {} THEN UNCHANGED calls
               ELSE \E i \in Ringing :
                       calls' = [calls EXCEPT ![i].state = "active", ![i].own = TRUE],
               UNCHANGED calls, "up", "up")
    /\ UNCHANGED <<sound, generation, handle, disk>> /\ Rest

\* State turns waiting calls away, one command each, errors ignored.
State ==
    /\ pc = "up" /\ handle.rejects = {}
    /\ handle' = [handle EXCEPT !.rejects = {i \in Voice : calls[i].state = "waiting"}]
    /\ handle'.rejects # {}
    /\ Query("up", "up")
    /\ UNCHANGED <<modemVars, disk>> /\ Rest

Reject == \E i \in handle.rejects :
    /\ pc = "up"
    /\ handle' = [handle EXCEPT !.rejects = @ \ {i}]
    /\ Command(calls' = [calls EXCEPT ![i] = Free], UNCHANGED calls, "up", "up")
    /\ UNCHANGED <<sound, generation, disk>> /\ Rest

------------------------------------------------------------------------------
(* Hangup                                                                  *)

Hangup ==
    /\ pc = "up" /\ handle.rejects = {}
    /\ Goto("ending")
    /\ UNCHANGED <<modemVars, handle, disk, troubles>> /\ Rest

\* The caller tries again after three seconds; the ports are opened again on
\* whatever enumeration the module has by now.
Reopen ==
    /\ pc = "failed"
    /\ handle' = [handle EXCEPT !.session = generation]
    /\ Goto("ending")
    /\ UNCHANGED <<modemVars, disk, troubles>> /\ Rest

\* The handle of a recovery is given up, the one of a call is tried again.
Failure == IF handle.kind = "recovery" THEN "done" ELSE "failed"

\* After another enumeration numbers may belong to other calls: nothing is
\* hung up.
Spares == Detached

\* An incoming call is ended by its number, or by CHUP when it is alone;
\* everything else by CHUP.
Ending ==
    /\ pc = "ending"
    /\ \/ Spares /\ Goto("confirm") /\ UNCHANGED troubles
       \/ /\ ~Spares /\ handle.kind = "in"
          /\ Query(IF handle.id \notin Voice THEN "confirm"
                   ELSE IF Voice = {handle.id} THEN "chup" ELSE "chld", "failed")
       \/ ~Spares /\ handle.kind # "in" /\ Goto("chup") /\ UNCHANGED troubles
    /\ UNCHANGED <<modemVars, handle, disk>> /\ Rest

\* CHUP ends every call; one that waits is ended too, or rings now.
HungUp == \E kept \in SUBSET {i \in Voice : calls[i].state = "waiting"} :
    calls' = [i \in Id |-> IF i \in kept THEN [calls[i] EXCEPT !.state = "incoming"] ELSE Free]

\* Their errors are ignored: the next list of calls decides.
SendEnd ==
    /\ \/ pc = "chup" /\ Command(HungUp, UNCHANGED calls, "confirm", "confirm")
       \/ /\ pc = "chld"
          /\ Command(calls' = [calls EXCEPT ![handle.id] = Free], UNCHANGED calls,
                     "confirm", "confirm")
    /\ UNCHANGED <<sound, generation, handle, disk>> /\ Rest

\* Variant: the command that hangs up is trusted.
Trusted == TRUE

Confirmed == Voice = {}

Confirm ==
    /\ pc = "confirm"
    /\ Query(IF Confirmed THEN "pcm off" ELSE Failure, Failure)
    /\ UNCHANGED <<modemVars, handle, disk>> /\ Rest

\* restoreAudio.
Restore == \/ Sets("pcm off", Pcm(FALSE), "port back", Failure)
           \/ Sets("port back", Port(handle.gps), "mute again", Failure)
           \/ Sets("mute again", Mute, "remove", Failure)

\* The file is removed; syncing its directory may fail.
Remove ==
    /\ pc = "remove"
    /\ disk' = NoFile
    /\ \/ Goto("done") /\ UNCHANGED troubles
       \/ troubles < MaxTroubles /\ troubles' = troubles + 1 /\ Goto(Failure)
    /\ UNCHANGED <<modemVars, handle>> /\ Rest

Close ==
    /\ pc = "done"
    /\ handle' = NoHandle
    /\ Goto("none")
    /\ UNCHANGED <<modemVars, disk, troubles>> /\ Rest

\* recoverVoiceAudio: every poll of the module, and every outgoing call, looks
\* for a file; one that cannot be read refuses them for good.
Recover ==
    /\ pc = "none" /\ disk.file = "saved"
    /\ handle' = [NoHandle EXCEPT !.kind = "recovery", !.gps = disk.gps,
                                  !.generation = generation, !.session = generation]
    /\ Goto("ending")
    /\ UNCHANGED <<modemVars, disk, troubles>> /\ Rest

------------------------------------------------------------------------------
(* Network, device, program                                                *)

Rings ==
    /\ others < MaxCalls /\ Id # Voice
    /\ others' = others + 1
    /\ calls' = [calls EXCEPT ![NextId] =
                    [way |-> "in", own |-> FALSE,
                     state |-> IF Voice = {} THEN "incoming" ELSE "waiting"]]
    /\ UNCHANGED <<sound, home, disk, generation, pc, handle, troubles>>

PeerAnswers == \E i \in Voice :
    /\ calls[i].state = "dialing"
    /\ calls' = [calls EXCEPT ![i].state = "active"]
    /\ UNCHANGED <<sound, home, disk, generation, pc, handle, others, troubles>>

\* A call that waits rings when the others are over.
PeerEnds == \E i \in Voice :
    /\ calls' = [j \in Id |-> IF j = i THEN Free
                              ELSE IF Voice \ {i} = {j} /\ calls[j].state = "waiting"
                                   THEN [calls[j] EXCEPT !.state = "incoming"]
                                   ELSE calls[j]]
    /\ UNCHANGED <<sound, home, disk, generation, pc, handle, others, troubles>>

\* The device enumerates again; a reset ends its calls and the sound path.
Enumerates ==
    /\ troubles < MaxTroubles /\ troubles' = troubles + 1
    /\ generation' = generation + 1
    /\ \/ UNCHANGED <<calls, sound>>
       \/ /\ calls' = [i \in Id |-> Free]
          /\ sound' = [sound EXCEPT !.pcm = FALSE, !.mic = TRUE]
    /\ UNCHANGED <<home, disk, pc, handle, others>>

\* The firmware may switch PCM off when a call is over.
FirmwareStops ==
    /\ sound.pcm /\ Voice = {}
    /\ Pcm(FALSE)
    /\ UNCHANGED <<calls, home, disk, generation, pc, handle, others, troubles>>

\* The program stops or dies; the handle goes with it.
Stop ==
    /\ pc # "none" /\ troubles < MaxTroubles
    /\ troubles' = troubles + 1
    /\ handle' = NoHandle /\ Goto("none")
    /\ UNCHANGED <<modemVars, disk>> /\ Rest

HandleStep == \/ Check \/ Read \/ Save \/ Written \/ Prepare
              \/ Dial \/ Answer \/ AnswerSent \/ State \/ Reject \/ Hangup
              \/ Reopen \/ Ending \/ SendEnd \/ Confirm \/ Restore \/ Remove \/ Close

Next == \/ HandleStep \/ Recover
        \/ \E kind \in {"out", "in"} : Open(kind)
        \/ Rings \/ PeerAnswers \/ PeerEnds \/ Enumerates \/ FirmwareStops \/ Stop

\* A poll of the module ends, and another one follows.
Recovering == handle.kind = "recovery" /\ HandleStep

Fairness == WF_vars(Recover) /\ WF_vars(Recovering)

Spec == Init /\ [][Next]_vars /\ Fairness

------------------------------------------------------------------------------
(* Properties                                                              *)

\* The types of the state.
TypeOK ==
    /\ calls \in [Id -> Call]
    /\ sound \in [pcm : BOOLEAN, gps : Gps, mic : BOOLEAN] /\ home \in Gps
    /\ disk \in File /\ generation \in 0 .. MaxTroubles
    /\ pc \in Steps /\ handle \in Handles
    /\ others \in 0 .. MaxCalls /\ troubles \in 0 .. MaxTroubles

\* The module's sound path differs from the user's settings only while a file
\* that says what they were is on the disk.
JournalHeld == sound.pcm \/ sound.gps # home => disk = [file |-> "saved", gps |-> home]

\* No sound of the room is sent.
Muted == sound.pcm => ~sound.mic

\* A call that this program placed or answered is never forgotten: whatever
\* fails, the file remains that makes the next poll hang it up.
NoOrphan ==
    (\E i \in Voice : calls[i].own /\ calls[i].state \in {"dialing", "active"})
        => disk.file = "saved"

VoiceSound == TypeOK /\ JournalHeld /\ Muted /\ NoOrphan

\* A file left by a program that died is worked off: its call is over and the
\* user's settings are back.
Recovered == disk.file = "saved" /\ pc = "none" ~> disk = NoFile

\* What the code says of the recovery (voice_cellular.go:74): "Never run crash
\* recovery (CHUP) over a newly observed call."
RecoverySparesNewCalls ==
    [][pc = "chup" /\ pc' = "confirm" /\ handle.kind = "recovery"
           => \A i \in Voice : ~calls[i].own => calls'[i] # Free]_vars
==============================================================================
