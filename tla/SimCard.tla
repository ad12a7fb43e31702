-------------------------------- MODULE SimCard --------------------------------
(***************************************************************************)
(* The SIM card behind one AT port (ec20_adapter.go, ec20_isim.go,          *)
(* ec20_sms_download.go, ec20_sms_psi.go) and its three users in the Wi-Fi  *)
(* worker: the session (identity, readiness, ISIM identity, service centre, *)
(* then AKA), the messages (data downloads to the card) and the emergency   *)
(* address (identity and AKA of its own, whenever the user asks).           *)
(*                                                                          *)
(* Every AT command is a step.  A transaction with the card - open or       *)
(* select an application, exchange, close - takes several, under one lock;  *)
(* the identity is read without it.  A command may fail with or without its *)
(* effect, and the card may be replaced by another at any step.             *)
(***************************************************************************)
EXTENDS Naturals, FiniteSets

CONSTANTS Channels,    \* bound: logical channels of the card
          Rounds,      \* commands of one exchange, 4 in the code
          Firmwares,   \* does the modem know CUAD, and logical channels?
          MaxTroubles  \* bound: commands that fail, and a card that is replaced

SimConstants == /\ {Channels, Rounds} \subseteq Nat \ {0} /\ MaxTroubles \in Nat
                /\ Firmwares \subseteq [cuad : BOOLEAN, channels : BOOLEAN]

VARIABLES firmware,    \* of the modem
          card,        \* the card: is it the session's, and has it an ISIM?
          basic,       \* what is selected on the basic channel
          open,        \* the applications open on logical channels
          response,    \* the task whose response waits in the card
          binding,     \* adapter.bindings of the session's card
          lock,        \* adapter.apduMu
          task,        \* what each user is doing
          stage,       \* how far the session and the emergency address are
          lost,        \* channels nobody knows to be open
          interrupted, \* tasks whose exchange was interrupted
          troubles

vars == <<firmware, card, basic, open, response, binding, lock, task, stage, lost,
          interrupted, troubles>>
cardVars == <<card, basic, open, response, lost, interrupted>>

Task == {"session", "message", "emergency"}
Channel == 1 .. Channels
NoTask == "none"

Unbound == [app |-> "none", basic |-> FALSE, isim |-> FALSE, isimBasic |-> FALSE]
Idle == [op |-> "none", at |-> "idle", then |-> "none", b |-> Unbound, app |-> "none",
         basic |-> FALSE, channel |-> 0, rounds |-> 0, touched |-> FALSE, own |-> TRUE,
         ok |-> FALSE]

Init == /\ firmware \in Firmwares
        /\ card \in [own : {TRUE}, isim : BOOLEAN]
        /\ basic = "mf" /\ open = [c \in Channel |-> "none"] /\ response = NoTask
        /\ binding = Unbound /\ lock = NoTask
        /\ task = [t \in Task |-> Idle]
        /\ stage = [session |-> "identity", emergency |-> "identity"]
        /\ lost = {} /\ interrupted = {} /\ troubles = 0

Quiet == UNCHANGED troubles
Trouble == troubles < MaxTroubles /\ troubles' = troubles + 1

At(t, here) == task[t].at = here
Goes(t, r) == task' = [task EXCEPT ![t] = r]
To(t, there) == Goes(t, [task[t] EXCEPT !.at = there])

\* What is left to do when a transaction ends: its channel is closed, and an
\* application that was selected before is selected again.
LeavesChannel(r) == IF r.op = "provisioned" /\ r.touched /\ r.b.app # "none"
                    THEN "restore" ELSE "end"
Ends(r) == IF r.channel # 0 THEN "close" ELSE LeavesChannel(r)

Ended(t, ok) == Goes(t, [task[t] EXCEPT !.ok = ok, !.rounds = 0, !.at = Ends(task[t])])
Fails(t) == Ended(t, FALSE)

Elsewhere == UNCHANGED <<firmware, stage>>

------------------------------------------------------------------------------
(* The operations                                                          *)

\* An operation starts from the binding as it is now.  Where no ISIM is known,
\* the one of the card is taken for granted, on a channel of its own.
Start(op, then) ==
    LET b == binding
        r == [Idle EXCEPT !.op = op, !.then = then,
                          !.at = CASE op = "identity" -> "files"
                                   [] op \in {"provisioned", "download", "center"} -> "lock"
                                   [] OTHER -> "verify"] IN
    CASE op \in {"ready", "provisioned"} -> [r EXCEPT !.b = b]
      [] op \in {"usim", "download"} -> [r EXCEPT !.app = b.app, !.basic = b.basic]
      [] op = "strict" -> [r EXCEPT !.app = "isim", !.basic = b.isimBasic]
      [] OTHER -> r

\* An authentication without a known application looks for one first.
Authentication == IF binding.app = "none" THEN Start("ready", "usim") ELSE Start("usim", "none")

\* The session goes through its stages; once it is up it authenticates again
\* when the registrar asks.
Session ==
    /\ task["session"].op = "none"
    /\ IF stage["session"] = "up"
       THEN \/ Goes("session", Authentication)
            \/ Goes("session", Start("strict", "none"))
       ELSE Goes("session", Start(stage["session"], "none"))
    /\ UNCHANGED <<cardVars, binding, lock>> /\ Elsewhere /\ Quiet

\* A message for the card.
Message ==
    /\ task["message"].op = "none" /\ stage["session"] = "up"
    /\ Goes("message", Start("download", "none"))
    /\ UNCHANGED <<cardVars, binding, lock>> /\ Elsewhere /\ Quiet

Emergency ==
    /\ task["emergency"].op = "none"
    /\ Goes("emergency", IF stage["emergency"] = "identity" THEN Start("identity", "none")
                         ELSE Authentication)
    /\ UNCHANGED <<cardVars, binding, lock>> /\ Elsewhere /\ Quiet

\* ReadIdentity reads the card's files without the lock: the modem selects
\* them on the basic channel and drops a response that was waiting.
Files(t) ==
    /\ At(t, "files")
    /\ basic' = "file" /\ response' = NoTask
    /\ interrupted' = interrupted \cup
          {u \in Task : task[u].at = "more" \/ (task[u].at = "exchange" /\ task[u].channel = 0)}
    /\ \/ To(t, "bind") /\ Quiet
       \/ Fails(t) /\ Trouble
    /\ UNCHANGED <<card, open, lost, binding, lock>> /\ Elsewhere

\* The identity is bound anew, whatever was known of its applications.
Bind(t) ==
    /\ At(t, "bind")
    /\ binding' = IF card.own THEN Unbound ELSE binding
    /\ Ended(t, card.own)
    /\ UNCHANGED <<cardVars, lock>> /\ Elsewhere /\ Quiet

\* Is it still the session's card?
Verify(t) ==
    /\ At(t, "verify")
    /\ \/ /\ card.own /\ Quiet
          /\ LET r == task[t] IN
             CASE r.op = "provisioned" -> To(t, "probe")
               [] r.op = "download" /\ r.app = "usim" -> To(t, "select")
               [] r.op = "download" /\ r.app # "usim" -> Fails(t)
               [] OTHER -> To(t, "lock")
       \/ ~card.own /\ Fails(t) /\ Quiet
       \/ Fails(t) /\ Trouble
    /\ UNCHANGED <<cardVars, binding, lock>> /\ Elsewhere

Lock(t) ==
    /\ At(t, "lock") /\ lock = NoTask
    /\ lock' = t
    /\ LET r == task[t] IN
       To(t, CASE r.op \in {"provisioned", "download"} -> "verify"
               [] r.op = "center" -> "center"
               [] r.op = "ready" -> "probe"
               [] r.basic -> "select"
               [] OTHER -> "open")
    /\ UNCHANGED <<cardVars, binding>> /\ Elsewhere /\ Quiet

Application(t) == IF task[t].op = "ready" THEN "usim" ELSE "isim"
OnCard(app) == app = "usim" \/ card.isim

\* The list of applications (CUAD), or else the card's directory.
Probe(t) ==
    /\ At(t, "probe")
    /\ LET app == Application(t)
           directory == Goes(t, [task[t] EXCEPT !.at = "mf", !.touched = TRUE]) IN
       \/ /\ firmware.cuad /\ Quiet
          /\ IF OnCard(app) THEN Goes(t, [task[t] EXCEPT !.at = "open", !.app = app])
             ELSE Ended(t, TRUE)
       \/ ~firmware.cuad /\ directory /\ Quiet
       \/ directory /\ Trouble
    /\ UNCHANGED <<cardVars, binding, lock>> /\ Elsewhere

\* Without a directory the readiness is tried with the common application.
NoDirectory(t) == IF task[t].op = "ready"
                  THEN Goes(t, [task[t] EXCEPT !.at = "open", !.app = "usim"])
                  ELSE Fails(t)

SelectDirectory(t) ==
    /\ At(t, "mf")
    /\ \/ basic' = "dir" /\ To(t, "records") /\ Quiet
       \/ basic' \in {basic, "dir"} /\ NoDirectory(t) /\ Trouble
    /\ UNCHANGED <<card, open, response, lost, interrupted, binding, lock>> /\ Elsewhere

ReadDirectory(t) ==
    /\ At(t, "records")
    /\ LET app == Application(t) IN
       \/ /\ basic = "dir" /\ Quiet
          /\ IF OnCard(app) THEN Goes(t, [task[t] EXCEPT !.at = "open", !.app = app])
             ELSE Ended(t, TRUE)
       \/ basic # "dir" /\ NoDirectory(t) /\ Quiet
       \/ NoDirectory(t) /\ Trouble
    /\ UNCHANGED <<cardVars, binding, lock>> /\ Elsewhere

\* CheckReady remembers the application and the kind of channel.
Ready(r) == [r.b EXCEPT !.app = r.app, !.basic = r.basic]

\* Without logical channels the basic channel is used, except by an
\* authentication that is bound to them.
NotOpened(t) == IF task[t].op \in {"ready", "provisioned"}
                THEN Goes(t, [task[t] EXCEPT !.at = "select", !.basic = TRUE, !.touched = TRUE])
                ELSE Fails(t)

Open(t) ==
    /\ At(t, "open")
    /\ LET free == {c \in Channel : open[c] = "none"}
           app == task[t].app
           can == firmware.channels /\ OnCard(app) /\ free # {} IN
       \/ /\ can /\ Quiet
          /\ \E c \in free :
                /\ open' = [open EXCEPT ![c] = app] /\ UNCHANGED lost
                /\ Goes(t, [task[t] EXCEPT !.channel = c, !.basic = FALSE,
                               !.at = IF task[t].op = "ready" THEN "close" ELSE "exchange",
                               !.ok = task[t].op = "ready"])
       \/ ~can /\ NotOpened(t) /\ UNCHANGED <<open, lost>> /\ Quiet
       \/ /\ can /\ NotOpened(t) /\ Trouble
          /\ \/ \E c \in free : open' = [open EXCEPT ![c] = app] /\ lost' = lost \cup {c}
             \/ UNCHANGED <<open, lost>>
    /\ UNCHANGED <<card, basic, response, interrupted, binding, lock>> /\ Elsewhere

Select(t) ==
    /\ At(t, "select")
    /\ LET r == task[t] IN
       \/ /\ OnCard(r.app) /\ basic' = r.app /\ Quiet
          /\ IF r.op = "ready" THEN Ended(t, TRUE) /\ binding' = Ready(r)
             ELSE To(t, "exchange") /\ UNCHANGED binding
       \/ ~OnCard(r.app) /\ Fails(t) /\ UNCHANGED <<basic, binding>> /\ Quiet
       \/ basic' \in {basic, r.app} /\ Fails(t) /\ UNCHANGED binding /\ Trouble
    /\ UNCHANGED <<card, open, response, lost, interrupted, lock>> /\ Elsewhere

------------------------------------------------------------------------------
(* The exchange                                                            *)

\* The answer is complete: what comes from the card is checked once more,
\* except an authentication.
Complete(t) ==
    LET r == [task[t] EXCEPT !.own = card.own, !.ok = TRUE, !.rounds = 0] IN
    Goes(t, [r EXCEPT !.at = IF r.op \in {"provisioned", "download"} THEN "again" ELSE Ends(r)])

\* Four commands at most, in the code.
AnotherRound(r) == r.rounds + 1 < Rounds

\* More of the answer is to come (61xx), or the command is to be sent again
\* with another length (6Cxx).
Continues(t, there) ==
    IF AnotherRound(task[t])
    THEN Goes(t, [task[t] EXCEPT !.at = there, !.rounds = IF @ < Rounds THEN @ + 1 ELSE @])
    ELSE Fails(t)

\* The answer is a refusal - of the network's token, of the command - or makes
\* no sense.
Refused(t) == Fails(t)

Reaches(t) == task[t].channel # 0 \/ basic = task[t].app

Exchange(t) ==
    /\ At(t, "exchange")
    /\ \/ Reaches(t) /\ Quiet
          /\ \/ (Complete(t) \/ Refused(t)) /\ UNCHANGED response
             \/ Continues(t, "more") /\ response' = t
             \/ Continues(t, "exchange") /\ UNCHANGED response
       \/ ~Reaches(t) /\ Fails(t) /\ UNCHANGED response /\ Quiet
       \/ Fails(t) /\ UNCHANGED response /\ Trouble
    /\ UNCHANGED <<card, basic, open, lost, interrupted, binding, lock>> /\ Elsewhere

More(t) ==
    /\ At(t, "more")
    /\ \/ /\ response = t /\ Quiet
          /\ \/ (Complete(t) \/ Refused(t)) /\ response' = NoTask
             \/ Continues(t, "more") /\ UNCHANGED response
       \/ response # t /\ Fails(t) /\ UNCHANGED response /\ Quiet
       \/ Fails(t) /\ response' = NoTask /\ Trouble
    /\ UNCHANGED <<card, basic, open, lost, interrupted, binding, lock>> /\ Elsewhere

\* Variant: the card is not looked at again.
Trusted == TRUE
SameCard == card.own

\* The card is verified again; only then is its ISIM remembered.
Again(t) ==
    /\ At(t, "again")
    /\ LET r == task[t] IN
       \/ /\ SameCard /\ Ended(t, TRUE) /\ Quiet
          /\ binding' = IF r.op = "provisioned"
                        THEN [r.b EXCEPT !.isim = TRUE, !.isimBasic = r.basic] ELSE binding
       \/ ~SameCard /\ Fails(t) /\ UNCHANGED binding /\ Quiet
       \/ Fails(t) /\ UNCHANGED binding /\ Trouble
    /\ UNCHANGED <<cardVars, lock>> /\ Elsewhere

Center(t) ==
    /\ At(t, "center")
    /\ basic' \in {basic, "file"}
    /\ \/ Ended(t, TRUE) /\ Quiet
       \/ Fails(t) /\ Trouble
    /\ UNCHANGED <<card, open, response, lost, interrupted, binding, lock>> /\ Elsewhere

\* A channel is closed however the exchange went, in time of its own.
Closes(r) == TRUE

Close(t) ==
    /\ At(t, "close")
    /\ LET r == [task[t] EXCEPT !.channel = 0]
           c == task[t].channel IN
       \/ /\ open[c] # "none" /\ Goes(t, [r EXCEPT !.at = LeavesChannel(r)]) /\ Quiet
          /\ binding' = IF r.op = "ready" /\ r.ok THEN Ready(r) ELSE binding
          /\ open' = IF Closes(r) THEN [open EXCEPT ![c] = "none"] ELSE open
          /\ UNCHANGED lost
       \/ /\ open[c] = "none" /\ Goes(t, [r EXCEPT !.at = LeavesChannel(r), !.ok = FALSE]) /\ Quiet
          /\ UNCHANGED <<open, lost, binding>>
       \/ /\ open[c] # "none" /\ Goes(t, [r EXCEPT !.at = LeavesChannel(r), !.ok = FALSE]) /\ Trouble
          /\ UNCHANGED binding
          /\ \/ open' = [open EXCEPT ![c] = "none"] /\ UNCHANGED lost
             \/ lost' = lost \cup {c} /\ UNCHANGED open
    /\ UNCHANGED <<card, basic, response, interrupted, lock>> /\ Elsewhere

\* The application of the authentications is selected again.
Restore(t) ==
    /\ At(t, "restore")
    /\ \/ basic' = task[t].b.app /\ To(t, "end") /\ Quiet
       \/ /\ basic' \in {basic, task[t].b.app} /\ Trouble
          /\ Goes(t, [task[t] EXCEPT !.at = "end", !.ok = FALSE])
    /\ UNCHANGED <<card, open, response, lost, interrupted, binding, lock>> /\ Elsewhere

\* The next stage of a user whose operation has ended; a session that fails is
\* set up again, but the service centre and the ISIM are not required.
NextStage(t, r) ==
    CASE t = "session" /\ r.op = "center" -> "up"
      [] t = "session" /\ ~r.ok -> "identity"
      [] t = "session" /\ stage[t] = "identity" -> "ready"
      [] t = "session" /\ stage[t] = "ready" -> "provisioned"
      [] t = "session" /\ stage[t] = "provisioned" -> "center"
      [] t = "session" /\ stage[t] = "up" -> "up"
      [] OTHER -> IF r.ok /\ r.op = "identity" THEN "usim" ELSE "identity"

End(t) ==
    /\ At(t, "end")
    /\ lock' = IF lock = t THEN NoTask ELSE lock
    /\ interrupted' = interrupted \ {t}
    /\ response' = IF response = t THEN NoTask ELSE response
    /\ LET r == task[t] IN
       IF r.ok /\ r.then # "none"
       THEN Goes(t, Start(r.then, "none")) /\ UNCHANGED stage
       ELSE /\ Goes(t, Idle)
            /\ stage' = IF t = "message" THEN stage ELSE [stage EXCEPT ![t] = NextStage(t, r)]
    /\ UNCHANGED <<firmware, card, basic, open, lost, binding>> /\ Quiet

Command(t) == \/ Files(t) \/ Bind(t) \/ Verify(t) \/ Lock(t) \/ Probe(t)
              \/ SelectDirectory(t) \/ ReadDirectory(t) \/ Open(t) \/ Select(t)
              \/ Exchange(t) \/ More(t) \/ Again(t) \/ Center(t) \/ Close(t) \/ Restore(t)
              \/ End(t)

\* Another card; the first is not put back.
CardReplaced ==
    /\ card.own /\ Trouble
    /\ card' = [card EXCEPT !.own = FALSE]
    /\ basic' = "mf" /\ open' = [c \in Channel |-> "none"] /\ response' = NoTask /\ lost' = {}
    /\ UNCHANGED <<binding, lock, task, interrupted>> /\ Elsewhere

Next == Session \/ Message \/ Emergency \/ (\E t \in Task : Command(t)) \/ CardReplaced

Spec == Init /\ [][Next]_vars

------------------------------------------------------------------------------
(* Properties                                                              *)

App == {"none", "usim", "isim"}
Bound == [app : App, basic : BOOLEAN, isim : BOOLEAN, isimBasic : BOOLEAN]
Op == {"none", "identity", "ready", "provisioned", "center", "usim", "strict", "download"}

\* The types of the state.
TypeOK ==
    /\ firmware \in Firmwares
    /\ card \in [own : BOOLEAN, isim : BOOLEAN]
    /\ basic \in {"mf", "dir", "file", "usim", "isim"}
    /\ open \in [Channel -> App] /\ response \in Task \cup {NoTask}
    /\ binding \in Bound /\ lock \in Task \cup {NoTask}
    /\ \A t \in Task : task[t].op \in Op /\ task[t].b \in Bound /\ task[t].rounds \in 0 .. Rounds
    /\ lost \subseteq Channel /\ interrupted \subseteq Task /\ troubles \in 0 .. MaxTroubles

\* No channel is left open but by a command whose answer was lost.
ChannelsClosed == \A c \in Channel : open[c] # "none" =>
    \/ c \in lost
    \/ \E t \in Task : task[t].channel = c

\* The card answers the transaction that asks, in the application it has
\* chosen, whatever the other users do - but for the files that are read
\* without the lock.
Undisturbed == \A t \in Task \ interrupted :
    /\ At(t, "exchange") /\ task[t].channel = 0 /\ card.own => basic = task[t].app
    /\ At(t, "more") /\ card.own => response = t

\* What is read from a card for the session, and what a card answers to a
\* message, is the session's card's.
OwnCard == \A t \in Task :
    At(t, "end") /\ task[t].ok /\ task[t].op \in {"provisioned", "download"}
        => task[t].own

SimSound == TypeOK /\ ChannelsClosed /\ Undisturbed /\ OwnCard

\* No file is read during an exchange of somebody else's (ec20_sms_psi.go:22).
NoInterruption == interrupted = {}
==============================================================================
