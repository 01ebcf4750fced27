------------------------------ MODULE GprsLink ------------------------------
(***************************************************************************)
(* The gateway's link through a GPRS modem (TransconnApp.c): a sequence of *)
(* commands, each sent some time after the answer to the one before, sets  *)
(* the modem up and connects it; a packet is sent in two steps, when the   *)
(* modem asks for it.  Keys start the set-up anew and shut the link.       *)
(*                                                                         *)
(* The answers come in chunks, of which only the end is looked at.  The    *)
(* modem takes one command at a time and answers each, with an echo before *)
(* the answer or without; the line between them loses nothing.             *)
(***************************************************************************)
EXTENDS SequencesExt

CONSTANTS
  MaxPushes,    \* bound on the times a key is pushed
  MaxBreaks,     \* bound on the times that the link breaks down or the modem stops
  FramesApart,  \* whether no frame comes in one chunk behind an answer
  MaxLine       \* bound on what is under way for a key or a packet to be handled

GprsAssumption == {MaxPushes, MaxBreaks, MaxLine} \subseteq Nat /\ FramesApart \in BOOLEAN

Setup == <<"CGCLASS", "CGATT", "CIPCSGP", "CLPORT", "CIPSTART">>
Steps == Setup \o <<"CIPCLOSE", "CIPSHUT">>

VARIABLES
  gprs_states,   \* the values that it is ever given
  gprs_Step,
  delay,         \* TIMER_DELAY_EVENT is armed
  commands,      \* on the line to the modem
  answers,       \* on the line to the gateway
  modem,         \* whether it is on, its link is open, and it waits for a packet
  pushes, breaks

gateway == <<gprs_states, gprs_Step, delay>>
vars == <<gateway, commands, answers, modem, pushes, breaks>>

Off == [on |-> FALSE, open |-> FALSE, prompt |-> FALSE]

Init ==
  /\ gprs_states = "INIT" /\ gprs_Step = 0 /\ delay = FALSE
  /\ commands = <<>> /\ answers = <<>> /\ modem = Off
  /\ pushes = 0 /\ breaks = 0

(* What is written to a modem that is off is lost. *)
Write(c) == commands' = IF modem.on THEN Append(commands, c) ELSE commands

-----------------------------------------------------------------------------
(* TransconnApp_GPRSStatesHandler, for each of the states it is called with *)

Ready == gprs_states' = "READY" /\ gprs_Step' = 1 /\ delay' = TRUE

Known(A) == IF gprs_states # "INIT" THEN A ELSE UNCHANGED gateway

Advance ==
  /\ gprs_Step' = IF gprs_Step < Len(Setup) THEN gprs_Step + 1 ELSE gprs_Step
  /\ delay' = TRUE /\ UNCHANGED gprs_states

Connect == gprs_states' = "CONNECT_OK" /\ UNCHANGED <<gprs_Step, delay>>

(* Mutant: an error is not tried again. *)
GiveUp == UNCHANGED gateway
Retry == delay' = TRUE /\ UNCHANGED <<gprs_states, gprs_Step>>

(* GPRS_CLOSE falls through to this: the link is shut, never closed. *)
Shut == gprs_Step' = Len(Steps) /\ delay' = TRUE /\ UNCHANGED gprs_states

-----------------------------------------------------------------------------
(* TransconnApp_TxHandler, by the end of what was received *)

Upload ==
  /\ IF gprs_states = "CONNECT_OK" THEN Write("CIPSEND") ELSE UNCHANGED commands
  /\ UNCHANGED gateway

Answered(a) ==
  \/ a = "Call Ready" /\ Ready /\ UNCHANGED commands
  \/ /\ a = "> " /\ UNCHANGED gateway
     /\ IF gprs_states = "CONNECT_OK" THEN Write("packet") ELSE UNCHANGED commands
  \/ a = "SEND OK" /\ UNCHANGED <<gateway, commands>>
  \/ a \in {"CONNECT OK", "ALREADY CO"} /\ Known(Connect) /\ UNCHANGED commands
  \/ /\ a = "SHUT OK" /\ gprs_states' = "SHUT"
     /\ UNCHANGED <<gprs_Step, delay, commands>>
  \/ /\ a = "OK" /\ UNCHANGED commands
     /\ IF gprs_Step < Len(Setup) THEN Known(Advance) ELSE Known(Connect)
  \/ a = "frame" /\ (UNCHANGED <<gateway, commands>> \/ Upload)
  \/ /\ a \in {"ERROR", "text"} /\ UNCHANGED commands
     /\ IF gprs_states = "CONNECT_OK" THEN UNCHANGED gateway ELSE Known(Retry)

Receive ==
  /\ \E n \in 1..Len(answers) :
       /\ answers[n] = "frame" => n = 1 \/ ~FramesApart
       /\ answers' = SubSeq(answers, n + 1, Len(answers))
       /\ Answered(answers[n])
  /\ UNCHANGED <<modem, pushes, breaks>>

(* The delay event calls TransconnApp_GPRSStepHandler. *)
Expire ==
  /\ delay /\ delay' = FALSE
  /\ ToSet(answers) \subseteq {"frame"}
  /\ Write(Steps[gprs_Step])
  /\ UNCHANGED <<gprs_states, gprs_Step, answers, modem, pushes, breaks>>

(* upload_event, and the reports of the devices *)
Uploads ==
  /\ Len(commands) + Len(answers) < MaxLine /\ Upload
  /\ UNCHANGED <<answers, modem, pushes, breaks>>

(* Two pushes of the key *)
KeySetUp ==
  /\ pushes < MaxPushes /\ pushes' = pushes + 1
  /\ Len(commands) + Len(answers) < MaxLine
  /\ \/ /\ gprs_states = "SHUT" /\ UNCHANGED gprs_states
        /\ gprs_Step' = 4 /\ delay' = TRUE
     \/ gprs_states \notin {"SHUT", "CONNECT_OK"} /\ Ready
  /\ UNCHANGED <<commands, answers, modem, breaks>>

(* ... and four *)
KeyShut ==
  /\ pushes < MaxPushes /\ pushes' = pushes + 1
  /\ gprs_states = "CONNECT_OK" /\ Shut
  /\ UNCHANGED <<commands, answers, modem, breaks>>

-----------------------------------------------------------------------------
(* The modem *)

Says(texts) ==
  /\ commands' = Tail(commands)
  /\ answers' = answers \o texts \/ answers' = answers \o <<"text">> \o texts

Takes(c) == modem.on /\ commands # <<>> /\ Head(commands) = c /\ UNCHANGED <<gateway, pushes, breaks>>

Accepts ==
  \/ \E c \in {"CGCLASS", "CGATT", "CIPCSGP", "CLPORT"} :
       Takes(c) /\ ~modem.prompt /\ Says(<<"OK">>) /\ UNCHANGED modem
  \/ /\ Takes("CIPSTART") /\ ~modem.prompt
     /\ \/ /\ ~modem.open /\ modem' = [modem EXCEPT !.open = TRUE]
           /\ Says(<<"OK", "CONNECT OK">>)
        \/ /\ modem.open /\ UNCHANGED modem
           /\ Says(<<"ALREADY CO">>)
  \/ /\ Takes("CIPSHUT") /\ ~modem.prompt
     /\ modem' = [modem EXCEPT !.open = FALSE] /\ Says(<<"SHUT OK">>)
  \/ /\ Takes("CIPSEND") /\ ~modem.prompt
     /\ modem' = [modem EXCEPT !.prompt = modem.open]
     /\ Says(<<IF modem.open THEN "> " ELSE "ERROR">>)

(* While it waits for a packet every other text becomes part of it. *)
Packet ==
  \/ /\ Takes("packet") /\ modem' = [modem EXCEPT !.prompt = FALSE]
     /\ Says(<<IF modem.prompt THEN "SEND OK" ELSE "ERROR">>)
  \/ /\ modem.prompt
     /\ \E c \in ToSet(Steps) \cup {"CIPSEND"} : Takes(c)
     /\ commands' = Tail(commands) /\ UNCHANGED <<answers, modem>>

Refuses ==
  /\ \E c \in ToSet(Setup) : Takes(c)
  /\ ~modem.prompt /\ UNCHANGED modem
  /\ \/ Says(<<"ERROR">>)
     \/ /\ Head(commands) = "CIPSTART" /\ ~modem.open
        /\ Says(<<"OK", "text">>)

(* It starts; the link breaks down; it loses its power or starts anew. *)
Boots ==
  /\ ~modem.on /\ modem' = [modem EXCEPT !.on = TRUE]
  /\ answers' = Append(answers, "Call Ready")
  /\ UNCHANGED <<gateway, commands, pushes, breaks>>

Closed ==
  /\ modem.open /\ breaks < MaxBreaks /\ breaks' = breaks + 1
  /\ modem' = [modem EXCEPT !.open = FALSE, !.prompt = FALSE]
  /\ answers' = Append(answers, "text")
  /\ UNCHANGED <<gateway, commands, pushes>>

Frame ==
  /\ modem.open /\ Len(commands) + Len(answers) < MaxLine
  /\ answers' = Append(answers, "frame")
  /\ UNCHANGED <<gateway, commands, modem, pushes, breaks>>

Dies ==
  /\ modem.on /\ breaks < MaxBreaks /\ breaks' = breaks + 1
  /\ modem' = Off /\ commands' = <<>>
  /\ UNCHANGED <<gateway, answers, pushes>>

Next ==
  \/ Receive \/ Expire \/ Uploads \/ KeySetUp \/ KeyShut
  \/ Accepts \/ Packet \/ Refuses \/ Boots \/ Closed \/ Frame \/ Dies

(* The modem answers, and does not refuse for ever. *)
Fairness ==
  /\ WF_vars(Receive) /\ WF_vars(Expire)
  /\ SF_vars(Accepts) /\ WF_vars(Packet) /\ WF_vars(Boots)

Spec == Init /\ [][Next]_vars /\ Fairness

-----------------------------------------------------------------------------
(* Properties *)

(* A set-up that was begun comes to its end, whatever keys are pushed, what *)
(* is refused and how often the modem starts anew meanwhile                *)
(* (TransconnApp_GPRSStatesHandler).                                       *)
SettingUp == \/ gprs_states = "READY"
             \/ gprs_states = "SHUT" /\ gprs_Step \in 1..Len(Setup)
Connects == SettingUp ~> gprs_states = "CONNECT_OK"
=============================================================================
