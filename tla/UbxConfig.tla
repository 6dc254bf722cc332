----------------------------- MODULE UbxConfig -----------------------------
(***************************************************************************)
(* Bringing up the u-blox receiver on the STM32 platform (ublox.rs): the   *)
(* baud rate is searched by sending the port configuration at every rate   *)
(* in turn and looking for its acknowledgement; then the messages are      *)
(* configured one by one, without looking at the answers.                  *)
(***************************************************************************)
EXTENDS Integers, Sequences

CONSTANTS
  Protocol,   \* "M8" or "M9"
  Retries,    \* rounds of the search (30 in the code)
  Factory     \* messages the receiver emits when it comes up

Bauds == <<9600, 38400, 57600, 115200, 230400>>
Desired == 230400      \* what the boards ask for

\* cfg_msg calls that turn a message off, in order, and the settings that follow
Off == <<"MonHw", "MonHw2", "NavDop", "NavStatus", "NavSat", "NavTimeGps", "NavPosEcef",
         "NavVelEcef", "NavTimeGps", "NavPosEcef", "NavVelEcef">>
SettingsAll == <<"cfg_rate", "cfg_tp5", "cfg_nav5">>
Settings == IF Protocol = "M8" THEN SettingsAll ELSE <<>>

UbxConfigAssumption ==
  /\ Protocol \in {"M8", "M9"} /\ Retries \in Nat \ {0}
  /\ Factory \subseteq {Off[i] : i \in 1 .. Len(Off)}    \* nothing that is not turned off

VARIABLES
  alive,     \* the receiver is powered
  rcv,       \* its baud rate
  emits,     \* messages it sends
  set,       \* settings it has taken
  host,      \* baud rate of the UART
  phase,     \* "sync", "cfg" or "read"
  try,       \* rate under trial, counted through all rounds
  k,         \* configuration messages sent
  synced,    \* result of sync_baudrate
  unheard    \* history: a configuration message did not arrive

vars == <<alive, rcv, emits, set, host, phase, try, k, synced, unheard>>

Init ==
  /\ alive \in BOOLEAN /\ rcv \in {9600, 38400, Desired} /\ emits = Factory /\ set = {}
  /\ host = Bauds[1] /\ phase = "sync" /\ try = 1 /\ k = 0 /\ synced = FALSE /\ unheard = FALSE

-----------------------------------------------------------------------------
\* What was written arrives, or gets lost.
Arrives == alive /\ host = rcv

\* cfg_prt: M9 takes rate and navigation settings with the port.
SettingsOfPort == IF Protocol = "M9" THEN {"cfg_rate", "cfg_nav5"} ELSE {}

(* Mutated form: the board stays at the rate it was heard at. *)
AckedKeepsRate == UNCHANGED host /\ phase' = "cfg" /\ synced' = TRUE /\ UNCHANGED try

(* sync_baudrate, one rate: tx of cfg_prt and look_for_ack. *)
Acked == host' = Desired /\ phase' = "cfg" /\ synced' = TRUE /\ UNCHANGED try

NotAcked ==
  /\ synced' = FALSE
  /\ IF try = Retries * Len(Bauds)
     THEN phase' = "cfg" /\ UNCHANGED <<try, host>>
     ELSE try' = try + 1 /\ host' = Bauds[(try % Len(Bauds)) + 1] /\ UNCHANGED phase

TryRate ==
  /\ phase = "sync"
  /\ \/ Arrives /\ rcv' = Desired /\ set' = set \cup SettingsOfPort /\ (Acked \/ NotAcked)
     \/ UNCHANGED <<rcv, set>> /\ NotAcked
  /\ UNCHANGED <<alive, emits, k, unheard>>

(* run: the k-th configuration message, acknowledged or not. *)
\* cfg_rate, cfg_tp5, cfg_nav5
SetBy(i) == IF i > Len(Off) THEN {Settings[i - Len(Off)]} ELSE {}

Configure ==
  /\ phase = "cfg" /\ k <= Len(Off) + Len(Settings)
  /\ k' = k + 1
  /\ \/ /\ Arrives /\ UNCHANGED unheard
        /\ emits' = CASE k < Len(Off) -> emits \ {Off[k + 1]}
                      [] k = Len(Off) -> emits \cup {"NavPvt"}
                      [] OTHER -> emits
        /\ set' = set \cup SetBy(k)
     \/ unheard' = TRUE /\ UNCHANGED <<emits, set>>
  /\ UNCHANGED <<alive, rcv, host, phase, try, synced>>

Read ==
  /\ phase = "cfg" /\ k > Len(Off) + Len(Settings)
  /\ phase' = "read"
  /\ UNCHANGED <<alive, rcv, emits, set, host, try, k, synced, unheard>>

\* The receiver gets power while the search is under way, or has had it.
PowerOn ==
  /\ ~alive /\ alive' = TRUE
  /\ UNCHANGED <<rcv, emits, set, host, phase, try, k, synced, unheard>>

\* Reading frames, for ever.
Reading == phase = "read" /\ UNCHANGED vars

Next == TryRate \/ Configure \/ Read \/ PowerOn \/ Reading
Spec == Init /\ [][Next]_vars /\ WF_vars(TryRate \/ Configure \/ Read)

-----------------------------------------------------------------------------
(* The trial stays within the rounds, and every rate of it is in the list. *)
TypeOK ==
  /\ try \in 1 .. Retries * Len(Bauds) /\ k \in 0 .. Len(Off) + Len(Settings) + 1
  /\ phase = "sync" => host = Bauds[((try - 1) % Len(Bauds)) + 1]

(* When the search reports success both ends use the same rate, also when  *)
(* an acknowledgement was lost and the receiver changed its rate meanwhile. *)
SyncedAgree == synced => host = rcv

(* A search that found nothing leaves the UART at the rate the boards ask  *)
(* for, not at some rate of the list.                                      *)
ReadsAtDesired == phase # "sync" => host = Desired

(* When every configuration message arrived, the receiver sends positions  *)
(* and nothing else, at the rate asked for.                                *)
ConfiguredWhenHeard ==
  phase = "read" /\ synced /\ ~unheard => emits = {"NavPvt"} /\ {"cfg_rate", "cfg_nav5"} \subseteq set

(* Whether the receiver answers or not, the task comes to read frames. *)
ComesToRead == <>(phase = "read")
=============================================================================
