----------------------------- MODULE DepegMonitor -----------------------------
(***************************************************************************)
(* The USDC depeg guard of the WEA service: a loop samples the price and   *)
(* turns accepting_new_settlements off after a window of samples out of    *)
(* the band; an operator turns it on again; handlers read it.  The flag is *)
(* a JSON value in system_flags, and what is read back depends on how the  *)
(* value was written.                                                      *)
(***************************************************************************)
EXTENDS Naturals

CONSTANTS
    Window,      \* depeg_window_minutes
    MaxStreak    \* bound on samples out of the band in a row

ASSUME DepegAssumption == Window \in Nat \ {0} /\ MaxStreak \in Nat

VARIABLES
    flag,          \* the JSON value of accepting_new_settlements
    updatedBy,     \* system_flags.updated_by
    mpc,           \* where the monitor's loop is
    consecutive,   \* consecutive_outside, in the monitor's memory
    streak         \* samples out of the band since the last one inside it,
                   \* whatever the monitor remembers of them

depegVars == <<flag, updatedBy, mpc, consecutive, streak>>

(* SQL writes true and false; a bool bound to JSON_OBJECT('value', ?) goes *)
(* over the wire as TINYINT and is stored as the number.                   *)
Stored == {"true", "false", "1", "0"}
Bound(value) == IF value THEN "1" ELSE "0"

(* read_bool_flag finds a bool in a JSON bool only; anything else is None. *)
ReadBoolFlag == IF flag \in {"true", "false"} THEN flag ELSE "None"

(* is_accepting_settlements: unwrap_or(true) *)
IsAccepting == ReadBoolFlag # "false"

DepegTypeOK ==
    /\ flag \in Stored
    /\ updatedBy \in {"bootstrap", "depeg_monitor", "operator"}
    /\ mpc \in {"sleep", "outside", "engage"}
    /\ consecutive \in 0..MaxStreak
    /\ streak \in 0..MaxStreak

DepegInit ==
    /\ flag = "true"
    /\ updatedBy = "bootstrap"
    /\ mpc = "sleep"
    /\ consecutive = 0
    /\ streak = 0

(* Fault: a sample inside the band does not start the count again. *)
SampleInsideSticky ==
    /\ mpc = "sleep"
    /\ streak' = 0
    /\ UNCHANGED <<flag, updatedBy, mpc, consecutive>>

SampleInside ==
    /\ mpc = "sleep"
    /\ consecutive' = 0
    /\ streak' = 0
    /\ UNCHANGED <<flag, updatedBy, mpc>>

(* A sample that cannot be fetched changes nothing. *)
SampleOutside ==
    /\ mpc = "sleep"
    /\ streak < MaxStreak
    /\ consecutive' = consecutive + 1
    /\ streak' = streak + 1
    /\ mpc' = "outside"
    /\ UNCHANGED <<flag, updatedBy>>

(* The flag is read only when the window is full. *)
MonitorReads ==
    /\ mpc = "outside"
    /\ mpc' = IF consecutive >= Window /\ IsAccepting THEN "engage" ELSE "sleep"
    /\ UNCHANGED <<flag, updatedBy, consecutive, streak>>

(* set_accepting_settlements(false, "depeg_monitor"); it may fail *)
MonitorEngages ==
    /\ mpc = "engage"
    /\ mpc' = "sleep"
    /\ \/ flag' = Bound(FALSE) /\ updatedBy' = "depeg_monitor"
       \/ UNCHANGED <<flag, updatedBy>>
    /\ UNCHANGED <<consecutive, streak>>

OperatorSets ==
    /\ flag' \in {"true", "false"}
    /\ updatedBy' = "operator"
    /\ UNCHANGED <<mpc, consecutive, streak>>

(* The process stops: the count is gone. *)
MonitorRestarts ==
    /\ mpc' = "sleep"
    /\ consecutive' = 0
    /\ UNCHANGED <<flag, updatedBy, streak>>

DepegNext ==
    SampleInside \/ SampleOutside \/ MonitorReads \/ MonitorEngages \/ OperatorSets

------------------------------------------------------------------------------
(* The monitor suspends settlements only after a full window of samples    *)
(* out of the band with none inside it, restarts and operators             *)
(* notwithstanding.                                                        *)
SuspendedOnlyAfterWindow ==
    [][updatedBy' = "depeg_monitor" /\ updatedBy # "depeg_monitor" => streak >= Window]_depegVars

(* depeg.rs: once the monitor has engaged the protection, settlements are  *)
(* refused until an operator re-enables them.                              *)
ProtectionHolds == updatedBy = "depeg_monitor" => ~IsAccepting
==============================================================================
