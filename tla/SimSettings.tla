----------------------------- MODULE SimSettings -----------------------------
(***************************************************************************)
(* Where the settings of a SIM come from: the built-in values, the         *)
(* configuration file and the command line (main.c, mms_settings.c), and   *)
(* the values that others keep for each SIM in dconf                       *)
(* (mms_settings_dconf.c).                                                 *)
(*                                                                         *)
(* One copy of the values is kept, for the SIM that was asked for last.    *)
(* Asking for another SIM moves the old values of that SIM to where they   *)
(* are kept now, reads them and listens to their changes.                  *)
(***************************************************************************)
EXTENDS Integers

CONSTANTS Sims,         \* SIMs, by IMSI
          NoSim,
          Keys,         \* the numeric settings
          Written,      \* Written[s][k]: what others may write for SIM s
          NoValue,      \* the value is not there
          Builtin,      \* the values the program comes with
          ConfigFile,   \* those of the configuration file, or NoValue
          CommandLine,  \* those given on the command line, or NoValue
          MaxWrites     \* bound: how often others write

ASSUME SettingsAssumption ==
  /\ NoSim \notin Sims
  /\ \A s \in Sims, k \in Keys : Written[s][k] \subseteq Int
  /\ NoValue \notin Int
  /\ Builtin \in [Keys -> Nat]
  /\ ConfigFile \in [Keys -> Int \cup {NoValue}]
  /\ CommandLine \in [Keys -> Nat \cup {NoValue}]
  /\ MaxWrites \in Nat

VARIABLES store,     \* dconf below /imsi/<IMSI>/mms/
          legacy,    \* dconf below /<IMSI>/, where older versions had it
          attached,  \* dconf->imsi, dconf->dir
          data,      \* dconf->imsi_data
          changes,   \* changes of watched values nobody was told of yet
          writes     \* how often others have written

settingsVars == <<store, legacy, attached, data, changes, writes>>

(* Settings that the command line fixes: the MMS_SETTINGS_FLAG_OVERRIDE flags *)
Override == {k \in Keys : CommandLine[k] # NoValue}

(* settings->sim_defaults.  A number of the file counts if it is positive. *)
SimDefaults ==
  [k \in Keys |-> CASE k \in Override -> CommandLine[k]
                    [] k \notin Override /\ ConfigFile[k] \in Nat \ {0}
                         -> ConfigFile[k]
                    [] OTHER -> Builtin[k]]

(* mms_settings_dconf_get_uint32: what cannot be converted is left *)
Updated(current, value) == IF value \in Nat THEN value ELSE current

Empty == [k \in Keys |-> NoValue]

AllWritten == UNION {Written[s][k] : s \in Sims, k \in Keys}

SettingsInit ==
  /\ store = [s \in Sims |-> Empty]
  /\ legacy \in [Sims -> [Keys -> AllWritten \cup {NoValue}]]
  /\ \A s \in Sims, k \in Keys :
       legacy[s][k] \in Written[s][k] \cup {NoValue}
  /\ attached = NoSim
  /\ data = [k \in Keys |-> 0]
  /\ changes = {}
  /\ writes = 0

(* Seeded fault: the values of the last SIM are not replaced. *)
BaseOfAnother(s) == data

(* mms_settings_sim_data_copy, before the values of a SIM are read *)
Base(s) == SimDefaults

(* mms_settings_dconf_get_sim_data for a SIM that is not the one attached.
   copied: the old values written to the new place; removed: those then taken
   away from the old one. *)
Attach(s) ==
  \E copied \in SUBSET {k \in Keys : legacy[s][k] # NoValue} :
  \E removed \in SUBSET copied :
    /\ store' = [store EXCEPT ![s] =
         [k \in Keys |-> IF k \in copied THEN legacy[s][k] ELSE @[k]]]
    /\ legacy' = [legacy EXCEPT ![s] =
         [k \in Keys |-> IF k \in removed THEN NoValue ELSE @[k]]]
    /\ attached' = s
    /\ data' = [k \in Keys |-> Updated(Base(s)[k], store'[s][k])]
    /\ UNCHANGED <<changes, writes>>

(* mms_settings_get_sim_data for a task of SIM s.  Its result is data'. *)
GetSimData(s) ==
  \/ attached # s /\ Attach(s)
  \/ attached = s /\ UNCHANGED settingsVars

(* Somebody changes or removes a value.  What is watched is signalled. *)
Write(s, k) ==
  /\ writes < MaxWrites
  /\ writes' = writes + 1
  /\ \E v \in (Written[s][k] \cup {NoValue}) \ {store[s][k]} :
       store' = [store EXCEPT ![s][k] = v]
  /\ changes' = IF attached = s THEN changes \cup {<<s, k>>} ELSE changes
  /\ UNCHANGED <<legacy, attached, data>>

(* mms_settings_dconf_changed, mms_settings_dconf_key_changed: only what is
   below the directory counts, the value is read when the change is heard of,
   and one that is gone stays in use *)
Changed(s, k) ==
  /\ <<s, k>> \in changes
  /\ changes' = changes \ {<<s, k>>}
  /\ data' = IF attached = s /\ k \notin Override
             THEN [data EXCEPT ![k] = Updated(@, store[s][k])]
             ELSE data
  /\ UNCHANGED <<store, legacy, attached, writes>>

SettingsNext ==
  \/ \E s \in Sims : GetSimData(s)
  \/ \E s \in Sims, k \in Keys : Write(s, k) \/ Changed(s, k)

-----------------------------------------------------------------------------
SettingsTypeOK ==
  /\ store \in [Sims -> [Keys -> Int \cup {NoValue}]]
  /\ legacy \in [Sims -> [Keys -> Int \cup {NoValue}]]
  /\ attached \in Sims \cup {NoSim}
  /\ data \in [Keys -> Nat]
  /\ changes \subseteq Sims \X Keys
  /\ writes \in 0..MaxWrites

(* The values that may be used for SIM s: what was written for it, or the
   default *)
Own(s, k) == (Written[s][k] \cap Nat) \cup {SimDefaults[k]}
=============================================================================
