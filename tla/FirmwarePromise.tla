---------------------------- MODULE FirmwarePromise ----------------------------
(***************************************************************************)
(* What a firmware update job promises Contractor: a target only ever goes *)
(* from another version to the wanted one, and the job is complete only    *)
(* when every target it names has it.  The steps by which disks/firmware   *)
(* gets there (handlers, downloads, reboots, errors) are in Firmware.      *)
(***************************************************************************)
CONSTANTS
  Targets,      \* the devices with firmware
  Versions

VARIABLES
  want,         \* the wanted version of each target the job names
  flashed,      \* the version in the flash memory of each target
  told          \* what Contractor has heard of the job

promiseVars == <<want, flashed, told>>

PromiseInit ==
  /\ DOMAIN want \subseteq Targets
  /\ flashed \in [Targets -> Versions]
  /\ told = {}

Current == \A t \in DOMAIN want : flashed[t] = want[t]

Flash(t) ==
  /\ flashed[t] # want[t]
  /\ flashed' = [flashed EXCEPT ![t] = want[t]]
  /\ UNCHANGED <<want, told>>

Complete ==
  /\ Current
  /\ told' = told \cup {"complete"}
  /\ UNCHANGED <<want, flashed>>

Alert ==
  /\ told' = told \cup {"alert"}
  /\ UNCHANGED <<want, flashed>>

PromiseNext == Complete \/ Alert \/ \E t \in DOMAIN want : Flash(t)

Promise == PromiseInit /\ [][PromiseNext]_promiseVars
=============================================================================
