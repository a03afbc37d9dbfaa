----------------------------- MODULE DeviceLock -----------------------------
(***************************************************************************)
(* modem.DeviceLock: the guard of the one modem device.  The lock knows    *)
(* only the name of a site, never who took it; Release clears that name    *)
(* whoever calls it.  The auxiliary variable holders records who has       *)
(* acquired the device and not yet given it back, which is what the        *)
(* comment "Only one session can hold the device at a time" speaks of.     *)
(*                                                                         *)
(* The module has no specification of its own: its clients instantiate it  *)
(* and call its operations from their own actions.                         *)
(***************************************************************************)

CONSTANTS
    Clients,   \* the goroutines that may call the lock
    NoSite     \* the empty site name, which the code reads as "idle"

VARIABLES
    activeSite,   \* the site the device was acquired for, or NoSite
    holders       \* auxiliary: the clients between Acquire and Release

-----------------------------------------------------------------------------

Init ==
    /\ activeSite = NoSite
    /\ holders = {}

IsAvailable == activeSite = NoSite

\* Seeded fault: Acquire does not look whether a site is active.
Acquire_Unchecked(client, siteName) ==
    /\ activeSite' = siteName
    /\ holders' = holders \cup {client}

\* Acquire(siteName) succeeds: the lock is idle and the device file exists.
Acquire(client, siteName) ==
    /\ IsAvailable
    /\ activeSite' = siteName
    /\ holders' = holders \cup {client}

\* Acquire fails: some site is active, or os.Stat found no device.
Refuse(deviceExists) ==
    /\ ~IsAvailable \/ ~deviceExists
    /\ UNCHANGED <<activeSite, holders>>

\* Release() marks the device idle and asks nobody for a proof of ownership.
Release(client) ==
    /\ activeSite' = NoSite
    /\ holders' = holders \ {client}

-----------------------------------------------------------------------------

\* "Only one session can hold the device at a time."
Exclusion == \A c, d \in holders : c = d

\* The lock reads idle exactly when nobody holds the device.
IdleIffFree == IsAvailable <=> holders = {}
=============================================================================
