------------------------------ MODULE PanelDock ------------------------------
(***************************************************************************)
(* config/plugins/tui/workspace-panel.jsx: the dock zones around the chat. *)
(* A pinned zone takes its room by padding a box of the host that the      *)
(* panel finds by looking around its anchor.  The layout is done in a      *)
(* microtask, tried again while there is no such box, and the box of the   *)
(* host may change or go at any time.                                      *)
(*                                                                         *)
(* The view a zone shows is left out; the host's own padding counts as 0.  *)
(***************************************************************************)
EXTENDS Naturals

CONSTANTS Sides,            \* PANEL_SIDES
          Hosts,            \* boxes of the host that may be padded
          NoHost,           \* none of them
          MinSize, MaxSize, \* the clamp of extent
          MaxZoneChanges    \* bound: changes of a zone

ASSUME DockAssumption == NoHost \notin Hosts /\ MinSize \in Nat \ {0, 1} /\ MaxSize \in Nat

VARIABLES zones,         \* workspace-panel.state
          hostFound,     \* what findDockTarget would find
          padding,       \* padding[h]: what is added to the host's own
          dockTarget, baseline,
          dockScheduled, \* a microtask is to lay out the dock
          dockRetry,     \* the timer that tries again
          mounted,       \* the slot is rendered
          dockDisposed,  \* the plugin was disposed
          zoneChanges    \* changes so far, for the bound

dockVars == <<zones, hostFound, padding, dockTarget, baseline, dockScheduled, dockRetry,
              mounted, dockDisposed, zoneChanges>>

Handle == 1
FreshZone == [enabled |-> FALSE, pinned |-> TRUE, collapsed |-> FALSE, size |-> MinSize]
Nothing == [side \in Sides |-> 0]

Extent(zone) == CASE ~zone.enabled -> 0
                  [] zone.enabled /\ zone.collapsed -> Handle
                  [] OTHER -> zone.size
Reserved == [side \in Sides |-> IF zones[side].pinned THEN Extent(zones[side]) ELSE 0]

-----------------------------------------------------------------------------
(* syncDockLayout *)

\* Faulty variant: the box padded before keeps the padding.
RestoredNever == padding
\* restoreDockTarget
RestoredHost ==
  IF dockTarget = NoHost THEN padding ELSE [padding EXCEPT ![dockTarget] = baseline]

DropTarget == padding' = RestoredHost /\ dockTarget' = NoHost /\ baseline' = Nothing

FoundHost == IF mounted THEN hostFound ELSE NoHost

\* armed: the timer that tries again is still to fire.
LayOut(armed) ==
  /\ dockScheduled' = FALSE
  /\ dockRetry' = (armed \/ FoundHost = NoHost)
  /\ IF FoundHost = NoHost THEN DropTarget
     ELSE /\ dockTarget' = FoundHost
          /\ baseline' = IF dockTarget = FoundHost THEN baseline ELSE padding[FoundHost]
          /\ padding' = [(IF dockTarget = FoundHost THEN padding ELSE RestoredHost) EXCEPT
                           ![FoundHost] = [side \in Sides |-> baseline'[side] + Reserved[side]]]
  /\ UNCHANGED <<zones, hostFound, mounted, dockDisposed, zoneChanges>>

\* The microtask of scheduleDockLayout.
SyncDockLayout == dockScheduled /\ ~dockDisposed /\ LayOut(dockRetry)

DockRetryFires == dockRetry /\ ~dockDisposed /\ LayOut(FALSE)

-----------------------------------------------------------------------------
(* mutateZone and the commands on it, from a key, the mouse or a dialog *)

ChangeZones(changed) ==
  /\ ~dockDisposed /\ zoneChanges < MaxZoneChanges
  /\ zones' = changed
  /\ zoneChanges' = zoneChanges + 1
  /\ dockScheduled' = TRUE
  /\ UNCHANGED <<hostFound, padding, dockTarget, baseline, dockRetry, mounted,
                 dockDisposed>>

MutateZone(side, zone) == ChangeZones([zones EXCEPT ![side] = zone])

\* Also setZoneView and cycleZoneView.
ShowZone(side) ==
  MutateZone(side, [zones[side] EXCEPT !.enabled = TRUE, !.collapsed = FALSE])
DisableZone(side) ==
  MutateZone(side, [zones[side] EXCEPT !.enabled = FALSE, !.collapsed = FALSE])
SetPinned(side, pinned) ==
  MutateZone(side, [zones[side] EXCEPT !.enabled = TRUE, !.pinned = pinned])
\* Also toggleZone of a zone that is shown.
SetCollapsed(side, collapsed) ==
  MutateZone(side, [zones[side] EXCEPT !.enabled = TRUE, !.collapsed = collapsed])
AdjustSize(side) ==
  \E size \in MinSize .. MaxSize : MutateZone(side, [zones[side] EXCEPT !.size = size])

ResetZones == ChangeZones([side \in Sides |-> FreshZone])

-----------------------------------------------------------------------------
(* The host, the slot and the plugin *)

HostChanges(h) ==
  /\ h # hostFound
  /\ hostFound' = h
  /\ UNCHANGED <<zones, padding, dockTarget, baseline, dockScheduled, dockRetry,
                 mounted, dockDisposed, zoneChanges>>

\* The slot is rendered: its effect and its anchor ask for a layout.
MountSlot ==
  /\ ~mounted /\ ~dockDisposed
  /\ mounted' = TRUE /\ dockScheduled' = TRUE
  /\ UNCHANGED <<zones, hostFound, padding, dockTarget, baseline, dockRetry,
                 dockDisposed, zoneChanges>>

\* onCleanup of the slot; what was scheduled still runs.
UnmountSlot ==
  /\ mounted
  /\ mounted' = FALSE
  /\ DropTarget
  /\ UNCHANGED <<zones, hostFound, dockScheduled, dockRetry, dockDisposed, zoneChanges>>

DisposeDock ==
  /\ ~dockDisposed
  /\ dockDisposed' = TRUE /\ mounted' = FALSE /\ dockRetry' = FALSE
  /\ DropTarget
  /\ UNCHANGED <<zones, hostFound, dockScheduled, zoneChanges>>

-----------------------------------------------------------------------------
\* The zones are what the last run stored, migrated.
DockInit ==
  /\ \E side \in Sides, pinned \in BOOLEAN :
       zones = [s \in Sides |-> IF s = side THEN [FreshZone EXCEPT !.enabled = TRUE, !.pinned = pinned]
                                ELSE FreshZone]
  /\ hostFound = NoHost /\ padding = [h \in Hosts |-> Nothing]
  /\ dockTarget = NoHost /\ baseline = Nothing
  /\ dockScheduled = FALSE /\ dockRetry = FALSE
  /\ mounted = FALSE /\ dockDisposed = FALSE /\ zoneChanges = 0

DockNext ==
  \/ SyncDockLayout \/ DockRetryFires \/ ResetZones
  \/ \E side \in Sides : ShowZone(side) \/ DisableZone(side) \/ AdjustSize(side)
  \/ \E side \in Sides, on \in BOOLEAN : SetPinned(side, on) \/ SetCollapsed(side, on)
  \/ \E h \in Hosts \cup {NoHost} : HostChanges(h)
  \/ MountSlot \/ UnmountSlot \/ DisposeDock

DockSpec == DockInit /\ [][DockNext]_dockVars

\* The dock keeps values of their types.
DockTypeOK ==
  /\ zones \in [Sides -> [enabled : BOOLEAN, pinned : BOOLEAN, collapsed : BOOLEAN,
                          size : MinSize .. MaxSize]]
  /\ hostFound \in Hosts \cup {NoHost} /\ dockTarget \in Hosts \cup {NoHost}
  /\ padding \in [Hosts -> [Sides -> 0 .. MaxSize]] /\ baseline \in [Sides -> 0 .. MaxSize]
  /\ {dockScheduled, dockRetry, mounted, dockDisposed} \subseteq BOOLEAN
  /\ zoneChanges \in 0 .. MaxZoneChanges

\* Only the box the dock rests on is padded, so that no box keeps room for a
\* zone after the host was laid out anew or the plugin went; what it had before
\* is never mistaken for its own.  Once a layout is done the room is that of the
\* zones, and while there is no box a timer looks for one.
DockIsExact ==
  /\ \A h \in Hosts \ {dockTarget} : padding[h] = Nothing
  /\ baseline = Nothing
  /\ dockDisposed => dockTarget = NoHost
  /\ dockTarget # NoHost /\ ~dockScheduled => padding[dockTarget] = Reserved
  /\ mounted /\ ~dockScheduled /\ dockTarget = NoHost => dockRetry
=============================================================================
