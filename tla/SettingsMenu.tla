---------------------------- MODULE SettingsMenu ----------------------------
(***************************************************************************)
(* The settings of the touch-screen devices: src/src/ui/menu_nbgl.c.  A    *)
(* setting lives in three places: the storage of the device, the switch    *)
(* that the application describes to the graphics library, and the toggle  *)
(* the user sees.  All three are TRUE for ON_STATE.                        *)
(***************************************************************************)
EXTENDS Naturals

CONSTANTS
  Settings,    \* allow_blind_sign, pubkey_display, display_mode
  MaxTouches   \* touches of a switch in one visit to its page

VARIABLES
  screen,      \* "home" or anything that replaces it, "infos", or "switches"
  N_storage,   \* what the handlers read, kept when the application ends
  G_switches,  \* initState of the switches of the application
  toggles,     \* what the library shows, while the switches are on the screen
  touches      \* history: touches of each switch since its page was opened

vars == <<screen, N_storage, G_switches, toggles, touches>>

AllOff == [s \in Settings |-> FALSE]
Untouched == [s \in Settings |-> 0]

\* Settings of an earlier session in the storage, globals zero.
Init ==
  /\ screen = "home"
  /\ N_storage \in [Settings -> BOOLEAN]
  /\ G_switches = AllOff
  /\ toggles = AllOff
  /\ touches = Untouched

\* ui_menu_settings, whose first page has the version and the developer.
OpenSettings ==
  /\ screen = "home"
  /\ screen' = "infos"
  /\ UNCHANGED <<N_storage, G_switches, toggles, touches>>

\* settings_nav_callback that describes the switches as they were.
NavigateWithoutReading ==
  /\ screen = "infos"
  /\ screen' = "switches"
  /\ toggles' = G_switches
  /\ touches' = Untouched
  /\ UNCHANGED <<N_storage, G_switches>>

\* settings_nav_callback(1): the storage is read again, and the library draws the
\* switches it is given.
NavigateToSwitches ==
  /\ screen = "infos"
  /\ screen' = "switches"
  /\ G_switches' = N_storage
  /\ toggles' = N_storage
  /\ touches' = Untouched
  /\ UNCHANGED N_storage

\* settings_nav_callback(0).
NavigateToInfos ==
  /\ screen = "switches"
  /\ screen' = "infos"
  /\ UNCHANGED <<N_storage, G_switches, toggles, touches>>

\* settings_controls_callback.  The library turns the toggle over on its own and
\* does not ask for the page again.
Touch(s) ==
  /\ screen = "switches"
  /\ touches[s] < MaxTouches
  /\ N_storage' = [N_storage EXCEPT ![s] = ~G_switches[s]]
  /\ toggles' = [toggles EXCEPT ![s] = ~@]
  /\ touches' = [touches EXCEPT ![s] = @ + 1]
  /\ UNCHANGED <<screen, G_switches>>

\* Back to ui_idle, or a request of the host puts a review in the menu's place.
Leave ==
  /\ screen # "home"
  /\ screen' = "home"
  /\ UNCHANGED <<N_storage, G_switches, toggles, touches>>

\* The application ends and is started again.
Restart ==
  /\ screen' = "home"
  /\ G_switches' = AllOff
  /\ toggles' = AllOff
  /\ touches' = Untouched
  /\ UNCHANGED N_storage

Next ==
  \/ OpenSettings
  \/ NavigateToSwitches
  \/ NavigateToInfos
  \/ \E s \in Settings : Touch(s)
  \/ Leave
  \/ Restart

Spec == Init /\ [][Next]_vars

-----------------------------------------------------------------------------
(* Properties. *)

\* What the page shows and what the handlers go by agree as long as no switch has
\* been touched twice, and again after every odd number of touches: whatever the
\* user did in an earlier visit or session does not matter.
PageShowsSettings ==
  screen = "switches" =>
    \A s \in Settings :
      (toggles[s] = N_storage[s]) <=> (touches[s] = 0 \/ touches[s] % 2 = 1)

-----------------------------------------------------------------------------
(* What the source says and the code does not do. *)

\* menu_nbgl.c:86: "Write in NVM the opposit of what the current toggle is", which
\* is what the user sees when he touches it.
TouchWritesOpposite ==
  [][\A s \in Settings : Touch(s) => N_storage'[s] = ~toggles[s]]_vars
=============================================================================
