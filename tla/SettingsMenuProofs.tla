------------------------- MODULE SettingsMenuProofs -------------------------
(***************************************************************************)
(* The settings page, for every set of settings and any number of touches. *)
(***************************************************************************)
EXTENDS SettingsMenu, TLAPS

SwitchesTypeOK ==
  /\ N_storage \in [Settings -> BOOLEAN]
  /\ G_switches \in [Settings -> BOOLEAN]
  /\ toggles \in [Settings -> BOOLEAN]
  /\ touches \in [Settings -> Nat]

\* While the switches are shown, the description of a switch is what the storage was
\* when the page opened, a touched setting is its opposite, and the toggle has
\* turned over with every touch.
PageInv ==
  screen = "switches" =>
    \A s \in Settings :
      /\ N_storage[s] = IF touches[s] = 0 THEN G_switches[s] ELSE ~G_switches[s]
      /\ toggles[s] = IF touches[s] % 2 = 0 THEN G_switches[s] ELSE ~G_switches[s]

SettingsInv == SwitchesTypeOK /\ PageInv

\* One more touch changes the parity.
LEMMA ParityOfNext ==
  ASSUME NEW n \in Nat
  PROVE  (n + 1) % 2 = 0 <=> n % 2 # 0
BY SMT

\* The page is right when the program starts.
LEMMA SettingsInit == Init => SettingsInv
BY DEF Init, SettingsInv, SwitchesTypeOK, PageInv, AllOff, Untouched

\* Every step keeps it right; only Touch has to be looked at closely.
LEMMA SettingsStep == SettingsInv /\ [Next]_vars => SettingsInv'
<1> SUFFICES ASSUME SettingsInv, [Next]_vars PROVE SettingsInv'
  OBVIOUS
<1> USE DEF SettingsInv, SwitchesTypeOK
<1>1. CASE OpenSettings
  BY <1>1 DEF OpenSettings, PageInv
<1>2. CASE NavigateToSwitches
  <2>1. SwitchesTypeOK'
    BY <1>2 DEF NavigateToSwitches, Untouched
  <2>2. PageInv'
    <3> SUFFICES ASSUME NEW s \in Settings
                 PROVE  /\ touches'[s] = 0
                        /\ N_storage'[s] = G_switches'[s]
                        /\ toggles'[s] = G_switches'[s]
      BY SMT DEF PageInv
    <3> QED BY <1>2 DEF NavigateToSwitches, Untouched
  <2> QED BY <2>1, <2>2
<1>3. CASE NavigateToInfos
  BY <1>3 DEF NavigateToInfos, PageInv
<1>4. ASSUME NEW s \in Settings, Touch(s) PROVE SettingsInv'
  <2>1. SwitchesTypeOK'
    BY <1>4 DEF Touch
  <2>2. ASSUME NEW r \in Settings, r # s
        PROVE  /\ N_storage'[r] = N_storage[r] /\ toggles'[r] = toggles[r]
               /\ touches'[r] = touches[r] /\ G_switches'[r] = G_switches[r]
    BY <1>4, <2>2 DEF Touch
  <2>3. /\ N_storage'[s] = ~G_switches[s] /\ toggles'[s] = ~toggles[s]
        /\ touches'[s] = touches[s] + 1 /\ G_switches' = G_switches
    BY <1>4 DEF Touch
  <2>4. /\ touches'[s] # 0
        /\ touches'[s] % 2 = 0 <=> touches[s] % 2 # 0
    BY <2>3, ParityOfNext
  <2>5. screen = "switches"
    BY <1>4 DEF Touch
  <2>6. /\ N_storage[s] = (IF touches[s] = 0 THEN G_switches[s] ELSE ~G_switches[s])
        /\ toggles[s] = (IF touches[s] % 2 = 0 THEN G_switches[s] ELSE ~G_switches[s])
        /\ G_switches[s] \in BOOLEAN
    BY <2>5 DEF PageInv
  <2>7. /\ N_storage'[s] = (IF touches'[s] = 0 THEN G_switches'[s] ELSE ~G_switches'[s])
        /\ toggles'[s] = (IF touches'[s] % 2 = 0 THEN G_switches'[s] ELSE ~G_switches'[s])
    <3>1. toggles'[s] = (IF touches'[s] % 2 = 0 THEN G_switches[s] ELSE ~G_switches[s])
      BY <2>3, <2>4, <2>6, Zenon
    <3> QED BY <2>3, <2>4, <3>1, Zenon
  <2>8. PageInv'
    <3> SUFFICES ASSUME NEW r \in Settings
                 PROVE  /\ N_storage'[r] =
                             (IF touches'[r] = 0 THEN G_switches'[r] ELSE ~G_switches'[r])
                        /\ toggles'[r] =
                             (IF touches'[r] % 2 = 0 THEN G_switches'[r] ELSE ~G_switches'[r])
      BY DEF PageInv
    <3>1. CASE r = s
      BY <2>7, <3>1, Zenon
    <3>2. CASE r # s
      <4>1. /\ N_storage[r] = (IF touches[r] = 0 THEN G_switches[r] ELSE ~G_switches[r])
            /\ toggles[r] = (IF touches[r] % 2 = 0 THEN G_switches[r] ELSE ~G_switches[r])
        BY <2>5, Zenon DEF PageInv
      <4> QED BY <2>2, <3>2, <4>1, Zenon
    <3> QED BY <3>1, <3>2
  <2> QED BY <2>1, <2>8
<1>5. CASE Leave
  BY <1>5 DEF Leave, PageInv
<1>6. CASE Restart
  BY <1>6 DEF Restart, PageInv, AllOff, Untouched
<1>7. CASE UNCHANGED vars
  BY <1>7 DEF vars, PageInv
<1> QED BY <1>1, <1>2, <1>3, <1>4, <1>5, <1>6, <1>7 DEF Next

\* What was shown is what the properties of the page say.
LEMMA PageOfInv == SettingsInv => PageShowsSettings
<1> SUFFICES ASSUME SettingsInv, screen = "switches", NEW s \in Settings
             PROVE  (toggles[s] = N_storage[s]) <=> (touches[s] = 0 \/ touches[s] % 2 = 1)
  BY DEF PageShowsSettings
<1>1. touches[s] \in Nat /\ G_switches[s] \in BOOLEAN
  BY DEF SettingsInv, SwitchesTypeOK
<1>2. /\ touches[s] = 0 => touches[s] % 2 = 0
      /\ touches[s] % 2 = 1 <=> touches[s] % 2 # 0
  BY <1>1, SMT
<1>3. /\ N_storage[s] = IF touches[s] = 0 THEN G_switches[s] ELSE ~G_switches[s]
      /\ toggles[s] = IF touches[s] % 2 = 0 THEN G_switches[s] ELSE ~G_switches[s]
  BY DEF SettingsInv, PageInv
<1> QED BY <1>1, <1>2, <1>3, Zenon

\* Whatever the user touches, in this visit or before it, the page and the storage
\* agree unless a switch has been touched an even number of times.
THEOREM PageIsFaithful == Spec => []PageShowsSettings
BY SettingsInit, SettingsStep, PageOfInv, PTL DEF Spec
=============================================================================
