------------------------------ MODULE Services ------------------------------
(***************************************************************************)
(* The parts of the system that share no state with the lobby or a running *)
(* match, side by side: a behaviour is one of a single part, its topic,    *)
(* and leaves the others as they begin.                                    *)
(***************************************************************************)
EXTENDS FleetEditor, Accounts, Chat, Helm, Berths, Levels, Listening, Scope

VARIABLE topic

Topics == {"fleets", "accounts", "chat", "helm", "berths", "levels", "fields", "listening",
           "scope"}

serviceVars == <<topic, editorVars, accountVars, chatVars, helmVars, berthVars, levelVars,
                 listeningVars, scopeVars>>

InitServices ==
  /\ topic \in Topics
  \* What a part may begin with is chosen for the topic only.
  /\ topic # "fleets" => desk = (CHOOSE d \in Desks : TRUE)
  /\ topic # "accounts" => stay = (CHOOSE s \in Stays : TRUE) /\ engine = "sync"
  /\ topic # "chat" => evening = (CHOOSE e \in Evenings : TRUE)
  /\ topic # "berths" => /\ stone = (CHOOSE r \in RockMaps : TRUE)
                         /\ fleets = (CHOOSE r \in Rosters : TRUE)
  /\ topic # "levels" => tuning = (CHOOSE t \in Tunings : TRUE)
  /\ topic \notin {"fields", "listening"} => rock = (CHOOSE c \in Caverns : TRUE)
  /\ topic # "listening" => entities = (CHOOSE c \in Crews : TRUE)
  /\ topic # "scope" => outlook = (CHOOSE o \in Outlooks : TRUE)
  /\ InitEditor /\ InitAccounts /\ InitChat /\ InitHelm /\ InitBerths /\ InitLevels /\ InitListening
  /\ InitScope

NextServices ==
  /\ UNCHANGED topic
  /\ \/ /\ topic = "fleets" /\ NextEditor
        /\ UNCHANGED <<accountVars, chatVars, helmVars, berthVars, levelVars, listeningVars, scopeVars>>
     \/ /\ topic = "accounts" /\ NextAccounts
        /\ UNCHANGED <<editorVars, chatVars, helmVars, berthVars, levelVars, listeningVars, scopeVars>>
     \/ /\ topic = "chat" /\ NextChat
        /\ UNCHANGED <<editorVars, accountVars, helmVars, berthVars, levelVars, listeningVars, scopeVars>>
     \/ /\ topic = "helm" /\ NextHelm
        /\ UNCHANGED <<editorVars, accountVars, chatVars, berthVars, levelVars, listeningVars, scopeVars>>
     \/ /\ topic = "berths" /\ NextBerths
        /\ UNCHANGED <<editorVars, accountVars, chatVars, helmVars, levelVars, listeningVars, scopeVars>>
     \/ /\ topic = "levels" /\ NextLevels
        /\ UNCHANGED <<editorVars, accountVars, chatVars, helmVars, berthVars, listeningVars, scopeVars>>
     \/ /\ topic = "fields" /\ NextSound
        /\ UNCHANGED <<editorVars, accountVars, chatVars, helmVars, berthVars, levelVars,
                        entities, work, vision, scopeVars>>
     \/ /\ topic = "listening" /\ NextListening
        /\ UNCHANGED <<editorVars, accountVars, chatVars, helmVars, berthVars, levelVars, scopeVars>>
     \/ /\ topic = "scope" /\ NextScope
        /\ UNCHANGED <<editorVars, accountVars, chatVars, helmVars, berthVars, levelVars,
                        listeningVars>>

SpecServices == InitServices /\ [][NextServices]_serviceVars

\* Every part is well-formed, the one that is looked at and those that are not.
ServicesTypeOK ==
  /\ topic \in Topics
  /\ EditorTypeOK /\ AccountsTypeOK /\ ChatTypeOK /\ HelmTypeOK /\ ScopeTypeOK

\* A match begins on sound water: the cave its map is planned on keeps its trunk and its levels
\* apart, and every boat of a fleet is put down in water it can lie in.
StartIsSound == BerthsAreSound /\ PlanIsSound
=============================================================================
