---------------------------- MODULE PaketScreens ----------------------------
(* What the screens of laravel-paket offer: the server lists the installed  *)
(* packages (CollectAction), the page keeps the list (store.js), and cards, *)
(* requirements and suggestions offer to install or to uninstall by it.     *)
(* One job runs at a time; the list may be older than what is installed.    *)
EXTENDS Naturals, Sequences, Filters

CONSTANTS
    Order,          \* the names of the packages, as composer.lock sorts them
    Protected,      \* protectedRequirements
    Pakets,         \* the packages that have a card
    Suggest         \* the names each package suggests

ASSUME OrderAssumption == Order \in Seq({Order[i] : i \in 1 .. Len(Order)})

\* The cards are written down in the code, and none is of a protected package.
ASSUME CardsAssumption == \A p \in Pakets : p.name \notin Protected

VARIABLES
    installed,      \* composer.lock and composer.json
    requirements,   \* state.requirements: what was listed last
    offered         \* the job a click has posted

scVars == <<installed, requirements, offered>>

-----------------------------------------------------------------------------
(* A package is in packages or in packages-dev of the lock, and may be      *)
(* required by composer.json itself, which makes it a root.                 *)

Names == {Order[i] : i \in 1..Len(Order)}
NotThere == [in |-> "nothing", by |-> "nobody"]
States == [in : {"packages"}, by : {"nobody", "require", "require-dev"}]
          \cup [in : {"packages-dev"}, by : {"nobody", "require-dev"}] \cup {NotThere}
IsRoot(n) == installed[n].by # "nobody"
Listed(list) == Only(Order, {n \in Names : installed[n].in = list})
Roots(s) == Only(s, {n \in Names : IsRoot(n)})
Others(s) == Only(s, {n \in Names : ~IsRoot(n)})
Final(s, else) == IF s = <<>> THEN else ELSE <<s[Len(s)]>>

\* A package as the list has it, with its isDevelopment.
Requirement(n) == [name |-> n, dev |-> installed[n].in = "packages-dev"]
Named(s) == [i \in DOMAIN s |-> Requirement(s[i])]

-----------------------------------------------------------------------------
(* CollectAction.  The loops that set isDevelopment leave $package a        *)
(* reference to the last place of packages-dev, and each loop after them    *)
(* writes what it looks at there: that place reads as whatever came last.   *)

DevListed == Listed("packages-dev")
FirstDev == IF DevListed = <<>> THEN <<>> ELSE SubSeq(DevListed, 1, Len(DevListed) - 1)
AliasedRoot == IF DevListed = <<>> THEN <<>> ELSE Final(FirstDev, Final(Listed("packages"), DevListed))
AliasedOther ==
    IF Others(AliasedRoot) = <<>> THEN <<>>
    ELSE Final(Others(FirstDev), Final(Others(Listed("packages")), AliasedRoot))

CollectAction ==
    [roots |-> [essential |-> Named(Roots(Listed("packages"))), dev |-> Named(Roots(FirstDev \o AliasedRoot))],
     dependencies |-> [essential |-> Named(Others(Listed("packages"))),
                       dev |-> Named(Others(FirstDev) \o AliasedOther)]]

Unread == [roots |-> [essential |-> <<>>, dev |-> <<>>], dependencies |-> [essential |-> <<>>, dev |-> <<>>]]

-----------------------------------------------------------------------------
(* What the page makes of it.                                               *)

getRequirements(level, environment) ==
    LET s == requirements[level][environment] IN {s[i] : i \in DOMAIN s}
AllOf(level) == getRequirements(level, "essential") \cup getRequirements(level, "dev")
isRequirementInstalled(n) == \E r \in AllOf("roots") \cup AllOf("dependencies") : r.name = n
isNotProtectedRequirement(n) == n \notin Protected

InstallOf(r) == [kind |-> "install", what |-> r]
Uninstall(r) == [kind |-> "uninstall", what |-> r]
Nothing == [kind |-> "none", what |-> [name |-> Order[1], dev |-> FALSE]]

\* PaketCard: one of two buttons, whatever requires the package.
CardOffers ==
    {IF isRequirementInstalled(p.name) THEN Uninstall(p) ELSE InstallOf(p) : p \in Pakets}

\* Requirement: a root that is not protected may be uninstalled.
RequirementOffers == {Uninstall(r) : r \in {q \in AllOf("roots") : isNotProtectedRequirement(q.name)}}

\* Mutant: protected ones too.
UninstallableUnchecked(n) == isRequirementInstalled(n)

isUninstallable(n) == isRequirementInstalled(n) /\ isNotProtectedRequirement(n)
isInstallable(n) == ~isRequirementInstalled(n) /\ isNotProtectedRequirement(n)

\* Suggestions: what is listed hands its own isDevelopment on.
Suggested == UNION {[name : Suggest[r.name], dev : {r.dev}] : r \in AllOf("roots") \cup AllOf("dependencies")}
SuggestionOffers ==
    {InstallOf(s) : s \in {t \in Suggested : isInstallable(t.name)}}
    \cup {Uninstall(s) : s \in {t \in Suggested : isUninstallable(t.name)}}

\* InstallForm: whatever is typed.
FormOffers == {InstallOf(r) : r \in [name : Names, dev : BOOLEAN]}

-----------------------------------------------------------------------------
ScInit ==
    /\ installed \in [Names -> States]
    /\ \A n \in Names : n \in Protected => installed[n] = [in |-> "packages", by |-> "require"]
    /\ requirements = Unread /\ offered = Nothing

\* The buttons are disabled while a job is under way.
Click ==
    /\ offered = Nothing
    /\ offered' \in CardOffers \cup RequirementOffers \cup SuggestionOffers \cup FormOffers
    /\ UNCHANGED <<installed, requirements>>

collectRequirements ==
    requirements' = CollectAction /\ UNCHANGED <<installed, offered>>

\* Composer puts the package where it is asked to, or takes the requirement
\* away; what nothing requires comes and goes as the others need it.
Where(r) == IF r.dev THEN "require-dev" ELSE "require"
ComposerDone ==
    LET n == offered.what.name  by == Where(offered.what)
    IN /\ offered # Nothing /\ offered' = Nothing /\ UNCHANGED requirements
       /\ installed' \in [Names -> States]
       /\ \A m \in Names \ {n} : installed'[m].by = installed[m].by
       /\ \/ offered.kind = "install" /\ installed'[n].by = by
          \/ offered.kind = "uninstall" /\ installed[n].by = by /\ installed'[n].by = "nobody"

\* Composer fails, or the section has no such requirement.
ComposerFails ==
    offered # Nothing /\ offered' = Nothing /\ UNCHANGED <<installed, requirements>>

ScNext == Click \/ collectRequirements \/ ComposerDone \/ ComposerFails
ScSpec == ScInit /\ [][ScNext]_scVars

-----------------------------------------------------------------------------
\* No click takes a protected package out of composer.json, however old the
\* list is that the buttons were made from.
ProtectedStays == \A n \in Names : n \in Protected => IsRoot(n)

\* For all that the reference does, every installed package is in the list,
\* except perhaps the last of packages-dev, and nothing else is.
ListsAllButTheLast ==
    LET list == CollectAction
        there == {n \in Names : installed[n] # NotThere}
        At(l, e) == {list[l][e][i].name : i \in DOMAIN list[l][e]}
    IN /\ \A l \in DOMAIN list, e \in {"essential", "dev"} : At(l, e) \subseteq there
       /\ \A n \in there : \/ \E l \in DOMAIN list, e \in {"essential", "dev"} : n \in At(l, e)
                          \/ n = DevListed[Len(DevListed)]

\* The screens offer what can be done and show what is installed.
ScreensTrue == ProtectedStays /\ ListsAllButTheLast
=============================================================================
