----------------------------- MODULE MachineProofs -----------------------------
(***************************************************************************)
(* The keys in ~/.lium/config.ini (AccountKeys) and the clusters that are  *)
(* bought (Clusters): for any number of processes, accounts, workspaces    *)
(* and ranks.  And what MCMachine puts together, with the invariants of    *)
(* SharedFilesProofs and ProviderProofs.                                   *)
(***************************************************************************)
EXTENDS MCMachine, SharedFilesProofs, ProviderProofs, FiniteSetTheorems, TLAPS

(* ~/.lium/config.ini and the account's keys (AccountKeys).                *)

(* What is left of a command, by what it comes to next.                    *)
AccountRests ==
  {<<"account", "key", "ssh", "billing", "tag", "show">>, <<"account", "key", "ssh", "show">>,
   <<"account", "fingerprint", "key", "ssh", "billing", "tag", "show">>,
   <<"account", "fingerprint", "key", "ssh", "show">>}
FingerprintRests ==
  {<<"fingerprint", "key", "ssh", "billing", "tag", "show">>,
   <<"fingerprint", "key", "ssh", "show">>}
KeyRests == {<<"key", "ssh", "billing", "tag", "show">>, <<"key", "ssh", "show">>}
BillingRests == {<<"ssh", "billing", "tag", "show">>, <<"billing", "tag", "show">>}
ShowRests == {<<"ssh", "show">>, <<"show">>}
TagRest == <<"tag", "show">>
SectionRests ==
  {<<"mint", "id", "team_key">>, <<"active", "id", "team_key">>, <<"id", "team_key">>}
OtherRests ==
  {<<>>, <<"ssh">>, <<"unset_key">>, <<"unset_billing">>, <<"unset_fingerprint">>, <<"active">>,
   <<"forget", "inactive">>, <<"inactive">>}
OfAccount ==
  FingerprintRests \cup KeyRests \cup BillingRests \cup ShowRests \cup {TagRest, <<"login", "ssh">>}
Rests == AccountRests \cup OfAccount \cup SectionRests \cup {<<"team_key">>} \cup OtherRests

KeysTypes ==
  /\ file \in Options /\ view \in [Shells -> Options \cup {NotSet}] /\ todo \in [Shells -> Rests]
  /\ whose \in [Shells -> Accounts \cup Teams \cup {NotSet}]
  /\ existing \subseteq Accounts /\ told \subseteq Accounts /\ shown \subseteq Accounts

(* Whom a command works for, and what its view has by now.                 *)
OneSection(o) == o.teamKey # NotSet => o.teamKey = o.id
Knows(rest, o, who) ==
  /\ o \in Options /\ OneSection(o)
  /\ rest \in OfAccount => who \in Accounts
  /\ rest \in BillingRests \cup {TagRest} => o.key = who
  /\ rest = TagRest => o.billing = who
  /\ rest \in AccountRests \cup FingerprintRests => o.fingerprint = NotSet
  /\ rest \in SectionRests => who \in Teams /\ Free(o, who)
  /\ rest = <<"team_key">> => who \in Teams /\ o.id = who
ShellKnows(s) == todo[s] # <<>> => Knows(todo[s], view[s], whose[s])

(* A billing key has its tag, but for the moment before it is written.     *)
Bound(o) == o.billing # NotSet => o.tag = o.billing
BillingIsBound ==
  ~halfBound =>
    /\ Bound(file) \/ BetweenTheTwo
    /\ file.tag # NotSet /\ file.tag = file.key /\ file.billing # NotSet => file.billing = file.key
    /\ \A s \in Shells : todo[s] # <<>> => Bound(view[s]) \/ todo[s] = TagRest

KeysInv ==
  /\ KeysTypes /\ (\A s \in Shells : ShellKnows(s))
  /\ BillingIsBound /\ LoginIsKept /\ OneSection(file)

(* The step each rest begins with, and what comes after it.                *)
LEMMA RestSteps ==
  /\ \A r \in AccountRests : Head(r) = "account" /\ Tail(r) \in FingerprintRests \cup KeyRests
  /\ \A r \in FingerprintRests : Head(r) = "fingerprint" /\ Tail(r) \in KeyRests
  /\ \A r \in KeyRests :
       Head(r) = "key" /\ Tail(r) \in {<<"ssh", "show">>, <<"ssh", "billing", "tag", "show">>}
  /\ Head(<<"ssh", "billing", "tag", "show">>) = "ssh"
  /\ Tail(<<"ssh", "billing", "tag", "show">>) = <<"billing", "tag", "show">>
  /\ Head(<<"billing", "tag", "show">>) = "billing" /\ Tail(<<"billing", "tag", "show">>) = TagRest
  /\ Head(TagRest) = "tag" /\ Tail(TagRest) = <<"show">>
  /\ Head(<<"ssh", "show">>) = "ssh" /\ Tail(<<"ssh", "show">>) = <<"show">>
  /\ Head(<<"show">>) = "show" /\ Tail(<<"show">>) = <<>>
  /\ Head(<<"login", "ssh">>) = "login" /\ Tail(<<"login", "ssh">>) = <<"ssh">>
BY DEF AccountRests, FingerprintRests, KeyRests, TagRest
LEMMA OtherSteps ==
  /\ Head(<<"mint", "id", "team_key">>) = "mint"
  /\ Tail(<<"mint", "id", "team_key">>) = <<"id", "team_key">>
  /\ Head(<<"active", "id", "team_key">>) = "active"
  /\ Tail(<<"active", "id", "team_key">>) = <<"id", "team_key">>
  /\ Head(<<"id", "team_key">>) = "id" /\ Tail(<<"id", "team_key">>) = <<"team_key">>
  /\ Head(<<"forget", "inactive">>) = "forget" /\ Tail(<<"forget", "inactive">>) = <<"inactive">>
OBVIOUS
LEMMA LastSteps ==
  /\ Head(<<"ssh">>) = "ssh" /\ Tail(<<"ssh">>) = <<>>
  /\ Head(<<"team_key">>) = "team_key" /\ Tail(<<"team_key">>) = <<>>
  /\ Head(<<"active">>) = "active" /\ Tail(<<"active">>) = <<>>
  /\ Head(<<"inactive">>) = "inactive" /\ Tail(<<"inactive">>) = <<>>
  /\ Head(<<"unset_key">>) = "unset_key" /\ Tail(<<"unset_key">>) = <<>>
  /\ Head(<<"unset_billing">>) = "unset_billing" /\ Tail(<<"unset_billing">>) = <<>>
  /\ Head(<<"unset_fingerprint">>) = "unset_fingerprint" /\ Tail(<<"unset_fingerprint">>) = <<>>
OBVIOUS

(* So the step tells which rest it is.                                     *)
LEMMA RestsApart ==
  ASSUME NEW r \in Rests
  PROVE  \/ r \in AccountRests \/ r \in FingerprintRests \/ r \in KeyRests
         \/ r = <<"ssh", "billing", "tag", "show">> \/ r = <<"billing", "tag", "show">>
            \/ r = TagRest
         \/ r = <<"ssh", "show">> \/ r = <<"show">> \/ r = <<"login", "ssh">>
         \/ r = <<"mint", "id", "team_key">> \/ r = <<"active", "id", "team_key">>
         \/ r = <<"id", "team_key">> \/ r = <<"team_key">>
         \/ r = <<>> \/ r = <<"ssh">> \/ r = <<"unset_key">> \/ r = <<"unset_billing">>
         \/ r = <<"unset_fingerprint">> \/ r = <<"active">> \/ r = <<"forget", "inactive">>
         \/ r = <<"inactive">>
BY DEF Rests, OfAccount, BillingRests, ShowRests, SectionRests, OtherRests
LEMMA NextRest ==
  ASSUME NEW r \in Rests, r # <<>>
  PROVE  /\ Head(r) = "account" => r \in AccountRests /\ Tail(r) \in FingerprintRests \cup KeyRests
         /\ Head(r) = "fingerprint" => r \in FingerprintRests /\ Tail(r) \in KeyRests
         /\ Head(r) = "key" =>
              /\ r \in KeyRests
              /\ Tail(r) \in {<<"ssh", "show">>, <<"ssh", "billing", "tag", "show">>}
         /\ Head(r) = "billing" => r = <<"billing", "tag", "show">> /\ Tail(r) = TagRest
         /\ Head(r) = "tag" <=> r = TagRest
         /\ Head(r) = "tag" => Tail(r) = <<"show">>
         /\ Head(r) = "show" => r = <<"show">> /\ Tail(r) = <<>>
         /\ Head(r) = "login" => r = <<"login", "ssh">> /\ Tail(r) = <<"ssh">>
<1> USE RestSteps, OtherSteps, LastSteps, RestsApart
<1>1. Head(r) = "account" => r \in AccountRests /\ Tail(r) \in FingerprintRests \cup KeyRests
  OBVIOUS
<1>2. Head(r) = "fingerprint" => r \in FingerprintRests /\ Tail(r) \in KeyRests
  OBVIOUS
<1>3. Head(r) = "key" => /\ r \in KeyRests
                         /\ Tail(r) \in {<<"ssh", "show">>, <<"ssh", "billing", "tag", "show">>}
  OBVIOUS
<1>4. Head(r) = "billing" => r = <<"billing", "tag", "show">> /\ Tail(r) = TagRest
  OBVIOUS
<1>5. /\ Head(r) = "tag" <=> r = TagRest
      /\ Head(r) = "tag" => Tail(r) = <<"show">>
  OBVIOUS
<1>6. Head(r) = "show" => r = <<"show">> /\ Tail(r) = <<>>
  OBVIOUS
<1>7. Head(r) = "login" => r = <<"login", "ssh">> /\ Tail(r) = <<"ssh">>
  OBVIOUS
<1> QED BY <1>1, <1>2, <1>3, <1>4, <1>5, <1>6, <1>7
LEMMA NextOtherRest ==
  ASSUME NEW r \in Rests, r # <<>>
  PROVE  /\ Head(r) = "ssh" =>
              \/ r = <<"ssh">> /\ Tail(r) = <<>>
              \/ r = <<"ssh", "show">> /\ Tail(r) = <<"show">>
              \/ r = <<"ssh", "billing", "tag", "show">> /\ Tail(r) = <<"billing", "tag", "show">>
         /\ Head(r) \in {"unset_key", "unset_billing", "unset_fingerprint", "inactive"} =>
              Tail(r) = <<>>
         /\ Head(r) = "mint" => r \in SectionRests /\ Tail(r) = <<"id", "team_key">>
         /\ Head(r) = "active" => \/ r = <<"active">> /\ Tail(r) = <<>>
                                  \/ r \in SectionRests /\ Tail(r) = <<"id", "team_key">>
         /\ Head(r) = "id" => r \in SectionRests /\ Tail(r) = <<"team_key">>
         /\ Head(r) = "team_key" => r = <<"team_key">> /\ Tail(r) = <<>>
         /\ Head(r) = "forget" => r = <<"forget", "inactive">> /\ Tail(r) = <<"inactive">>
<1>1. Head(r) = "ssh" =>
        \/ r = <<"ssh">> /\ Tail(r) = <<>>
        \/ r = <<"ssh", "show">> /\ Tail(r) = <<"show">>
        \/ r = <<"ssh", "billing", "tag", "show">> /\ Tail(r) = <<"billing", "tag", "show">>
  BY RestSteps, OtherSteps, LastSteps, RestsApart
<1>2. Head(r) \in {"unset_key", "unset_billing", "unset_fingerprint", "inactive"} => Tail(r) = <<>>
  BY RestSteps, OtherSteps, LastSteps, RestsApart
<1>3. /\ Head(r) = "mint" => r = <<"mint", "id", "team_key">> /\ Tail(r) = <<"id", "team_key">>
      /\ Head(r) = "id" => r = <<"id", "team_key">> /\ Tail(r) = <<"team_key">>
  BY RestSteps, OtherSteps, LastSteps, RestsApart
<1>4. Head(r) = "active" => \/ r = <<"active">> /\ Tail(r) = <<>>
                            \/ r = <<"active", "id", "team_key">> /\ Tail(r) = <<"id", "team_key">>
  <2>1. Head(r) = "active" => r = <<"active">> \/ r = <<"active", "id", "team_key">>
    BY RestSteps, OtherSteps, LastSteps, RestsApart
  <2>2. r = <<"active">> => Tail(r) = <<>>
    BY LastSteps
  <2>3. r = <<"active", "id", "team_key">> => Tail(r) = <<"id", "team_key">>
    BY OtherSteps
  <2> QED BY <2>1, <2>2, <2>3
<1>5. /\ Head(r) = "team_key" => r = <<"team_key">> /\ Tail(r) = <<>>
      /\ Head(r) = "forget" => r = <<"forget", "inactive">> /\ Tail(r) = <<"inactive">>
  BY RestSteps, OtherSteps, LastSteps, RestsApart
<1> QED BY <1>1, <1>2, <1>3, <1>4, <1>5 DEF SectionRests

(* No rest is of two kinds.                                                *)
LEMMA RestKinds ==
  /\ \A r \in OtherRests \cup {<<"team_key">>} :
       r \notin OfAccount /\ r \notin AccountRests /\ r \notin SectionRests
  /\ \A r \in OtherRests : r # <<"team_key">>
  /\ \A r \in SectionRests : r \notin OfAccount /\ r \notin AccountRests /\ r # <<"team_key">>
  /\ \A r \in OfAccount : r \notin AccountRests /\ r \notin OtherRests /\ r # <<"team_key">>
  /\ \A r \in KeyRests \cup ShowRests \cup {<<"login", "ssh">>} :
       r \notin BillingRests \cup {TagRest} /\ r \notin FingerprintRests
  /\ \A r \in FingerprintRests : r \notin BillingRests \cup {TagRest}
  /\ \A r \in BillingRests : r \notin FingerprintRests /\ r # TagRest
  /\ TagRest \notin FingerprintRests
  /\ \A r \in AccountRests : r \notin SectionRests /\ r # <<"team_key">> /\ r # <<>>
  /\ <<"team_key">> # <<>> /\ TagRest # <<>>
BY DEF AccountRests, FingerprintRests, KeyRests, BillingRests, ShowRests, TagRest, SectionRests,
   OtherRests, OfAccount
LEMMA KindsAreRests ==
  /\ AccountRests \subseteq Rests /\ FingerprintRests \subseteq Rests /\ KeyRests \subseteq Rests
  /\ BillingRests \subseteq Rests /\ ShowRests \subseteq Rests /\ SectionRests \subseteq Rests
  /\ OtherRests \subseteq Rests /\ TagRest \in Rests /\ <<"team_key">> \in Rests
  /\ <<"login", "ssh">> \in Rests
BY DEF Rests, OfAccount

-----------------------------------------------------------------------------
(* One process took a step: what the others know stays.                    *)
LEMMA StepKept ==
  ASSUME KeysTypes, \A t \in Shells : ShellKnows(t), NEW s \in Shells, NEW rest \in Rests,
         NEW o \in Options \cup {NotSet}, NEW who \in Accounts \cup Teams \cup {NotSet},
         StepsTo(s, rest), Keeps(s, o, who), rest # <<>> => Knows(rest, o, who)
  PROVE  /\ todo' \in [Shells -> Rests] /\ view' \in [Shells -> Options \cup {NotSet}]
         /\ whose' \in [Shells -> Accounts \cup Teams \cup {NotSet}]
         /\ \A t \in Shells : ShellKnows(t)'
         /\ todo'[s] = rest /\ (rest # <<>> => view'[s] = o)
         /\ \A t \in Shells \ {s} : todo'[t] = todo[t] /\ view'[t] = view[t]
<1> USE DEF KeysTypes
<1>1. todo' = [todo EXCEPT ![s] = rest] BY DEF StepsTo
<1>2. todo' \in [Shells -> Rests] /\ todo'[s] = rest BY <1>1
<1>3. view' = [view EXCEPT ![s] = IF rest = <<>> THEN NotSet ELSE o] BY <1>2 DEF Keeps
<1>4. whose' = [whose EXCEPT ![s] = IF rest = <<>> THEN NotSet ELSE who] BY <1>2 DEF Keeps
<1>5. view' \in [Shells -> Options \cup {NotSet}] BY <1>3
<1>6. whose' \in [Shells -> Accounts \cup Teams \cup {NotSet}] BY <1>4
<1>7. \A t \in Shells \ {s} : todo'[t] = todo[t] /\ view'[t] = view[t] /\ whose'[t] = whose[t]
  BY <1>1, <1>3, <1>4
<1>8. rest # <<>> => view'[s] = o /\ whose'[s] = who BY <1>3, <1>4
<1>9. ASSUME NEW t \in Shells PROVE ShellKnows(t)'
  <2>1. CASE t = s BY <1>2, <1>8, <2>1 DEF ShellKnows
  <2>2. CASE t # s BY <1>7, <2>2 DEF ShellKnows
  <2> QED BY <2>1, <2>2
<1> QED BY <1>2, <1>5, <1>6, <1>7, <1>8, <1>9

(* A save leaves the billing key bound, or the process is to bind it.      *)
LEMMA SaveBinds ==
  ASSUME KeysInv, NEW s \in Shells, NEW rest \in Rests, NEW o \in Options,
         todo'[s] = rest, rest # <<>> => view'[s] = o, file' = o, halfBound' = halfBound,
         \A t \in Shells \ {s} : todo'[t] = todo[t] /\ view'[t] = view[t],
         ~halfBound => Bound(o) \/ (rest = TagRest /\ o.billing = o.key)
  PROVE  BillingIsBound'
<1>1. SUFFICES ASSUME ~halfBound PROVE BillingIsBound' BY DEF BillingIsBound
<1>2. Bound(o) \/ BetweenTheTwo'
  <2>1. rest = TagRest => BetweenTheTwo'
    BY RestSteps, RestKinds DEF BetweenTheTwo, IsAt
  <2> QED BY <1>1, <2>1
<1>3. o.tag # NotSet /\ o.tag = o.key /\ o.billing # NotSet => o.billing = o.key
  BY <1>1 DEF Bound
<1>4. ASSUME NEW t \in Shells, todo'[t] # <<>> PROVE Bound(view'[t]) \/ todo'[t] = TagRest
  <2>1. CASE t = s BY <1>1, <1>4, <2>1
  <2>2. CASE t # s BY <1>1, <1>4, <2>2 DEF KeysInv, BillingIsBound
  <2> QED BY <2>1, <2>2
<1> QED BY <1>2, <1>3, <1>4 DEF BillingIsBound, Bound

(* So does a step that saves nothing, but for one at the tag.              *)
LEMMA NoSaveBinds ==
  ASSUME KeysInv, NEW s \in Shells, todo'[s] # <<>> => view'[s] = view[s] /\ todo[s] # <<>>,
         file' = file, ~halfBound' => ~halfBound /\ todo[s] # TagRest,
         \A t \in Shells \ {s} : todo'[t] = todo[t] /\ view'[t] = view[t]
  PROVE  BillingIsBound'
<1>1. SUFFICES ASSUME ~halfBound, todo[s] # TagRest PROVE BillingIsBound' BY DEF BillingIsBound
<1>2. Bound(file) \/ BetweenTheTwo'
  <2>1. SUFFICES ASSUME BetweenTheTwo PROVE BetweenTheTwo' BY <1>1 DEF KeysInv, BillingIsBound
  <2>2. PICK t \in Shells : IsAt(t, "tag") BY <2>1 DEF BetweenTheTwo
  <2>3. todo[t] = TagRest BY <2>2, NextRest DEF KeysInv, KeysTypes, IsAt
  <2> QED BY <1>1, <2>2, <2>3 DEF BetweenTheTwo, IsAt
<1>3. ASSUME NEW t \in Shells, todo'[t] # <<>> PROVE Bound(view'[t]) \/ todo'[t] = TagRest
  <2>1. CASE t = s BY <1>1, <1>3, <2>1 DEF KeysInv, BillingIsBound
  <2>2. CASE t # s BY <1>1, <1>3, <2>2 DEF KeysInv, BillingIsBound
  <2> QED BY <2>1, <2>2
<1> QED BY <1>1, <1>2, <1>3 DEF KeysInv, BillingIsBound, Bound

(* A step of a process that saves its view keeps the invariant, if what it *)
(* saves is well formed, and loses no login that is still needed.          *)
LEMMA SaveStep ==
  ASSUME KeysInv, NEW s \in Shells, NEW rest \in Rests, NEW o \in Options,
         StepsTo(s, rest), Saves(s, o), rest # <<>> => Knows(rest, o, whose[s]), OneSection(o),
         ~halfBound => Bound(o) \/ (rest = TagRest /\ o.billing = o.key),
         existing' \subseteq Accounts, told' \subseteq Accounts, shown' \subseteq Accounts,
         ~reverted /\ view[s] = file => \A a \in told' : a \in shown' \/ o.fingerprint = a
  PROVE  KeysInv'
<1>1. whose[s] \in Accounts \cup Teams \cup {NotSet} BY DEF KeysInv, KeysTypes
<1>2. Keeps(s, o, whose[s]) /\ file' = o /\ halfBound' = halfBound
      /\ (reverted' = (reverted \/ view[s] # file))
  BY DEF Saves
<1>3. /\ todo' \in [Shells -> Rests] /\ view' \in [Shells -> Options \cup {NotSet}]
      /\ whose' \in [Shells -> Accounts \cup Teams \cup {NotSet}]
      /\ \A t \in Shells : ShellKnows(t)'
      /\ todo'[s] = rest /\ (rest # <<>> => view'[s] = o)
      /\ \A t \in Shells \ {s} : todo'[t] = todo[t] /\ view'[t] = view[t]
  BY <1>1, <1>2, StepKept DEF KeysInv
<1>4. BillingIsBound' BY <1>2, <1>3, SaveBinds
<1>5. LoginIsKept' BY <1>2 DEF LoginIsKept
<1>6. OneSection(file)' BY <1>2 DEF OneSection
<1> QED BY <1>2, <1>3, <1>4, <1>5, <1>6 DEF KeysInv, KeysTypes

(* So does one that saves nothing.                                         *)
LEMMA NoSaveStep ==
  ASSUME KeysInv, NEW s \in Shells, NEW rest \in Rests,
         NEW who \in Accounts \cup Teams \cup {NotSet}, todo[s] # <<>>,
         StepsTo(s, rest), Keeps(s, view[s], who), rest # <<>> => Knows(rest, view[s], who),
         file' = file, reverted' = reverted, ~halfBound' => ~halfBound /\ todo[s] # TagRest,
         existing' \subseteq Accounts, shown \subseteq shown', shown' \subseteq Accounts,
         told' = told
  PROVE  KeysInv'
<1>1. view[s] \in Options \cup {NotSet} BY DEF KeysInv, KeysTypes
<1>2. /\ todo' \in [Shells -> Rests] /\ view' \in [Shells -> Options \cup {NotSet}]
      /\ whose' \in [Shells -> Accounts \cup Teams \cup {NotSet}]
      /\ \A t \in Shells : ShellKnows(t)'
      /\ todo'[s] = rest /\ (rest # <<>> => view'[s] = view[s])
      /\ \A t \in Shells \ {s} : todo'[t] = todo[t] /\ view'[t] = view[t]
  BY <1>1, StepKept DEF KeysInv
<1>3. BillingIsBound' BY <1>2, NoSaveBinds
<1>4. LoginIsKept' BY DEF KeysInv, LoginIsKept
<1>5. OneSection(file)' BY DEF KeysInv, OneSection
<1> QED BY <1>2, <1>3, <1>4, <1>5 DEF KeysInv, KeysTypes

(* And one that starts, with what it reads.                                *)
LEMMA StartStep ==
  ASSUME KeysInv, NEW s \in Shells, NEW steps \in Rests,
         NEW who \in Accounts \cup Teams \cup {NotSet}, Starts(s, steps, who),
         Knows(steps, file, who)
  PROVE  KeysInv'
<1>1. StepsTo(s, steps) /\ Keeps(s, file, who) /\ file' = file
      /\ UNCHANGED <<serverAndUser, reverted>>
      /\ halfBound' = (halfBound \/ BetweenTheTwo) /\ todo[s] = <<>>
  BY DEF Starts
<1>2. file \in Options BY DEF KeysInv, KeysTypes
<1>3. /\ todo' \in [Shells -> Rests] /\ view' \in [Shells -> Options \cup {NotSet}]
      /\ whose' \in [Shells -> Accounts \cup Teams \cup {NotSet}]
      /\ \A t \in Shells : ShellKnows(t)'
      /\ todo'[s] = steps /\ (steps # <<>> => view'[s] = file)
      /\ \A t \in Shells \ {s} : todo'[t] = todo[t] /\ view'[t] = view[t]
  BY <1>1, <1>2, StepKept DEF KeysInv
<1>4. BillingIsBound'
  <2>1. SUFFICES ASSUME ~halfBound, ~BetweenTheTwo PROVE BillingIsBound' BY <1>1 DEF BillingIsBound
  <2>2. Bound(file) BY <2>1 DEF KeysInv, BillingIsBound
  <2>3. ASSUME NEW t \in Shells, todo'[t] # <<>> PROVE Bound(view'[t]) \/ todo'[t] = TagRest
    BY <1>3, <2>1, <2>2, <2>3 DEF KeysInv, BillingIsBound
  <2> QED BY <1>1, <2>2, <2>3 DEF BillingIsBound, Bound
<1>5. LoginIsKept' BY <1>1 DEF KeysInv, LoginIsKept, serverAndUser
<1>6. OneSection(file)' BY <1>1 DEF KeysInv, OneSection
<1> QED BY <1>1, <1>2, <1>3, <1>4, <1>5, <1>6 DEF KeysInv, KeysTypes, serverAndUser

(* A signup and the account it makes.                                      *)
LEMMA SignupInv ==
  ASSUME KeysInv, NEW s \in Shells, NEW email \in BOOLEAN, NEW billing \in BOOLEAN,
         SignupStarts(s, email, billing)
  PROVE  KeysInv'
<1>1. SignupSteps(email, billing) \in AccountRests BY DEF SignupSteps, AccountRests
<1>2. file \in Options /\ OneSection(file) /\ file.fingerprint = NotSet
  BY DEF KeysInv, KeysTypes, SignupStarts, Refuses
<1>3. Knows(SignupSteps(email, billing), file, NotSet) BY <1>1, <1>2, RestKinds DEF Knows, OfAccount
<1> QED BY <1>1, <1>3, StartStep, KindsAreRests DEF SignupStarts
LEMMA MakeInv ==
  ASSUME KeysInv, NEW s \in Shells, MakeAccount(s)
  PROVE  KeysInv'
<1>1. todo[s] \in Rests /\ todo[s] # <<>> /\ Head(todo[s]) = "account"
  BY DEF KeysInv, KeysTypes, MakeAccount, IsAt
<1>2. todo[s] \in AccountRests /\ Tail(todo[s]) \in FingerprintRests \cup KeyRests
      /\ todo[s] # TagRest
  BY <1>1, NextRest, RestKinds DEF OfAccount
<1>3. view[s] \in Options /\ OneSection(view[s]) /\ view[s].fingerprint = NotSet
  BY <1>1, <1>2 DEF KeysInv, ShellKnows, Knows
<1>4. <<>> \in Rests BY DEF Rests, OtherRests
<1>5. ASSUME NEW a \in Accounts PROVE Knows(Tail(todo[s]), view[s], a)
  BY <1>2, <1>3, RestKinds DEF Knows, OfAccount
<1>6. Tail(todo[s]) \in Rests BY <1>2, KindsAreRests
<1>7. existing \subseteq Accounts /\ shown \subseteq Accounts BY DEF KeysInv, KeysTypes
<1>8. CASE Ends(s) /\ Keeps(s, view[s], NotSet) /\ UNCHANGED <<existing, shown>>
  BY <1>1, <1>2, <1>4, <1>7, <1>8, NoSaveStep DEF MakeAccount, Ends
<1>9. ASSUME NEW a \in Accounts, Keeps(s, view[s], a), existing' = existing \cup {a},
             \/ GoesOn(s) /\ UNCHANGED shown
             \/ Ends(s) /\ shown' = shown \cup (IF todo[s][2] = "key" THEN {a} ELSE {})
      PROVE  KeysInv'
  <2>1. file' = file /\ reverted' = reverted /\ (~halfBound' => ~halfBound /\ todo[s] # TagRest)
        /\ told' = told /\ existing' \subseteq Accounts
    BY <1>2, <1>7, <1>9 DEF MakeAccount
  <2>2. CASE GoesOn(s) /\ UNCHANGED shown
    BY <1>1, <1>5, <1>6, <1>7, <1>9, <2>1, <2>2, NoSaveStep DEF GoesOn
  <2>3. CASE Ends(s) /\ shown' = shown \cup (IF todo[s][2] = "key" THEN {a} ELSE {})
    BY <1>1, <1>4, <1>7, <1>9, <2>1, <2>3, NoSaveStep DEF Ends
  <2> QED BY <1>9, <2>2, <2>3
<1> QED BY <1>8, <1>9 DEF MakeAccount
LEMMA FingerprintInv ==
  ASSUME KeysInv, NEW s \in Shells, SaveFingerprint(s)
  PROVE  KeysInv'
<1> DEFINE o == [view[s] EXCEPT !.fingerprint = whose[s]]
<1>1. todo[s] \in Rests /\ todo[s] # <<>> /\ Head(todo[s]) = "fingerprint"
  BY DEF KeysInv, KeysTypes, SaveFingerprint, IsAt
<1>2. todo[s] \in FingerprintRests /\ Tail(todo[s]) \in KeyRests BY <1>1, NextRest
<1>3. /\ view[s] \in Options /\ OneSection(view[s]) /\ view[s].fingerprint = NotSet
      /\ whose[s] \in Accounts
  BY <1>1, <1>2 DEF KeysInv, ShellKnows, Knows, OfAccount
<1>4. o \in Options /\ OneSection(o) BY <1>3 DEF Options, OneSection
<1>5. Knows(Tail(todo[s]), o, whose[s])
  BY <1>2, <1>3, <1>4, RestKinds DEF Knows, OfAccount
<1>6. ~halfBound => Bound(o)
  <2>1. todo[s] # TagRest BY <1>2, RestKinds
  <2>2. ~halfBound => Bound(view[s]) BY <1>1, <2>1 DEF KeysInv, BillingIsBound
  <2>3. o.billing = view[s].billing /\ o.tag = view[s].tag BY <1>3 DEF Options
  <2> QED BY <2>2, <2>3 DEF Bound
<1>7. ~reverted /\ view[s] = file => \A a \in told' : a \in shown' \/ o.fingerprint = a
  <2>1. o.fingerprint = whose[s] BY <1>3 DEF Options
  <2>2. told' = told \cup {whose[s]} /\ shown' = shown BY DEF SaveFingerprint
  <2>3. ~reverted => \A a \in told : a \in shown \/ file.fingerprint = a BY DEF KeysInv, LoginIsKept
  <2>4. told \subseteq Accounts BY DEF KeysInv, KeysTypes
  <2> QED BY <1>3, <2>1, <2>2, <2>3, <2>4, KeysAssumption
<1>8. Tail(todo[s]) \in Rests BY <1>2, KindsAreRests
<1>9. StepsTo(s, Tail(todo[s])) /\ Saves(s, o) /\ existing' = existing /\ shown' = shown
      /\ told' = told \cup {whose[s]}
  BY DEF SaveFingerprint, GoesOn
<1>10. existing \subseteq Accounts /\ shown \subseteq Accounts /\ told \subseteq Accounts
  BY DEF KeysInv, KeysTypes
<1> QED BY <1>3, <1>4, <1>5, <1>6, <1>7, <1>8, <1>9, <1>10, SaveStep

(* What a process that runs can rely on.                                   *)
LEMMA RunningFacts ==
  ASSUME KeysInv, NEW s \in Shells, todo[s] # <<>>
  PROVE  /\ todo[s] \in Rests /\ view[s] \in Options /\ OneSection(view[s])
         /\ Knows(todo[s], view[s], whose[s]) /\ whose[s] \in Accounts \cup Teams \cup {NotSet}
         /\ ~halfBound /\ todo[s] # TagRest => Bound(view[s])
         /\ existing \subseteq Accounts /\ told \subseteq Accounts /\ shown \subseteq Accounts
         /\ ~reverted /\ view[s] = file =>
              \A a \in told : a \in shown \/ view[s].fingerprint = a
BY DEF KeysInv, KeysTypes, ShellKnows, Knows, BillingIsBound, LoginIsKept

(* A save of options other than the fingerprint, or of that of a login     *)
(* that was shown.                                                         *)
LEMMA PlainSave ==
  ASSUME KeysInv, NEW s \in Shells, todo[s] # <<>>, NEW rest \in Rests, NEW o \in Options,
         StepsTo(s, rest), Saves(s, o), rest # <<>> => Knows(rest, o, whose[s]), OneSection(o),
         \/ todo[s] # TagRest /\ o.billing \in {view[s].billing, NotSet} /\ o.tag = view[s].tag
         \/ Bound(o)
         \/ rest = TagRest /\ o.billing = o.key,
         existing' = existing, told' = told, shown \subseteq shown', shown' \subseteq Accounts,
         o.fingerprint = view[s].fingerprint \/ view[s].fingerprint \in shown'
  PROVE  KeysInv'
<1>1. ~halfBound => Bound(o) \/ (rest = TagRest /\ o.billing = o.key)
  BY RunningFacts DEF Bound
<1> QED BY <1>1, RunningFacts, SaveStep

(* A step without a save.                                                  *)
LEMMA PlainStep ==
  ASSUME KeysInv, NEW s \in Shells, todo[s] # <<>>, NEW rest \in Rests,
         StepsTo(s, rest), SavesNothing(s), rest # <<>> => Knows(rest, view[s], whose[s]),
         todo[s] # TagRest,
         existing' = existing, told' = told, shown \subseteq shown', shown' \subseteq Accounts
  PROVE  KeysInv'
BY RunningFacts, NoSaveStep DEF SavesNothing

LEMMA SaveKeyInv ==
  ASSUME KeysInv, NEW s \in Shells, SaveKey(s)
  PROVE  KeysInv'
<1> DEFINE o == [view[s] EXCEPT !.key = whose[s]]
<1>1. todo[s] # <<>> /\ Head(todo[s]) = "key" BY DEF SaveKey, IsAt
<1>2. todo[s] \in KeyRests
      /\ Tail(todo[s]) \in {<<"ssh", "show">>, <<"ssh", "billing", "tag", "show">>}
  BY <1>1, NextRest, RunningFacts
<1>3. whose[s] \in Accounts BY <1>1, <1>2, RunningFacts DEF Knows, OfAccount
<1>4. /\ o \in Options /\ o.key = whose[s] /\ o.billing = view[s].billing /\ o.tag = view[s].tag
      /\ o.fingerprint = view[s].fingerprint /\ o.id = view[s].id /\ o.teamKey = view[s].teamKey
  BY <1>1, <1>3, RunningFacts DEF Options
<1>5. OneSection(o) BY <1>1, <1>4, RunningFacts DEF OneSection
<1>6. Tail(todo[s]) \in BillingRests \cup ShowRests /\ Tail(todo[s]) # TagRest
  BY <1>2, RestKinds DEF BillingRests, ShowRests
<1>7. Knows(Tail(todo[s]), o, whose[s])
  BY <1>3, <1>4, <1>5, <1>6, RestKinds DEF Knows, OfAccount
<1>8. Tail(todo[s]) \in Rests /\ <<>> \in Rests BY <1>6, KindsAreRests DEF OtherRests
<1>9. todo[s] # TagRest BY <1>2, RestKinds
<1>10. CASE GoesOn(s) /\ Saves(s, o) /\ UNCHANGED shown
  BY <1>1, <1>4, <1>5, <1>7, <1>8, <1>9, <1>10, RunningFacts, PlainSave DEF GoesOn, SaveKey
<1>11. CASE Ends(s) /\ SavesNothing(s) /\ shown' = shown \cup {whose[s]}
  BY <1>1, <1>3, <1>8, <1>9, <1>11, RunningFacts, PlainStep DEF Ends, SaveKey
<1> QED BY <1>10, <1>11 DEF SaveKey
LEMMA SaveBillingInv ==
  ASSUME KeysInv, NEW s \in Shells, SaveBilling(s)
  PROVE  KeysInv'
<1> DEFINE o == [view[s] EXCEPT !.billing = whose[s]]
<1>1. todo[s] # <<>> /\ Head(todo[s]) = "billing" BY DEF SaveBilling, IsAt
<1>2. todo[s] = <<"billing", "tag", "show">> /\ Tail(todo[s]) = TagRest
  BY <1>1, NextRest, RunningFacts
<1>3. whose[s] \in Accounts /\ view[s].key = whose[s]
  BY <1>1, <1>2, RunningFacts DEF Knows, OfAccount, BillingRests
<1>4. /\ o \in Options /\ o.key = whose[s] /\ o.billing = whose[s]
      /\ o.fingerprint = view[s].fingerprint /\ o.id = view[s].id /\ o.teamKey = view[s].teamKey
  BY <1>1, <1>3, RunningFacts DEF Options
<1>5. OneSection(o) BY <1>1, <1>4, RunningFacts DEF OneSection
<1>6. Knows(TagRest, o, whose[s]) BY <1>3, <1>4, <1>5, RestKinds DEF Knows, OfAccount
<1>7. TagRest \in Rests /\ <<"show">> \in Rests BY KindsAreRests DEF ShowRests
<1>8. todo[s] # TagRest BY <1>2, RestKinds DEF BillingRests
<1>9. Knows(<<"show">>, view[s], whose[s])
  BY <1>1, <1>3, RestKinds, RunningFacts DEF Knows, OfAccount, ShowRests
<1>10. CASE GoesOn(s) /\ Saves(s, o)
  BY <1>1, <1>2, <1>4, <1>5, <1>6, <1>7, <1>10, RunningFacts, PlainSave
     DEF GoesOn, SaveBilling, serverAndUser
<1>11. CASE StepsTo(s, <<"show">>) /\ SavesNothing(s)
  BY <1>1, <1>7, <1>8, <1>9, <1>11, RunningFacts, PlainStep DEF SaveBilling, serverAndUser
<1> QED BY <1>10, <1>11 DEF SaveBilling
LEMMA SaveTagInv ==
  ASSUME KeysInv, NEW s \in Shells, SaveTag(s)
  PROVE  KeysInv'
<1> DEFINE o == [view[s] EXCEPT !.tag = view[s].key]
<1>1. todo[s] # <<>> /\ Head(todo[s]) = "tag" BY DEF SaveTag, IsAt
<1>2. todo[s] = TagRest /\ Tail(todo[s]) = <<"show">> BY <1>1, NextRest, RunningFacts
<1>3. whose[s] \in Accounts /\ view[s].key = whose[s] /\ view[s].billing = whose[s]
  BY <1>1, <1>2, RunningFacts DEF Knows, OfAccount
<1>4. /\ o \in Options /\ o.billing = whose[s] /\ o.tag = whose[s]
      /\ o.fingerprint = view[s].fingerprint /\ o.id = view[s].id /\ o.teamKey = view[s].teamKey
  BY <1>1, <1>3, RunningFacts DEF Options
<1>5. OneSection(o) /\ Bound(o) BY <1>1, <1>4, RunningFacts DEF OneSection, Bound
<1>6. Knows(<<"show">>, o, whose[s])
  BY <1>3, <1>4, <1>5, RestKinds DEF Knows, OfAccount, ShowRests
<1>7. <<"show">> \in Rests BY KindsAreRests DEF ShowRests
<1> QED BY <1>1, <1>2, <1>4, <1>5, <1>6, <1>7, RunningFacts, PlainSave
           DEF GoesOn, SaveTag, serverAndUser
LEMMA ShowInv ==
  ASSUME KeysInv, NEW s \in Shells, ShowLogin(s)
  PROVE  KeysInv'
<1>1. todo[s] # <<>> /\ Head(todo[s]) = "show" BY DEF ShowLogin, IsAt
<1>2. todo[s] = <<"show">> /\ Tail(todo[s]) = <<>> BY <1>1, NextRest, RunningFacts
<1>3. whose[s] \in Accounts /\ todo[s] # TagRest /\ <<>> \in Rests
  BY <1>1, <1>2, RunningFacts, RestKinds, KindsAreRests DEF Knows, OfAccount, ShowRests, OtherRests
<1> QED BY <1>1, <1>2, <1>3, RunningFacts, PlainStep DEF GoesOn, ShowLogin
LEMMA SaveOtherInv ==
  ASSUME KeysInv, NEW s \in Shells, SaveOther(s)
  PROVE  KeysInv'
<1>1. todo[s] # <<>> /\ Head(todo[s]) = "ssh" BY DEF SaveOther, IsAt
<1>2. \/ todo[s] = <<"ssh">> /\ Tail(todo[s]) = <<>>
      \/ todo[s] = <<"ssh", "show">> /\ Tail(todo[s]) = <<"show">>
      \/ /\ todo[s] = <<"ssh", "billing", "tag", "show">>
         /\ Tail(todo[s]) = <<"billing", "tag", "show">>
  BY <1>1, NextOtherRest, RunningFacts
<1>3. todo[s] # TagRest BY <1>2, RestKinds DEF OtherRests, ShowRests, BillingRests, OfAccount
<1>4. Tail(todo[s]) \in Rests /\ Tail(todo[s]) # TagRest
  BY <1>2, KindsAreRests, RestKinds DEF OtherRests, ShowRests, BillingRests
<1>5. Tail(todo[s]) # <<>> => Knows(Tail(todo[s]), view[s], whose[s])
  <2>1. CASE todo[s] = <<"ssh", "show">> /\ Tail(todo[s]) = <<"show">>
    BY <1>1, <2>1, RestKinds, RunningFacts DEF Knows, OfAccount, ShowRests
  <2>2. CASE /\ todo[s] = <<"ssh", "billing", "tag", "show">>
             /\ Tail(todo[s]) = <<"billing", "tag", "show">>
    BY <1>1, <2>2, RestKinds, RunningFacts DEF Knows, OfAccount, BillingRests
  <2> QED BY <1>2, <2>1, <2>2
<1>6. CASE Saves(s, view[s])
  BY <1>1, <1>3, <1>4, <1>5, <1>6, RunningFacts, PlainSave DEF GoesOn, SaveOther, serverAndUser
<1>7. CASE SavesNothing(s)
  BY <1>1, <1>3, <1>4, <1>5, <1>7, RunningFacts, PlainStep DEF GoesOn, SaveOther, serverAndUser
<1> QED BY <1>6, <1>7 DEF SaveOther

(* `lium init`, `lium config` and every command that starts.               *)
LEMMA LoginInv ==
  ASSUME KeysInv, NEW s \in Shells, Login(s)
  PROVE  KeysInv'
<1> DEFINE o == [view[s] EXCEPT !.key = whose[s]]
<1>1. todo[s] # <<>> /\ Head(todo[s]) = "login" BY DEF Login, IsAt
<1>2. todo[s] = <<"login", "ssh">> /\ Tail(todo[s]) = <<"ssh">> BY <1>1, NextRest, RunningFacts
<1>3. whose[s] \in Accounts /\ todo[s] # TagRest
  BY <1>1, <1>2, RunningFacts, RestKinds DEF Knows, OfAccount
<1>4. /\ o \in Options /\ o.billing = view[s].billing /\ o.tag = view[s].tag
      /\ o.fingerprint = view[s].fingerprint /\ o.id = view[s].id /\ o.teamKey = view[s].teamKey
  BY <1>1, <1>3, RunningFacts DEF Options
<1>5. OneSection(o) BY <1>1, <1>4, RunningFacts DEF OneSection
<1>6. <<"ssh">> \in Rests /\ <<>> \in Rests BY KindsAreRests DEF OtherRests
<1>7. Knows(<<"ssh">>, o, whose[s])
  BY <1>4, <1>5, RestKinds DEF Knows, OfAccount, OtherRests
<1>8. CASE GoesOn(s) /\ Saves(s, o)
  BY <1>1, <1>2, <1>3, <1>4, <1>5, <1>6, <1>7, <1>8, RunningFacts, PlainSave
     DEF GoesOn, Login, serverAndUser
<1>9. CASE Ends(s) /\ SavesNothing(s)
  BY <1>1, <1>3, <1>6, <1>9, RunningFacts, PlainStep DEF Ends, Login, serverAndUser
<1> QED BY <1>8, <1>9 DEF Login
LEMMA UnsetInv ==
  ASSUME KeysInv, NEW s \in Shells, UnsetOption(s)
  PROVE  KeysInv'
<1>1. PICK option \in DOMAIN UnsetStep :
        /\ IsAt(s, UnsetStep[option]) /\ GoesOn(s) /\ UNCHANGED <<existing, told>>
        /\ IF view[s][option] = NotSet THEN SavesNothing(s)
           ELSE Saves(s, [view[s] EXCEPT ![option] = NotSet])
        /\ shown' = shown \cup
             (IF option = "fingerprint" THEN {view[s].fingerprint} \ {NotSet} ELSE {})
  BY DEF UnsetOption
<1>2. option \in {"key", "billing", "fingerprint"} BY DEF UnsetStep
<1>3. todo[s] # <<>> /\ Head(todo[s]) \in {"unset_key", "unset_billing", "unset_fingerprint"}
  BY <1>1, <1>2 DEF UnsetStep, IsAt
<1>4. Tail(todo[s]) = <<>> /\ <<>> \in Rests /\ todo[s] # TagRest
  BY <1>3, NextOtherRest, NextRest, RunningFacts, KindsAreRests DEF OtherRests
<1>5. view[s] \in Options /\ view[s].fingerprint \in Accounts \cup {NotSet}
  BY <1>3, RunningFacts DEF Options
<1>6. shown \subseteq shown' /\ shown' \subseteq Accounts BY <1>1, <1>3, <1>5, RunningFacts
<1>7. CASE view[s][option] = NotSet
  BY <1>1, <1>3, <1>4, <1>6, <1>7, PlainStep DEF GoesOn
<1>8. CASE view[s][option] # NotSet
  <2> DEFINE o == [view[s] EXCEPT ![option] = NotSet]
  <2>1. o \in Options BY <1>2, <1>5 DEF Options
  <2>2. /\ o.id = view[s].id /\ o.teamKey = view[s].teamKey /\ o.tag = view[s].tag
        /\ o.billing \in {view[s].billing, NotSet}
        /\ o.fingerprint = view[s].fingerprint \/ option = "fingerprint"
    BY <1>2, <1>5 DEF Options
  <2>3. OneSection(o) BY <1>3, <2>2, RunningFacts DEF OneSection
  <2>4. o.fingerprint = view[s].fingerprint \/ view[s].fingerprint \in shown'
    BY <1>1, <1>5, <1>8, <2>2
  <2> QED
    BY <1>1, <1>3, <1>4, <1>6, <1>8, <2>1, <2>2, <2>3, <2>4, PlainSave DEF GoesOn
<1> QED BY <1>7, <1>8
LEMMA OtherStartsInv ==
  ASSUME KeysInv, NEW s \in Shells,
         (\E a \in Accounts : InitStarts(s, a)) \/ OtherStarts(s) \/ UnsetStarts(s)
  PROVE  KeysInv'
<1>1. file \in Options /\ OneSection(file) BY DEF KeysInv, KeysTypes
<1>2. ASSUME NEW a \in Accounts, InitStarts(s, a) PROVE KeysInv'
  <2>1. Knows(<<"login", "ssh">>, file, a)
    BY <1>1, RestKinds DEF Knows, OfAccount
  <2> QED BY <1>2, <2>1, StartStep, KindsAreRests DEF InitStarts
<1>3. ASSUME NEW rest \in OtherRests, Starts(s, rest, NotSet) PROVE KeysInv'
  <2>1. Knows(rest, file, NotSet) BY <1>1, RestKinds DEF Knows, OfAccount
  <2> QED BY <1>3, <2>1, StartStep, KindsAreRests
<1>4. CASE OtherStarts(s) BY <1>3, <1>4 DEF OtherStarts, OtherRests
<1>5. CASE UnsetStarts(s)
  <2>1. \A option \in DOMAIN UnsetStep : <<UnsetStep[option]>> \in OtherRests
    BY DEF UnsetStep, OtherRests
  <2> QED BY <1>3, <1>5, <2>1 DEF UnsetStarts
<1> QED BY <1>2, <1>4, <1>5
LEMMA CutInv ==
  ASSUME KeysInv, NEW s \in Shells, CutShort(s)
  PROVE  KeysInv'
<1>1. todo[s] # <<>> /\ <<>> \in Rests BY KindsAreRests DEF CutShort, OtherRests
<1>2. ~halfBound' => ~halfBound /\ todo[s] # TagRest
  BY <1>1, NextRest, RunningFacts DEF CutShort, IsAt
<1> QED BY <1>1, <1>2, RunningFacts, NoSaveStep DEF CutShort, Ends, serverAndUser

(* The commands about workspaces.                                          *)
LEMMA TeamStartsInv ==
  ASSUME KeysInv, NEW s \in Shells, NEW t \in Teams,
         UseStarts(s, t) \/ CreateStarts(s, t) \/ DeleteStarts(s, t)
  PROVE  KeysInv'
<1>1. file \in Options /\ OneSection(file) BY DEF KeysInv, KeysTypes
<1>2. ASSUME NEW rest \in OtherRests, Starts(s, rest, t) PROVE KeysInv'
  <2>1. Knows(rest, file, t) BY <1>1, RestKinds DEF Knows, OfAccount
  <2> QED BY <1>2, <2>1, StartStep, KindsAreRests
<1>3. ASSUME NEW rest \in SectionRests, Free(file, t), Starts(s, rest, t) PROVE KeysInv'
  <2>1. Knows(rest, file, t) BY <1>1, <1>3, RestKinds DEF Knows, OfAccount
  <2> QED BY <1>3, <2>1, StartStep, KindsAreRests
<1> QED BY <1>2, <1>3 DEF UseStarts, CreateStarts, DeleteStarts, OtherRests, SectionRests
LEMMA MintInv ==
  ASSUME KeysInv, NEW s \in Shells, MintKey(s)
  PROVE  KeysInv'
<1>1. todo[s] # <<>> /\ Head(todo[s]) = "mint" BY DEF MintKey, IsAt
<1>2. todo[s] \in SectionRests /\ Tail(todo[s]) = <<"id", "team_key">>
  BY <1>1, NextOtherRest, RunningFacts
<1>3. <<"id", "team_key">> \in SectionRests BY DEF SectionRests
<1>4. Knows(<<"id", "team_key">>, view[s], whose[s])
  BY <1>1, <1>2, <1>3, RestKinds, RunningFacts DEF Knows, OfAccount
<1>5. <<>> \in Rests /\ <<"id", "team_key">> \in Rests /\ todo[s] # TagRest
  BY <1>2, <1>3, KindsAreRests, RestKinds DEF OtherRests, OfAccount
<1> QED BY <1>1, <1>2, <1>4, <1>5, RunningFacts, PlainStep
           DEF MintKey, GoesOn, Ends, serverAndUser
LEMMA SaveTeamInv ==
  ASSUME KeysInv, NEW s \in Shells, SaveTeam(s)
  PROVE  KeysInv'
<1>1. todo[s] # <<>> BY DEF SaveTeam, GoesOn
<1>2. /\ view[s] \in Options /\ OneSection(view[s]) /\ Knows(todo[s], view[s], whose[s])
      /\ shown \subseteq Accounts
  BY <1>1, RunningFacts
<1>3. /\ <<>> \in Rests /\ <<"id", "team_key">> \in SectionRests /\ <<"id", "team_key">> \in Rests
      /\ <<"team_key">> \in Rests
  BY KindsAreRests DEF OtherRests, SectionRests
<1>4. CASE IsAt(s, "active") /\ Saves(s, [view[s] EXCEPT !.active = TRUE])
  <2> DEFINE o == [view[s] EXCEPT !.active = TRUE]
  <2>1. \/ todo[s] = <<"active">> /\ Tail(todo[s]) = <<>>
        \/ todo[s] \in SectionRests /\ Tail(todo[s]) = <<"id", "team_key">>
    BY <1>1, <1>4, NextOtherRest, RunningFacts DEF IsAt
  <2>2. todo[s] # TagRest BY <2>1, RestKinds DEF OfAccount, OtherRests
  <2>3. /\ o \in Options /\ o.billing = view[s].billing /\ o.tag = view[s].tag
        /\ o.fingerprint = view[s].fingerprint /\ o.id = view[s].id /\ o.teamKey = view[s].teamKey
    BY <1>2 DEF Options
  <2>4. OneSection(o) BY <1>2, <2>3 DEF OneSection
  <2>5. Tail(todo[s]) # <<>> => Knows(Tail(todo[s]), o, whose[s])
    BY <1>2, <1>3, <2>1, <2>3, <2>4, RestKinds DEF Knows, OfAccount, Free
  <2> QED BY <1>1, <1>2, <1>3, <1>4, <2>1, <2>2, <2>3, <2>4, <2>5, PlainSave
             DEF SaveTeam, GoesOn, serverAndUser
<1>5. CASE IsAt(s, "id") /\ Saves(s, [view[s] EXCEPT !.id = whose[s]])
  <2> DEFINE o == [view[s] EXCEPT !.id = whose[s]]
  <2>1. todo[s] \in SectionRests /\ Tail(todo[s]) = <<"team_key">>
    BY <1>1, <1>5, NextOtherRest, RunningFacts DEF IsAt
  <2>2. todo[s] # TagRest BY <2>1, RestKinds DEF OfAccount
  <2>3. whose[s] \in Teams /\ Free(view[s], whose[s]) BY <1>2, <2>1 DEF Knows
  <2>4. /\ o \in Options /\ o.billing = view[s].billing /\ o.tag = view[s].tag
        /\ o.fingerprint = view[s].fingerprint /\ o.id = whose[s] /\ o.teamKey = view[s].teamKey
    BY <1>2, <2>3 DEF Options
  <2>5. OneSection(o) BY <1>2, <2>3, <2>4 DEF OneSection, Free
  <2>6. Knows(<<"team_key">>, o, whose[s]) BY <2>3, <2>4, <2>5, RestKinds DEF Knows, OfAccount
  <2> QED BY <1>1, <1>2, <1>3, <1>5, <2>1, <2>2, <2>4, <2>5, <2>6, PlainSave
             DEF SaveTeam, GoesOn, serverAndUser
<1>6. CASE IsAt(s, "team_key") /\ Saves(s, [view[s] EXCEPT !.teamKey = whose[s]])
  <2> DEFINE o == [view[s] EXCEPT !.teamKey = whose[s]]
  <2>1. todo[s] = <<"team_key">> /\ Tail(todo[s]) = <<>>
    BY <1>1, <1>6, NextOtherRest, RunningFacts DEF IsAt
  <2>2. todo[s] # TagRest BY <2>1, RestKinds DEF OfAccount
  <2>3. whose[s] \in Teams /\ view[s].id = whose[s] BY <1>2, <2>1 DEF Knows
  <2>4. /\ o \in Options /\ o.billing = view[s].billing /\ o.tag = view[s].tag
        /\ o.fingerprint = view[s].fingerprint /\ o.id = whose[s] /\ o.teamKey = whose[s]
    BY <1>2, <2>3 DEF Options
  <2>5. OneSection(o) BY <2>4 DEF OneSection
  <2> QED BY <1>1, <1>2, <1>3, <1>6, <2>1, <2>2, <2>4, <2>5, PlainSave
             DEF SaveTeam, GoesOn, serverAndUser
<1> QED BY <1>4, <1>5, <1>6 DEF SaveTeam
LEMMA ForgetInv ==
  ASSUME KeysInv, NEW s \in Shells, Forget(s)
  PROVE  KeysInv'
<1> DEFINE o == [view[s] EXCEPT !.id = NotSet, !.teamKey = NotSet]
<1>1. todo[s] # <<>> /\ Head(todo[s]) = "forget" BY DEF Forget, IsAt
<1>2. todo[s] = <<"forget", "inactive">> /\ Tail(todo[s]) = <<"inactive">>
  BY <1>1, NextOtherRest, RunningFacts
<1>3. /\ view[s] \in Options /\ OneSection(view[s]) /\ todo[s] # TagRest /\ shown \subseteq Accounts
  BY <1>1, <1>2, RunningFacts, RestKinds DEF OtherRests, OfAccount
<1>4. <<>> \in Rests /\ <<"inactive">> \in Rests /\ <<"inactive">> \in OtherRests
  BY KindsAreRests DEF OtherRests
<1>5. /\ o \in Options /\ o.billing = view[s].billing /\ o.tag = view[s].tag
      /\ o.fingerprint = view[s].fingerprint /\ o.teamKey = NotSet
  BY <1>3 DEF Options
<1>6. OneSection(o) BY <1>5 DEF OneSection
<1>7. Knows(<<"inactive">>, o, whose[s]) /\ Knows(<<"inactive">>, view[s], whose[s])
  BY <1>3, <1>4, <1>5, <1>6, RestKinds DEF Knows, OfAccount
<1>8. PICK rest \in {<<>>, <<"inactive">>} : StepsTo(s, rest)
  BY <1>2 DEF Forget, GoesOn, Ends
<1>9. CASE SavesNothing(s)
  BY <1>1, <1>3, <1>4, <1>7, <1>8, <1>9, PlainStep DEF Forget, serverAndUser
<1>10. CASE Saves(s, o)
  BY <1>1, <1>3, <1>4, <1>5, <1>6, <1>7, <1>8, <1>10, PlainSave DEF Forget, serverAndUser
<1> QED BY <1>9, <1>10 DEF Forget
LEMMA InactiveInv ==
  ASSUME KeysInv, NEW s \in Shells, Inactive(s)
  PROVE  KeysInv'
<1> DEFINE o == [view[s] EXCEPT !.active = FALSE]
<1>1. todo[s] # <<>> /\ Head(todo[s]) = "inactive" BY DEF Inactive, IsAt
<1>2. Tail(todo[s]) = <<>> /\ <<>> \in Rests /\ todo[s] # TagRest
  BY <1>1, NextOtherRest, NextRest, RunningFacts, KindsAreRests DEF OtherRests
<1>3. view[s] \in Options /\ OneSection(view[s]) /\ shown \subseteq Accounts BY <1>1, RunningFacts
<1>4. /\ o \in Options /\ o.billing = view[s].billing /\ o.tag = view[s].tag
      /\ o.fingerprint = view[s].fingerprint /\ o.id = view[s].id /\ o.teamKey = view[s].teamKey
  BY <1>3 DEF Options
<1>5. OneSection(o) BY <1>3, <1>4 DEF OneSection
<1> QED BY <1>1, <1>2, <1>3, <1>4, <1>5, PlainSave DEF Inactive, GoesOn, serverAndUser

-----------------------------------------------------------------------------
LEMMA KeysInitInv == KeysInit => KeysInv
<1>1. SUFFICES ASSUME KeysInit PROVE KeysInv OBVIOUS
<1>2. PICK earlier \in Accounts \cup {NotSet} :
        /\ existing = {earlier} \ {NotSet}
        /\ file \in {f \in Options :
             /\ {f.key, f.fingerprint, f.billing, f.tag} \subseteq {earlier, NotSet}
             /\ (f.billing # NotSet => f.tag # NotSet)
             /\ ~f.active /\ f.id = NotSet /\ f.teamKey = NotSet}
  BY <1>1 DEF KeysInit
<1>3. file \in Options /\ Bound(file) /\ OneSection(file)
      /\ (file.tag # NotSet /\ file.tag = file.key
          /\ file.billing # NotSet => file.billing = file.key)
  BY <1>2 DEF Bound, OneSection
<1>4. KeysTypes
  BY <1>1, <1>2, <1>3, KindsAreRests DEF KeysInit, KeysTypes, OtherRests
<1> QED BY <1>1, <1>3, <1>4 DEF KeysInit, KeysInv, ShellKnows, BillingIsBound, LoginIsKept

LEMMA KeysNextInv == KeysInv /\ [KeysNext]_keysVars => KeysInv'
<1>1. ASSUME KeysInv, KeysNext PROVE KeysInv'
  <2>1. PICK s \in Shells :
          \/ \E email, billing \in BOOLEAN : SignupStarts(s, email, billing)
          \/ \E a \in Accounts : InitStarts(s, a)
          \/ OtherStarts(s) \/ UnsetStarts(s)
          \/ \E t \in Teams : UseStarts(s, t) \/ CreateStarts(s, t) \/ DeleteStarts(s, t)
          \/ SaveOther(s) \/ MakeAccount(s) \/ SaveFingerprint(s) \/ SaveKey(s)
          \/ SaveBilling(s) \/ SaveTag(s) \/ ShowLogin(s) \/ Login(s) \/ UnsetOption(s)
          \/ MintKey(s) \/ SaveTeam(s) \/ Forget(s) \/ Inactive(s) \/ CutShort(s)
    BY <1>1 DEF KeysNext
  <2> QED
    BY <1>1, <2>1, SignupInv, OtherStartsInv, TeamStartsInv, SaveOtherInv, MakeInv,
         FingerprintInv,
       SaveKeyInv, SaveBillingInv, SaveTagInv, ShowInv, LoginInv, UnsetInv, MintInv, SaveTeamInv,
       ForgetInv, InactiveInv, CutInv
<1>2. ASSUME KeysInv, UNCHANGED keysVars PROVE KeysInv'
  BY <1>2 DEF KeysInv, KeysTypes, ShellKnows, BillingIsBound, LoginIsKept, BetweenTheTwo, IsAt,
     keysVars, serverAndUser
<1> QED BY <1>1, <1>2

(* However commands of several processes read and write the file, and are  *)
(* cut short: the account that rents pays, a login that was saved can be   *)
(* found, and the key of a workspace's section is that workspace's         *)
(* (ConfigManager, signup, billing_client, workspaces).                    *)
THEOREM KeysStayHome == KeysSpec => []KeysLeadHome
<1>1. KeysInv => KeysLeadHome
  <2>1. ASSUME KeysInv PROVE MoneyGoesHome
    BY <2>1 DEF KeysInv, BillingIsBound, MoneyGoesHome, PaysWhereItRents, PaysAs, RunsAs
  <2> QED BY <2>1 DEF KeysInv, KeysLeadHome, OneSection, SectionIsOneWorkspaces
<1> QED BY <1>1, KeysInitInv, KeysNextInv, PTL DEF KeysSpec

-----------------------------------------------------------------------------
(* What the types of AccountKeys say beyond KeysTypes.                     *)

(* A login that is to be saved, or was, is of an account that there is.    *)
LoginsAreReal ==
  /\ told \subseteq existing
  /\ \A s \in Shells : todo[s] \in FingerprintRests => whose[s] \in existing
KeysBounds ==
  /\ reverted \in BOOLEAN /\ halfBound \in BOOLEAN
  /\ commands \in 0..MaxCommands /\ cuts \in 0..MaxCuts
AccountsInv == KeysInv /\ LoginsAreReal /\ KeysBounds

LEMMA RestsAreSteps == Rests \subseteq Seq(KeySteps)
<1> USE DEF KeySteps
<1>1. /\ <<"account", "key", "ssh", "billing", "tag", "show">> \in Seq(KeySteps)
      /\ <<"account", "key", "ssh", "show">> \in Seq(KeySteps)
      /\ <<"account", "fingerprint", "key", "ssh", "billing", "tag", "show">> \in Seq(KeySteps)
      /\ <<"account", "fingerprint", "key", "ssh", "show">> \in Seq(KeySteps)
  OBVIOUS
<1>2. /\ <<"fingerprint", "key", "ssh", "billing", "tag", "show">> \in Seq(KeySteps)
      /\ <<"fingerprint", "key", "ssh", "show">> \in Seq(KeySteps)
      /\ <<"key", "ssh", "billing", "tag", "show">> \in Seq(KeySteps)
      /\ <<"key", "ssh", "show">> \in Seq(KeySteps)
  OBVIOUS
<1>3. /\ <<"ssh", "billing", "tag", "show">> \in Seq(KeySteps)
      /\ <<"billing", "tag", "show">> \in Seq(KeySteps) /\ <<"tag", "show">> \in Seq(KeySteps)
      /\ <<"ssh", "show">> \in Seq(KeySteps) /\ <<"show">> \in Seq(KeySteps)
      /\ <<"login", "ssh">> \in Seq(KeySteps)
  OBVIOUS
<1>4. /\ <<"mint", "id", "team_key">> \in Seq(KeySteps)
      /\ <<"active", "id", "team_key">> \in Seq(KeySteps)
      /\ <<"id", "team_key">> \in Seq(KeySteps) /\ <<"team_key">> \in Seq(KeySteps)
  OBVIOUS
<1>5. /\ <<>> \in Seq(KeySteps) /\ <<"ssh">> \in Seq(KeySteps) /\ <<"unset_key">> \in Seq(KeySteps)
      /\ <<"unset_billing">> \in Seq(KeySteps) /\ <<"unset_fingerprint">> \in Seq(KeySteps)
      /\ <<"active">> \in Seq(KeySteps) /\ <<"inactive">> \in Seq(KeySteps)
      /\ <<"forget", "inactive">> \in Seq(KeySteps)
  OBVIOUS
<1> HIDE DEF KeySteps
<1>6. AccountRests \subseteq Seq(KeySteps)
  BY <1>1, Zenon DEF AccountRests
<1>7. FingerprintRests \cup KeyRests \subseteq Seq(KeySteps)
  BY <1>2, Zenon DEF FingerprintRests, KeyRests
<1>8. BillingRests \cup ShowRests \cup {TagRest, <<"login", "ssh">>} \subseteq Seq(KeySteps)
  BY <1>3, Zenon DEF BillingRests, ShowRests, TagRest
<1>9. SectionRests \cup {<<"team_key">>} \cup OtherRests \subseteq Seq(KeySteps)
  BY <1>4, <1>5, Zenon DEF SectionRests, OtherRests
<1> QED BY <1>6, <1>7, <1>8, <1>9, Zenon DEF Rests, OfAccount

(* Only a signup without an e-mail comes to the fingerprint.               *)
LEMMA FingerprintFollows ==
  ASSUME NEW r \in Rests, r # <<>>, Head(r) # "account"
  PROVE  Tail(r) \notin FingerprintRests
<1>1. r \notin AccountRests
  BY RestSteps
<1>2. \A x \in FingerprintRests : Head(x) = "fingerprint" /\ x # <<>>
  BY RestSteps, RestKinds DEF FingerprintRests
<1>3. CASE r \in FingerprintRests \cup KeyRests
  <2>1. Tail(r) \in KeyRests \cup {<<"ssh", "show">>, <<"ssh", "billing", "tag", "show">>}
    BY <1>3, RestSteps
  <2>2. Head(Tail(r)) # "fingerprint"
    BY <2>1, RestSteps
  <2> QED BY <1>2, <2>2
<1>4. CASE r \in OtherRests \cup {<<"team_key">>}
  <2>1. Tail(r) = <<>> \/ Tail(r) = <<"inactive">>
    BY <1>4, OtherSteps, LastSteps DEF OtherRests
  <2> QED BY <1>2, <2>1, LastSteps
<1>5. CASE r \in SectionRests \cup BillingRests \cup ShowRests \cup {TagRest, <<"login", "ssh">>}
  <2>1. Tail(r) \in {<<"id", "team_key">>, <<"team_key">>, <<"billing", "tag", "show">>, TagRest,
                     <<"show">>, <<"ssh">>, <<>>}
    BY <1>5, OtherSteps, RestSteps DEF SectionRests, BillingRests, ShowRests
  <2>2. Tail(r) = <<>> \/ Head(Tail(r)) # "fingerprint"
    BY <2>1, OtherSteps, RestSteps, LastSteps
  <2> QED BY <1>2, <2>2
<1> QED BY <1>1, <1>3, <1>4, <1>5 DEF Rests, OfAccount

LEMMA StartRests ==
  ASSUME NEW s \in Shells, NEW who, NEW steps, Starts(s, steps, who),
         \/ steps \in AccountRests
         \/ steps \in OtherRests \cup SectionRests \cup {<<"login", "ssh">>}
  PROVE  steps \notin FingerprintRests
BY RestKinds DEF OfAccount

(* What a step is, as far as the types go.                                 *)
Starting(s) == \E steps, who : steps \notin FingerprintRests /\ Starts(s, steps, who)
Working(s) ==
  /\ todo[s] # <<>> /\ existing' = existing /\ (SavesNothing(s) \/ \E o : Saves(s, o))
  /\ \/ SaveFingerprint(s)
     \/ told' = told /\ \E rest : rest \notin FingerprintRests /\ StepsTo(s, rest)
LEMMA StartForms ==
  ASSUME NEW s \in Shells,
         \/ \E email, billing \in BOOLEAN : SignupStarts(s, email, billing)
         \/ \E a \in Accounts : InitStarts(s, a)
         \/ OtherStarts(s) \/ UnsetStarts(s)
         \/ \E t \in Teams : UseStarts(s, t) \/ CreateStarts(s, t) \/ DeleteStarts(s, t)
  PROVE  Starting(s)
<1>1. ASSUME NEW email \in BOOLEAN, NEW billing \in BOOLEAN, SignupStarts(s, email, billing)
      PROVE  Starting(s)
  <2>1. SignupSteps(email, billing) \in AccountRests
    BY DEF SignupSteps, AccountRests
  <2> QED BY <1>1, <2>1, StartRests DEF SignupStarts, Starting
<1>2. ASSUME NEW a \in Accounts, InitStarts(s, a) PROVE Starting(s)
  BY <1>2, StartRests DEF InitStarts, Starting
<1>3. CASE OtherStarts(s)
  BY <1>3, StartRests DEF OtherStarts, Starting, OtherRests
<1>4. CASE UnsetStarts(s)
  <2>1. \A option \in DOMAIN UnsetStep : <<UnsetStep[option]>> \in OtherRests
    BY DEF UnsetStep, OtherRests
  <2> QED BY <1>4, <2>1, StartRests DEF UnsetStarts, Starting
<1>5. ASSUME NEW t \in Teams, UseStarts(s, t) \/ CreateStarts(s, t) \/ DeleteStarts(s, t)
      PROVE  Starting(s)
  <2>1. PICK steps \in OtherRests \cup SectionRests : Starts(s, steps, t)
    BY <1>5 DEF UseStarts, CreateStarts, DeleteStarts, OtherRests, SectionRests
  <2> QED BY <2>1, StartRests DEF Starting
<1> QED BY <1>1, <1>2, <1>3, <1>4, <1>5
LEMMA WorkForms ==
  ASSUME KeysInv, NEW s \in Shells,
         \/ SaveOther(s) \/ SaveFingerprint(s) \/ SaveKey(s)
         \/ SaveBilling(s) \/ SaveTag(s) \/ ShowLogin(s) \/ Login(s) \/ UnsetOption(s)
         \/ MintKey(s) \/ SaveTeam(s) \/ Forget(s) \/ Inactive(s)
  PROVE  Working(s)
<1>1. todo[s] # <<>> /\ Head(todo[s]) # "account"
  <2>1. \A option \in DOMAIN UnsetStep : UnsetStep[option] # "account"
    BY DEF UnsetStep
  <2>2. UnsetOption(s) => \E option \in DOMAIN UnsetStep : IsAt(s, UnsetStep[option])
    BY DEF UnsetOption
  <2> QED
    BY <2>1, <2>2 DEF SaveOther, SaveFingerprint, SaveKey, SaveBilling, SaveTag, ShowLogin, Login,
       MintKey, SaveTeam, Forget, Inactive, IsAt
<1>2. todo[s] \in Rests
  BY DEF KeysInv, KeysTypes
<1>3. Tail(todo[s]) \notin FingerprintRests
  BY <1>1, <1>2, FingerprintFollows
<1>4. <<>> \notin FingerprintRests /\ <<"show">> \notin FingerprintRests
  BY RestKinds DEF OtherRests, ShowRests, OfAccount
<1>5. existing' = existing
  BY Zenon
  DEF SaveOther, SaveFingerprint, SaveKey, SaveBilling, SaveTag, ShowLogin, Login, UnsetOption,
      MintKey, SaveTeam, Forget, Inactive, serverAndUser
<1>9. SavesNothing(s) \/ \E o : Saves(s, o)
  BY Zenon
  DEF SaveOther, SaveFingerprint, SaveKey, SaveBilling, SaveTag, ShowLogin, Login, UnsetOption,
      MintKey, SaveTeam, Forget, Inactive
<1>6. SaveFingerprint(s) \/ told' = told
  BY DEF SaveOther, SaveKey, SaveBilling, SaveTag, ShowLogin, Login, UnsetOption,
     MintKey, SaveTeam, Forget, Inactive, serverAndUser
<1>7. GoesOn(s) \/ Ends(s) \/ StepsTo(s, <<"show">>)
  BY DEF SaveOther, SaveFingerprint, SaveKey, SaveBilling, SaveTag, ShowLogin, Login, UnsetOption,
     MintKey, SaveTeam, Forget, Inactive
<1>8. \E rest : rest \notin FingerprintRests /\ StepsTo(s, rest)
  BY <1>3, <1>4, <1>7 DEF GoesOn, Ends
<1> QED BY <1>1, <1>5, <1>6, <1>8, <1>9 DEF Working
LEMMA StepForms ==
  KeysInv /\ KeysNext =>
    \E s \in Shells : Starting(s) \/ Working(s) \/ MakeAccount(s) \/ CutShort(s)
BY StartForms, WorkForms DEF KeysNext

LEMMA KeysFlagsNext ==
  reverted \in BOOLEAN /\ halfBound \in BOOLEAN /\ KeysInv /\ KeysNext =>
    reverted' \in BOOLEAN /\ halfBound' \in BOOLEAN
<1> SUFFICES ASSUME reverted \in BOOLEAN, halfBound \in BOOLEAN, NEW s \in Shells,
                    Starting(s) \/ Working(s) \/ MakeAccount(s) \/ CutShort(s)
             PROVE  reverted' \in BOOLEAN /\ halfBound' \in BOOLEAN
  BY StepForms
<1>1. \/ reverted' = reverted
      \/ reverted' = (reverted \/ view[s] # file)
  BY DEF Starting, Working, Starts, Saves, SavesNothing, MakeAccount, CutShort
<1>2. \/ halfBound' = halfBound
      \/ halfBound' = (halfBound \/ BetweenTheTwo)
      \/ halfBound' = (halfBound \/ IsAt(s, "tag"))
  BY DEF Starting, Working, Starts, Saves, SavesNothing, MakeAccount, CutShort
<1>3. reverted' \in BOOLEAN
  BY <1>1, Zenon
<1>4. halfBound' \in BOOLEAN
  BY <1>2, Zenon
<1> QED BY <1>3, <1>4
LEMMA KeysCountsNext ==
  commands \in 0..MaxCommands /\ cuts \in 0..MaxCuts /\ KeysInv /\ KeysNext =>
    commands' \in 0..MaxCommands /\ cuts' \in 0..MaxCuts
<1> SUFFICES ASSUME commands \in 0..MaxCommands, cuts \in 0..MaxCuts, NEW s \in Shells,
                    Starting(s) \/ Working(s) \/ MakeAccount(s) \/ CutShort(s)
             PROVE  commands' \in 0..MaxCommands /\ cuts' \in 0..MaxCuts
  BY StepForms
<1>1. /\ commands' = commands \/ (commands < MaxCommands /\ commands' = commands + 1)
      /\ cuts' = cuts \/ (cuts < MaxCuts /\ cuts' = cuts + 1)
  BY DEF Starting, Working, Starts, Saves, SavesNothing, MakeAccount, CutShort
<1> QED BY <1>1, KeysAssumption

(* What one process comes to leaves the others' logins.                    *)
LEMMA LoginsStay ==
  ASSUME KeysInv, LoginsAreReal, NEW s \in Shells, NEW rest, NEW o, NEW who,
         StepsTo(s, rest), Keeps(s, o, who), existing \subseteq existing',
         told' \subseteq existing', rest \in FingerprintRests => who \in existing'
  PROVE  LoginsAreReal'
<1>1. todo' = [todo EXCEPT ![s] = rest] /\ todo \in [Shells -> Rests]
      /\ whose \in [Shells -> Accounts \cup Teams \cup {NotSet}]
  BY DEF StepsTo, KeysInv, KeysTypes
<1>2. todo'[s] = rest /\ \A t \in Shells \ {s} : todo'[t] = todo[t]
  BY <1>1
<1>3. whose' = [whose EXCEPT ![s] = IF rest = <<>> THEN NotSet ELSE who]
  BY <1>2 DEF Keeps
<1>4. \A t \in Shells \ {s} : whose'[t] = whose[t]
  BY <1>1, <1>3
<1>5. rest # <<>> => whose'[s] = who
  BY <1>1, <1>3
<1>6. <<>> \notin FingerprintRests
  BY RestKinds DEF OtherRests, OfAccount
<1> QED BY <1>2, <1>4, <1>5, <1>6 DEF LoginsAreReal

LEMMA LoginsNext == KeysInv /\ LoginsAreReal /\ KeysNext => LoginsAreReal'
<1> SUFFICES ASSUME KeysInv, LoginsAreReal, NEW s \in Shells,
                    Starting(s) \/ Working(s) \/ MakeAccount(s) \/ CutShort(s)
             PROVE  LoginsAreReal'
  BY StepForms
<1>1. told \subseteq existing
  BY DEF LoginsAreReal
<1>2. <<>> \notin FingerprintRests
  BY RestKinds DEF OtherRests, OfAccount
<1>3. CASE Starting(s)
  <2>1. PICK steps, who : steps \notin FingerprintRests /\ Starts(s, steps, who)
    BY <1>3 DEF Starting
  <2>2. StepsTo(s, steps) /\ Keeps(s, file, who) /\ existing' = existing /\ told' = told
    BY <2>1 DEF Starts, serverAndUser
  <2> QED BY <1>1, <2>1, <2>2, LoginsStay
<1>4. CASE Working(s)
  <2>1. /\ todo[s] # <<>> /\ existing' = existing
        /\ \E o : Keeps(s, o, whose[s])
    BY <1>4 DEF Working, Saves, SavesNothing
  <2>2. PICK o : Keeps(s, o, whose[s])
    BY <2>1
  <2>3. CASE SaveFingerprint(s)
    <3>1. todo[s] \in Rests /\ Head(todo[s]) = "fingerprint" /\ StepsTo(s, Tail(todo[s]))
          /\ told' = told \cup {whose[s]}
      BY <2>3 DEF SaveFingerprint, IsAt, GoesOn, KeysInv, KeysTypes
    <3>2. todo[s] \in FingerprintRests /\ Tail(todo[s]) \notin FingerprintRests
      BY <2>1, <3>1, NextRest, FingerprintFollows
    <3>3. whose[s] \in existing
      BY <3>2 DEF LoginsAreReal
    <3>4. told' \subseteq existing'
      BY <1>1, <2>1, <3>1, <3>3
    <3> QED BY <2>1, <2>2, <3>1, <3>2, <3>4, LoginsStay
  <2>4. CASE told' = told /\ \E rest : rest \notin FingerprintRests /\ StepsTo(s, rest)
    <3>1. PICK rest : rest \notin FingerprintRests /\ StepsTo(s, rest)
      BY <2>4
    <3> QED BY <1>1, <2>1, <2>2, <2>4, <3>1, LoginsStay
  <2> QED BY <1>4, <2>3, <2>4 DEF Working
<1>5. CASE MakeAccount(s)
  <2>1. told' = told
    BY <1>5 DEF MakeAccount
  <2>2. CASE Ends(s) /\ Keeps(s, view[s], NotSet) /\ existing' = existing
    BY <1>1, <1>2, <2>1, <2>2, LoginsStay DEF Ends
  <2>3. ASSUME NEW a \in Accounts, existing' = existing \cup {a}, GoesOn(s) \/ Ends(s),
               Keeps(s, view[s], a)
        PROVE  LoginsAreReal'
    <3>1. PICK rest : StepsTo(s, rest)
      BY <2>3 DEF GoesOn, Ends
    <3>2. existing \subseteq existing' /\ told' \subseteq existing' /\ a \in existing'
      BY <1>1, <2>1, <2>3
    <3> QED BY <2>3, <3>1, <3>2, LoginsStay
  <2> QED BY <1>5, <2>2, <2>3 DEF MakeAccount
<1>6. CASE CutShort(s)
  BY <1>1, <1>2, <1>6, LoginsStay DEF CutShort, Ends, serverAndUser
<1> QED BY <1>3, <1>4, <1>5, <1>6

LEMMA AccountsInitInv == KeysInit => AccountsInv
<1> SUFFICES ASSUME KeysInit PROVE AccountsInv
  OBVIOUS
<1>1. KeysInv
  BY KeysInitInv
<1>2. <<>> \notin FingerprintRests
  BY RestKinds DEF OtherRests, OfAccount
<1>3. LoginsAreReal
  BY <1>2 DEF KeysInit, LoginsAreReal
<1>4. reverted \in BOOLEAN /\ halfBound \in BOOLEAN
  BY Zenon DEF KeysInit
<1>5. commands \in 0..MaxCommands /\ cuts \in 0..MaxCuts
  BY KeysAssumption DEF KeysInit
<1> QED BY <1>1, <1>3, <1>4, <1>5 DEF AccountsInv, KeysBounds

LEMMA AccountsNextInv == AccountsInv /\ [KeysNext]_keysVars => AccountsInv'
<1>1. ASSUME AccountsInv, KeysNext PROVE AccountsInv'
  BY <1>1, KeysNextInv, LoginsNext, KeysFlagsNext, KeysCountsNext DEF AccountsInv, KeysBounds
<1>2. ASSUME AccountsInv, UNCHANGED keysVars PROVE AccountsInv'
  <2>1. KeysInv'
    BY <1>2, KeysNextInv DEF AccountsInv
  <2> QED BY <1>2, <2>1 DEF AccountsInv, LoginsAreReal, KeysBounds, keysVars
<1> QED BY <1>1, <1>2

LEMMA AccountsTypes == AccountsInv => KeysTypeOK
BY RestsAreSteps DEF AccountsInv, LoginsAreReal, KeysBounds, KeysInv, KeysTypes, KeysTypeOK

-----------------------------------------------------------------------------
(* `lium clusters up` (Clusters).                                          *)

(* A request that the API is carrying out, or whose cluster it has made.   *)
Ran(o) == request[o] = "running" \/ Has(o) # {}

(* One of the requests runs at most.  With the key, it is the record of    *)
(* the key that sees to it; without one, that only one is ever sent.       *)
OneRuns ==
  /\ \A o, p \in Ours : Ran(o) /\ Ran(p) => o = p
  /\ \A o \in Ours : Has(o) # {} => request[o] \in {"made", "error"}
  /\ ~honours => request["second"] = "unsent"

(* What the API's record of the key says of the requests.                  *)
KeyIsRecord ==
  /\ orderKey \in {"free", "refused"} => \A o \in Ours : ~Ran(o)
  /\ orderKey = "free" => \A o \in Ours : request[o] \in {"unsent", "sent", "denied", "error"}
  /\ orderKey = "refused" /\ ~honours => \A o \in Ours : request[o] # "sent"
  /\ orderKey \in Ours => Has(orderKey) # {}
  /\ \A o \in Ours :
        /\ request[o] = "refused" => orderKey = "refused"
        /\ request[o] = "made" => IF honours THEN orderKey \in Ours ELSE Has(o) # {}

(* What the command knows of its requests where it is.                     *)
CommandKnows ==
  /\ clStep \in {"snapshot", "order", "aborted"} =>
       orderKey = "free" /\ \A o \in Ours : request[o] = "unsent"
  /\ clStep \in {"answer", "resend"} => request["second"] = "unsent"
  /\ clStep = "resend" => honours
  /\ clStep = "refused" =>
       orderKey = "refused" \/ (request["first"] = "denied" /\ request["second"] = "unsent")
  /\ podIds # {} => \E c \in Ours : podIds = Of(c) /\ Has(c) # {}
  /\ clStep = "not_listed" => podIds # {}

(* The cluster of before is known, or all of it is gone.                   *)
OlderIsKnown ==
  /\ known \cap Ours = {}
  /\ \A m \in rows : member[m] # "gone"
  /\ clStep = "snapshot" => \A m \in Of("older") : m \in rows \/ member[m] = "gone"
  /\ clStep \notin {"snapshot", "aborted"} /\ "older" \notin known =>
       \A m \in Of("older") : member[m] = "gone"

(* Schedules begin with the cluster handed back, and reach only it.        *)
EndsAreOfHanded ==
  /\ clStep \notin Past => memberEnds = {} /\ unscheduled = {} /\ toSchedule = {}
  /\ clStep = "wait" => unscheduled = {}
  /\ \A m \in toSchedule : member[m] # "none"

ClustersInv ==
  /\ ClustersTypeOK /\ OneRuns /\ KeyIsRecord /\ CommandKnows /\ OlderIsKnown /\ EndsAreOfHanded
  /\ HandedBackWhole

-----------------------------------------------------------------------------
LEMMA OfFacts ==
  /\ ClusterIds = {"first", "second", "older", "other"}
  /\ \A c \in ClusterIds : Of(c) # {} /\ Of(c) \subseteq Members
  /\ \A c, d \in ClusterIds : c # d => Of(c) \cap Of(d) = {}
  /\ \A m \in Members : m[1] \in ClusterIds /\ m \in Of(m[1])
<1>1. ClusterIds = {"first", "second", "older", "other"}
  BY DEF ClusterIds, Ours
<1>2. \A c \in ClusterIds : Of(c) # {} /\ Of(c) \subseteq Members
  <2> SUFFICES ASSUME NEW c \in ClusterIds PROVE Of(c) # {} /\ Of(c) \subseteq Members
    OBVIOUS
  <2>1. PICK r \in Ranks : TRUE
    BY ClusterAssumption
  <2>2. <<c, r>> \in Of(c)
    BY <2>1 DEF Of
  <2> QED
    BY <2>2 DEF Of, Members
<1>3. \A c, d \in ClusterIds : c # d => Of(c) \cap Of(d) = {}
  BY DEF Of
<1>4. \A m \in Members : m[1] \in ClusterIds /\ m \in Of(m[1])
  BY DEF Of, Members
<1> QED
  BY <1>1, <1>2, <1>3, <1>4

LEMMA HasIs == \A c : (Has(c) # {}) <=> \E m \in Of(c) : member[m] # "none"
  BY DEF Has

LEMMA ClustersInitInv == ClustersInit => ClustersInv
<1> SUFFICES ASSUME ClustersInit PROVE ClustersInv
  OBVIOUS
<1> USE DEF ClustersInit
<1>1. \A o \in Ours : Has(o) = {}
  BY OfFacts DEF Has, Ours
<1>2. ClustersTypeOK
  <2>1. honours \in BOOLEAN
    BY Zenon
  <2> QED
    BY <2>1, OfFacts DEF ClustersTypeOK
<1>3. OneRuns /\ KeyIsRecord
  BY <1>1, OfFacts DEF OneRuns, KeyIsRecord, Ran, Ours
<1>4. CommandKnows /\ OlderIsKnown
  BY OfFacts DEF CommandKnows, OlderIsKnown
<1>5. EndsAreOfHanded /\ HandedBackWhole
  BY DEF EndsAreOfHanded, HandedBackWhole, Past
<1> QED
  BY <1>2, <1>3, <1>4, <1>5 DEF ClustersInv

LEMMA ClustersInvImplies == ClustersInv => ClusterKeepsItsWord
<1> SUFFICES ASSUME ClustersInv PROVE OneOrderOneCluster
  BY DEF ClusterKeepsItsWord, ClustersInv
<1>1. OursMade # Ours
  BY DEF ClustersInv, OneRuns, Ran, OursMade, Ours
<1>2. clStep \in {"refused", "aborted"} => OursMade = {}
  BY DEF ClustersInv, OneRuns, KeyIsRecord, CommandKnows, Ran, OursMade, Ours
<1>3. clStep = "not_listed" => OursMade # {}
  BY DEF ClustersInv, CommandKnows, OursMade
<1> QED
  BY <1>1, <1>2, <1>3 DEF OneOrderOneCluster

(* Steps of the command leave the clusters as they are; of the requests    *)
(* they can only send one.                                                 *)
LEMMA SnapshotInv == ClustersInv /\ SnapshotClusters => ClustersInv'
<1> SUFFICES ASSUME ClustersInv, SnapshotClusters PROVE ClustersInv'
  OBVIOUS
<1> USE DEF ClustersInv, SnapshotClusters, serverSide, orderVars, ClGoes
<1>1. UNCHANGED <<honours, request, orderKey, podIds, rows, member, memberEnds, handed,
                  unscheduled, toSchedule>>
  OBVIOUS
<1>2. OneRuns' /\ KeyIsRecord'
  BY <1>1 DEF OneRuns, KeyIsRecord, Ran, Has
<1>3. ClustersTypeOK'
  BY <1>1 DEF ClustersTypeOK, ClusterExits
<1>4. CommandKnows'
  BY <1>1 DEF CommandKnows, Has
<1>5. \A o \in Ours : Shown(o) = {}
  BY HasIs, OfFacts DEF ClustersTypeOK, CommandKnows, OneRuns, Shown, Ours
<1>6. OlderIsKnown'
  <2>1. known' \cap Ours = {}
    BY <1>5 DEF OlderIsKnown
  <2>2. clStep' # "aborted" /\ "older" \notin known' => Shown("older") = {}
    BY OfFacts
  <2> QED
    BY <1>1, <2>1, <2>2 DEF OlderIsKnown, Shown
<1>7. EndsAreOfHanded' /\ HandedBackWhole'
  BY <1>1 DEF EndsAreOfHanded, HandedBackWhole, Past
<1> QED
  BY <1>2, <1>3, <1>4, <1>6, <1>7

LEMMA OrderStepInv == ClustersInv /\ OrderStep => ClustersInv'
<1> SUFFICES ASSUME ClustersInv, OrderStep PROVE ClustersInv'
  OBVIOUS
<1> USE DEF ClustersInv, serverSide, upSide, orderVars, ClGoes
<1>1. ASSUME NEW from, NEW to, NEW o,
             \/ from = "order" /\ to = "answer" /\ o = "first"
             \/ from = "resend" /\ to = "reanswer" /\ o = "second",
             SendOrder(from, to, o)
      PROVE  ClustersInv'
  <2>1. /\ UNCHANGED <<clAsk, honours, known, podIds, handed, unscheduled, toSchedule, orderKey,
                       rows, member, memberEnds>>
        /\ o \in Ours /\ clStep' = to /\ clStep \in {"order", "resend"}
        /\ request' = [request EXCEPT ![o] = "sent"] /\ request[o] = "unsent"
        /\ o = "first" => orderKey = "free" /\ to = "answer" /\ request["second"] = "unsent"
        /\ o = "second" => honours /\ to = "reanswer"
    BY <1>1 DEF SendOrder, CommandKnows, Ours
  <2>a. DOMAIN request = Ours /\ to \in {"answer", "reanswer"}
    BY <2>1 DEF ClustersTypeOK, Ours
  <2>2. ClustersTypeOK'
    BY <2>1, <2>a DEF ClustersTypeOK, OverOrders, ClusterExits
  <2>3. OneRuns'
    BY <2>1, <2>a DEF OneRuns, Ran, Has, CommandKnows, Ours
  <2>4. KeyIsRecord'
    BY <2>1, <2>a DEF KeyIsRecord, Ran, Has, CommandKnows, Ours
  <2>5. CommandKnows'
    BY <2>1, <2>a DEF CommandKnows, Has, Ours
  <2>6. OlderIsKnown' /\ EndsAreOfHanded' /\ HandedBackWhole'
    BY <2>1, <2>a DEF OlderIsKnown, EndsAreOfHanded, HandedBackWhole, Past
  <2> QED
    BY <2>2, <2>3, <2>4, <2>5, <2>6
<1>2. ASSUME /\ UNCHANGED <<clAsk, honours, known, handed, unscheduled, toSchedule, request,
                            orderKey, rows, member, memberEnds>>
             /\ clStep \in {"answer", "reanswer"}
             /\ podIds' \in {{}} \cup {Of(c) : c \in Ours} /\ CommandKnows'
             /\ clStep' \in {"resend", "find", "refused"}
      PROVE  ClustersInv'
  <2>1. ClustersTypeOK'
    BY <1>2 DEF ClustersTypeOK, ClusterExits
  <2>2. OneRuns' /\ KeyIsRecord'
    BY <1>2 DEF OneRuns, KeyIsRecord, Ran, Has
  <2>3. OlderIsKnown' /\ EndsAreOfHanded' /\ HandedBackWhole'
    BY <1>2 DEF OlderIsKnown, EndsAreOfHanded, HandedBackWhole, Past
  <2> QED
    BY <1>2, <2>1, <2>2, <2>3
<1>3. CASE LostOrder
  BY <1>2, <1>3 DEF LostOrder, AfterLost, CommandKnows, ClustersTypeOK, Has
<1>4. CASE LostAgain
  BY <1>2, <1>4 DEF LostAgain, CommandKnows, ClustersTypeOK, Has
<1>5. ASSUME NEW from \in {"answer", "reanswer"}, NEW o \in Ours, Confirmed(from,
             o) PROVE ClustersInv'
  \* the cluster of the answer is one the API made
  <2>1. podIds' # {} => \E c \in Ours : podIds' = Of(c) /\ Has(c) # {}
    BY <1>5 DEF Confirmed, KeyIsRecord
  <2>2. CommandKnows' /\ podIds' \in {{}} \cup {Of(c) : c \in Ours}
    BY <1>5, <2>1 DEF Confirmed, CommandKnows, Has
  <2> QED
    BY <1>2, <1>5, <2>2 DEF Confirmed
<1>6. CASE RefusedOrder
  BY <1>2, <1>6 DEF RefusedOrder, CommandKnows, KeyIsRecord, ClustersTypeOK, Has, Ours
<1>7. CASE RefusedAgain
  BY <1>2, <1>7 DEF RefusedAgain, CommandKnows, KeyIsRecord, ClustersTypeOK, Has, Ours
<1> QED
  BY <1>1, <1>3, <1>4, <1>5, <1>6, <1>7 DEF OrderStep, Ours

LEMMA FindClusterInv == ClustersInv /\ FindCluster => ClustersInv'
<1> SUFFICES ASSUME ClustersInv, FindCluster PROVE ClustersInv'
  OBVIOUS
<1> USE DEF ClustersInv, serverSide, orderVars
<1>1. UNCHANGED <<clAsk, honours, known, podIds, unscheduled, request, orderKey, rows, member,
                  memberEnds>> /\ clStep = "find"
  BY DEF FindCluster
<1>2. OneRuns' /\ KeyIsRecord' /\ OlderIsKnown'
  BY <1>1 DEF OneRuns, KeyIsRecord, Ran, Has, OlderIsKnown, FindCluster, AfterRent
<1>3. unscheduled = {} /\ toSchedule = {} /\ memberEnds = {}
  BY <1>1 DEF EndsAreOfHanded, Past
<1>4. ASSUME NEW c \in FoundAmong, handed' = c, clStep' = AfterRent,
             toSchedule' = IF clAsk.ttl THEN Shown(c) ELSE {}
      PROVE  ClustersInv'
  <2>1. c \in ClusterIds /\ c \notin known /\ Shown(c) = Of(c) /\ Shown(c) # {}
    <3>1. CASE podIds # {}
      BY <1>4, <3>1, OfFacts DEF FoundAmong, Shown, OlderIsKnown, Ours
    <3>2. CASE podIds = {}
      BY <1>4, <3>2 DEF FoundAmong
    <3> QED
      BY <3>1, <3>2
  <2>2. c \in Ours \/ Has("other") # {}
    <3>1. c # "older"
      BY <1>1, <2>1 DEF OlderIsKnown, Shown
    <3>2. Has(c) # {}
      BY <2>1, HasIs DEF ClustersTypeOK, Shown
    <3> QED
      BY <2>1, <3>1, <3>2 DEF ClusterIds
  <2>3. clStep' \in {"schedule", "wait", "ok"}
    BY <1>4 DEF AfterRent
  <2>4. ClustersTypeOK'
    BY <1>1, <1>3, <1>4, <2>1, <2>3, OfFacts DEF ClustersTypeOK, ClusterExits
  <2>5. CommandKnows'
    BY <1>1, <2>3 DEF CommandKnows, Has
  <2>6. EndsAreOfHanded'
    BY <1>1, <1>3, <1>4, <2>3 DEF EndsAreOfHanded, Past, ClustersTypeOK, Shown
  <2>7. HandedBackWhole'
    <3>1. handed' \notin known' /\ (handed' \in Ours \/ Has("other")' # {})
      BY <1>1, <1>4, <2>1, <2>2 DEF Has
    <3>2. clAsk'.ttl => memberEnds' \cup unscheduled' \cup toSchedule' = Of(handed')
      BY <1>1, <1>3, <1>4, <2>1
    <3> QED
      BY <3>1, <3>2, <1>1, <1>3 DEF HandedBackWhole
  <2> QED
    BY <1>2, <2>4, <2>5, <2>6, <2>7
<1>5. ASSUME clStep' = IF podIds # {} THEN "not_listed" ELSE "uncertain", UNCHANGED <<handed,
                                                                                      toSchedule>>
      PROVE  ClustersInv'
  <2>1. ClustersTypeOK'
    BY <1>1, <1>5 DEF ClustersTypeOK, ClusterExits
  <2>2. CommandKnows'
    BY <1>1, <1>5 DEF CommandKnows, Has
  <2>3. EndsAreOfHanded' /\ HandedBackWhole'
    BY <1>1, <1>3, <1>5 DEF EndsAreOfHanded, HandedBackWhole, Past
  <2> QED
    BY <1>2, <2>1, <2>2, <2>3
<1> QED
  BY <1>4, <1>5 DEF FindCluster

LEMMA ScheduleMemberInv == ClustersInv /\ ScheduleMember => ClustersInv'
<1> SUFFICES ASSUME ClustersInv, ScheduleMember PROVE ClustersInv'
  OBVIOUS
<1> USE DEF ClustersInv, orderVars
<1>1. /\ UNCHANGED <<clAsk, honours, known, podIds, handed, request, orderKey, rows, member>>
      /\ clStep = "schedule"
      /\ clStep' = IF toSchedule' # {} THEN "schedule"
                   ELSE IF unscheduled' # {} THEN "ttl_failed" ELSE IF clAsk.wait THEN "wait" ELSE "ok"
  BY DEF ScheduleMember
<1>2. PICK m \in toSchedule :
        /\ toSchedule' = toSchedule \ {m}
        /\ \/ memberEnds' = memberEnds \cup {m} /\ unscheduled' = unscheduled
           \/ unscheduled' = unscheduled \cup {m}
              /\ memberEnds' \in {memberEnds, memberEnds \cup {m}}
  BY DEF ScheduleMember
<1>3. clStep' \in {"schedule", "ttl_failed", "wait", "ok"}
  BY <1>1
<1>4. OneRuns' /\ KeyIsRecord' /\ OlderIsKnown' /\ CommandKnows'
  BY <1>1, <1>3 DEF OneRuns, KeyIsRecord, Ran, Has, OlderIsKnown, CommandKnows
<1>5. ClustersTypeOK'
  BY <1>1, <1>2, <1>3 DEF ClustersTypeOK, ClusterExits, EndsAreOfHanded
<1>6. EndsAreOfHanded'
  BY <1>1, <1>2, <1>3 DEF EndsAreOfHanded, Past
<1>7. HandedBackWhole'
  <2>1. clAsk'.ttl => memberEnds' \cup unscheduled' \cup toSchedule' = Of(handed')
    BY <1>1, <1>2 DEF HandedBackWhole, Past
  <2>2. clStep' = "ok" => unscheduled' = {}
    BY <1>1
  <2>3. handed' \notin known' /\ (handed' \in Ours \/ Has("other")' # {})
    BY <1>1 DEF HandedBackWhole, Past, Has
  <2> QED
    BY <2>1, <2>2, <2>3 DEF HandedBackWhole
<1> QED
  BY <1>4, <1>5, <1>6, <1>7

LEMMA WaitClusterInv == ClustersInv /\ WaitCluster => ClustersInv'
<1> SUFFICES ASSUME ClustersInv, WaitCluster PROVE ClustersInv'
  OBVIOUS
<1> USE DEF ClustersInv, orderVars, upSide, serverSide
<1>1. /\ UNCHANGED <<clAsk, honours, known, podIds, handed, unscheduled, toSchedule, request,
                     orderKey, rows, member, memberEnds>>
      /\ clStep = "wait" /\ clStep' \in {"ok", "member_failed", "not_ready"}
  BY DEF WaitCluster
<1>2. OneRuns' /\ KeyIsRecord' /\ OlderIsKnown' /\ CommandKnows'
  BY <1>1 DEF OneRuns, KeyIsRecord, Ran, Has, OlderIsKnown, CommandKnows
<1>3. ClustersTypeOK'
  BY <1>1 DEF ClustersTypeOK, ClusterExits
<1>4. EndsAreOfHanded' /\ HandedBackWhole'
  BY <1>1 DEF EndsAreOfHanded, HandedBackWhole, Past, Has
<1> QED
  BY <1>2, <1>3, <1>4

(* What every step of the API, and of another client, does to members:     *)
(* none that exists is forgotten, what is listed exists and is not gone,   *)
(* and one of the older cluster that is gone stays gone.                   *)
MembersStay ==
  /\ member' \in [Members -> {"none", "booting", "running", "dead", "gone"}]
  /\ rows' \subseteq Members
  /\ \A m \in Members : member[m] # "none" => member'[m] # "none"
  /\ \A m \in rows' : member'[m] \notin {"none", "gone"}
  /\ \A m \in Of("older") :
        /\ member[m] = "gone" => member'[m] = "gone"
        /\ m \in rows \ rows' => member'[m] = "gone"

LEMMA ServerStepInv ==
  ASSUME ClustersInv, UNCHANGED <<clStep, upSide, memberEnds>>, MembersStay,
         request' \in [Ours -> {"unsent", "sent", "running"} \cup OverOrders],
         orderKey' \in {"free", "pending", "unknown", "refused"} \cup Ours,
         OneRuns', KeyIsRecord',
         \A o \in Ours : request[o] = "unsent" => request'[o] = "unsent",
         \A o \in Ours : request[o] = "denied" => request'[o] = "denied",
         orderKey = "free" /\ (\A o \in Ours : request[o] = "unsent") => orderKey' = "free",
         clStep = "refused" /\ orderKey = "refused" => orderKey' = "refused"
  PROVE  ClustersInv'
<1> USE DEF ClustersInv, upSide
<1>1. ClustersTypeOK'
  BY DEF ClustersTypeOK, MembersStay
<1>2. ASSUME NEW c \in ClusterIds, Has(c) # {} PROVE Has(c)' # {}
  <2>1. PICK m \in Of(c) : member[m] # "none"
    BY <1>2, HasIs
  <2>2. member'[m] # "none"
    BY <2>1, OfFacts DEF MembersStay
  <2> QED
    BY <2>2 DEF Has
<1>3. CommandKnows'
  <2>1. podIds' # {} => \E c \in Ours : podIds' = Of(c) /\ Has(c)' # {}
    BY <1>2, OfFacts DEF CommandKnows, Ours
  <2>2. clStep' \in {"snapshot", "order", "aborted"} =>
          orderKey' = "free" /\ \A o \in Ours : request'[o] = "unsent"
    BY DEF CommandKnows
  <2>3. /\ clStep' \in {"answer", "resend"} => request'["second"] = "unsent"
        /\ clStep' = "refused" =>
             orderKey' = "refused" \/ (request'["first"] = "denied"
                                       /\ request'["second"] = "unsent")
    BY DEF CommandKnows, Ours
  <2> QED
    BY <2>1, <2>2, <2>3 DEF CommandKnows
<1>4. OlderIsKnown'
  BY OfFacts DEF OlderIsKnown, MembersStay
<1>5. EndsAreOfHanded'
  BY DEF EndsAreOfHanded, MembersStay, Past, ClustersTypeOK
<1>6. HandedBackWhole'
  BY <1>2, OfFacts DEF HandedBackWhole
<1> QED
  BY <1>1, <1>3, <1>4, <1>5, <1>6

(* Steps that make no cluster of this order leave what has run.            *)
LEMMA RanStays ==
  ASSUME ClustersTypeOK, MembersStay, UNCHANGED orderVars, honours' = honours, OneRuns, KeyIsRecord,
         \A m \in Of("first") \cup Of("second") : member[m] = "none" => member'[m] = "none"
  PROVE  OneRuns' /\ KeyIsRecord'
<1>1. \A o \in Ours : (Has(o)' = {}) <=> (Has(o) = {})
  BY OfFacts DEF Ours, Has, MembersStay
<1>2. \A o \in Ours : Ran(o)' <=> Ran(o)
  BY <1>1 DEF Ran, orderVars
<1>3. OneRuns'
  BY <1>1, <1>2 DEF OneRuns, orderVars
<1>4. KeyIsRecord'
  BY <1>1, <1>2 DEF KeyIsRecord, orderVars
<1> QED
  BY <1>3, <1>4

LEMMA MembersOnlyInv ==
  ASSUME ClustersInv, UNCHANGED <<clStep, upSide, orderVars, memberEnds>>, MembersStay,
         \A m \in Of("first") \cup Of("second") : member[m] = "none" => member'[m] = "none"
  PROVE  ClustersInv'
<1>1. OneRuns' /\ KeyIsRecord'
  BY RanStays DEF ClustersInv, upSide
<1>2. UNCHANGED <<request, orderKey>>
  BY DEF orderVars
<1> QED
  BY <1>1, <1>2, ServerStepInv DEF ClustersInv, ClustersTypeOK

LEMMA RmClusterInv == ClustersInv /\ RmCluster => ClustersInv'
<1> SUFFICES ASSUME ClustersInv, RmCluster PROVE ClustersInv'
  OBVIOUS
<1>1. PICK c \in Followed : \E removed \in SUBSET Billing(c) :
        /\ member' = [m \in Members |-> IF m \in removed THEN "gone" ELSE member[m]]
        /\ rows' = rows \ removed
  BY DEF RmCluster
<1>2. PICK removed \in SUBSET Billing(c) :
        /\ member' = [m \in Members |-> IF m \in removed THEN "gone" ELSE member[m]]
        /\ rows' = rows \ removed
  BY <1>1
<1>3. \A m \in removed : member[m] \in {"booting", "running", "dead"}
  BY DEF Billing
<1>4. MembersStay
  BY <1>2, <1>3, OfFacts DEF MembersStay, ClustersInv, ClustersTypeOK, OlderIsKnown
<1>5. \A m \in Of("first") \cup Of("second") : member[m] = "none" => member'[m] = "none"
  BY <1>2, <1>3, OfFacts
<1> QED
  BY <1>4, <1>5, MembersOnlyInv DEF RmCluster

LEMMA OtherClusterInv == ClustersInv /\ OtherClusterRented => ClustersInv'
<1> SUFFICES ASSUME ClustersInv, OtherClusterRented PROVE ClustersInv'
  OBVIOUS
<1>1. /\ member' = [m \in Members |-> IF m \in Of("other") THEN "running" ELSE member[m]]
      /\ rows' = rows /\ \A m \in Of("other") : member[m] = "none"
  BY HasIs DEF OtherClusterRented
<1>2. MembersStay
  BY <1>1, OfFacts DEF MembersStay, ClustersInv, ClustersTypeOK, OlderIsKnown
<1>3. \A m \in Of("first") \cup Of("second") : member[m] = "none" => member'[m] = "none"
  BY <1>1, OfFacts
<1> QED
  BY <1>2, <1>3, MembersOnlyInv DEF OtherClusterRented

LEMMA MemberStepInv == ASSUME ClustersInv, NEW m \in Members, MemberListed(m) \/ MemberTurns(m)
                       PROVE  ClustersInv'
<1> USE DEF ClustersInv, ClustersTypeOK
<1>1. CASE MemberListed(m)
  <2>1. member' = member /\ rows' = rows \cup {m} /\ member[m] \in {"booting", "running", "dead"}
    BY <1>1 DEF MemberListed, Billing
  <2>2. MembersStay
    BY <2>1, OfFacts DEF MembersStay, OlderIsKnown
  <2> QED
    BY <1>1, <2>1, <2>2, MembersOnlyInv DEF MemberListed
<1>2. CASE MemberTurns(m)
  <2>1. PICK to \in {"running", "dead"} : member' = [member EXCEPT ![m] = to]
    BY <1>2 DEF MemberTurns
  <2>2. rows' = rows /\ member[m] = "booting"
    BY <1>2 DEF MemberTurns
  <2>3. MembersStay
    BY <2>1, <2>2, OfFacts DEF MembersStay, OlderIsKnown
  <2>4. \A n \in Of("first") \cup Of("second") : member[n] = "none" => member'[n] = "none"
    BY <2>1, <2>2, OfFacts
  <2> QED
    BY <1>2, <2>3, <2>4, MembersOnlyInv DEF MemberTurns
<1> QED
  BY <1>1, <1>2

(* An order made, turned away or answered from the record.                 *)
LEMMA ApiOrderInv == ASSUME ClustersInv, NEW o \in Ours, ApiOrderStep(o) PROVE ClustersInv'
<1> USE DEF ClustersInv, upSide
<1>1. request \in [Ours -> {"unsent", "sent", "running"} \cup OverOrders]
  BY DEF ClustersTypeOK
<1>2. UNCHANGED member /\ UNCHANGED rows => MembersStay
  BY OfFacts DEF MembersStay, ClustersTypeOK, OlderIsKnown
<1>3. CASE TurnOrderAway(o)
  <2>1. PICK how \in {"denied", "error"} : request' = [request EXCEPT ![o] = how]
    BY <1>3 DEF TurnOrderAway
  <2>2. /\ UNCHANGED <<clStep, upSide, orderKey, rows, member, memberEnds>> /\ request[o] = "sent"
    BY <1>3 DEF TurnOrderAway
  <2>3. OneRuns'
    BY <1>1, <2>1, <2>2 DEF OneRuns, Ran, Has, Ours
  <2>4. KeyIsRecord'
    BY <1>1, <2>1, <2>2 DEF KeyIsRecord, Ran, Has, Ours
  <2>5. request' \in [Ours -> {"unsent", "sent", "running"} \cup OverOrders]
    BY <1>1, <2>1 DEF OverOrders
  <2> QED
    BY <1>1, <1>2, <2>1, <2>2, <2>3, <2>4, <2>5, ServerStepInv DEF ClustersTypeOK
<1>4. CASE StartOrder(o)
  <2>1. /\ UNCHANGED <<clStep, upSide, rows, member, memberEnds>> /\ request[o] = "sent"
        /\ request' = [request EXCEPT ![o] = "running"] /\ orderKey' = "pending"
        /\ (honours => orderKey = "free")
    BY <1>4 DEF StartOrder
  <2>2. \A p \in Ours : p # o => ~Ran(p) /\ request[p] # "refused" /\ (request[p] = "made" => FALSE)
    BY <2>1 DEF OneRuns, KeyIsRecord, Ran, Ours
  <2>3. OneRuns'
    BY <1>1, <2>1, <2>2 DEF OneRuns, Ran, Has, Ours
  <2>4. KeyIsRecord'
    BY <1>1, <2>1, <2>2 DEF KeyIsRecord, Ran, Has, Ours
  <2>5. request' \in [Ours -> {"unsent", "sent", "running"} \cup OverOrders]
    BY <1>1, <2>1
  <2>6. orderKey # "refused" \/ clStep # "refused"
    BY <2>1 DEF KeyIsRecord
  <2> QED
    BY <1>1, <1>2, <2>1, <2>3, <2>4, <2>5, <2>6, ServerStepInv
<1>5. CASE RepeatOrder(o)
  <2>1. /\ UNCHANGED <<clStep, upSide, orderKey, rows, member, memberEnds>> /\ request[o] = "sent"
        /\ honours /\ orderKey # "free"
    BY <1>5 DEF RepeatOrder
  <2>2. PICK to \in {"made", "refused", "busy"} :
          /\ request' = [request EXCEPT ![o] = to]
          /\ to = "made" => orderKey \in Ours
          /\ to = "refused" => orderKey = "refused"
    BY <1>5 DEF RepeatOrder
  <2>3. OneRuns'
    BY <1>1, <2>1, <2>2 DEF OneRuns, Ran, Has, Ours
  <2>4. KeyIsRecord'
    BY <1>1, <2>1, <2>2 DEF KeyIsRecord, Ran, Has, Ours
  <2>5. request' \in [Ours -> {"unsent", "sent", "running"} \cup OverOrders]
    BY <1>1, <2>2 DEF OverOrders
  <2> QED
    BY <1>1, <1>2, <2>1, <2>2, <2>3, <2>4, <2>5, ServerStepInv DEF ClustersTypeOK
<1>6. CASE EndOrder(o)
  <2>1. UNCHANGED <<clStep, upSide, rows, memberEnds>> /\ request[o] = "running"
    BY <1>6 DEF EndOrder
  <2>2. Has(o) = {} /\ orderKey \notin {"free", "refused"}
    BY <2>1 DEF OneRuns, KeyIsRecord, Ran
  <2>3. \A p \in Ours : p # o => ~Ran(p)
    BY <2>1 DEF OneRuns, Ran
  <2>4. orderKey \notin Ours
    BY <2>2, <2>3 DEF KeyIsRecord, Ran
  <2>5. \A p \in Ours : request[p] \notin {"made", "refused"}
    BY <2>1, <2>2, <2>3, <2>4 DEF KeyIsRecord, Ran
  <2>6. ASSUME request' = [request EXCEPT ![o] = "refused"], orderKey' = "refused", UNCHANGED member
        PROVE  ClustersInv'
    <3>1. OneRuns'
      BY <1>1, <2>1, <2>2, <2>3, <2>6 DEF OneRuns, Ran, Has, Ours
    <3>2. KeyIsRecord'
      BY <1>1, <2>1, <2>2, <2>3, <2>5, <2>6 DEF KeyIsRecord, OneRuns, Ran, Has, Ours
    <3>3. request' \in [Ours -> {"unsent", "sent", "running"} \cup OverOrders]
      BY <1>1, <2>6 DEF OverOrders
    <3> QED
      BY <1>1, <1>2, <2>1, <2>2, <2>6, <3>1, <3>2, <3>3, ServerStepInv
  <2>7. ASSUME NEW how \in {"made", "error"}, request' = [request EXCEPT ![o] = how],
               orderKey' \in {o, "unknown"}, how = "made" => orderKey' = o,
               member' = [m \in Members |-> IF m \in Of(o) THEN "booting" ELSE member[m]]
        PROVE  ClustersInv'
    <3>1. \A m \in Of(o) : member[m] = "none"
      BY <2>2 DEF Has
    <3>2. MembersStay
      BY <2>1, <2>7, <3>1, OfFacts DEF MembersStay, ClustersTypeOK, OlderIsKnown, Ours
    <3>3. Has(o)' # {} /\ \A p \in Ours : p # o => Has(p)' = {}
      BY <2>3, <2>7, OfFacts DEF Has, Ran, Ours
    <3>4. OneRuns'
      BY <1>1, <2>1, <2>3, <2>7, <3>3 DEF OneRuns, Ran, Ours
    <3>5. KeyIsRecord'
      BY <1>1, <2>1, <2>5, <2>7, <3>3 DEF KeyIsRecord, Ours
    <3>6. request' \in [Ours -> {"unsent", "sent", "running"} \cup OverOrders]
      BY <1>1, <2>7 DEF OverOrders
    <3> QED
      BY <1>1, <2>1, <2>2, <2>7, <3>2, <3>4, <3>5, <3>6, ServerStepInv
  <2> QED
    BY <1>6, <2>6, <2>7 DEF EndOrder
<1> QED
  BY <1>3, <1>4, <1>5, <1>6 DEF ApiOrderStep

LEMMA ClustersNextInv == ClustersInv /\ [ClustersNext]_clusterVars => ClustersInv'
<1> SUFFICES ASSUME ClustersInv, [ClustersNext]_clusterVars PROVE ClustersInv'
  OBVIOUS
<1>1. CASE UNCHANGED clusterVars
  BY <1>1 DEF clusterVars, orderVars, ClustersInv, ClustersTypeOK, OneRuns, KeyIsRecord, Ran, Has,
       CommandKnows,
     OlderIsKnown, EndsAreOfHanded, HandedBackWhole
<1>2. CASE ClustersNext
  BY <1>2, SnapshotInv, OrderStepInv, FindClusterInv, ScheduleMemberInv, WaitClusterInv,
       RmClusterInv,
     OtherClusterInv, ApiOrderInv, MemberStepInv DEF ClustersNext
<1> QED
  BY <1>1, <1>2

(* One `lium clusters up` rents one cluster at most, says whether it may   *)
(* have, and hands back all of a cluster that is new, with an end for each *)
(* member or its name (clusters_up_command over up_cluster), whatever      *)
(* answers are lost and in whatever order the API takes the requests.      *)
THEOREM ClusterWordIsKept == ClustersSpec => []ClusterKeepsItsWord
<1>1. ClustersSpec => []ClustersInv
  BY ClustersInitInv, ClustersNextInv, PTL DEF ClustersSpec
<1> QED
  BY <1>1, ClustersInvImplies, PTL

-----------------------------------------------------------------------------
(* What the types of StorageSetup say beyond HostInv.                      *)

(* The new filesystem is made before anything mounts it, and its image     *)
(* file goes only once nothing does.                                       *)
Made == {"probe", "unprobe", "daemon", "fstab", "dropin", "udev", "mkdir"} \cup Placed
TargetIsThere ==
  /\ host.mounts \cap {"target", "probe"} # {} => host.target # "none"
  /\ stage \in Made => host.target # "none"
SetupBounds ==
  /\ flags \subseteq Flags /\ errors \in BOOLEAN /\ unmasked \in BOOLEAN
  /\ faults \in 0..MaxFaults /\ reboots \in 0..MaxReboots
SetupInv == HostInv /\ TargetIsThere /\ SetupBounds

LEMMA SetupFlagsNext == flags \subseteq Flags /\ SetupNext => flags' \subseteq Flags
<1> SUFFICES ASSUME flags \subseteq Flags, SetupNext PROVE flags' \subseteq Flags
  OBVIOUS
<1>1. CASE \/ Checks \/ Verify \/ RemoveBackup \/ StopAgain \/ Look \/ UnmountTarget
           \/ RemountOriginal \/ MoveBack \/ Confirm \/ RestoreFstab \/ RestoreConfig
           \/ RemoveImage \/ MaskAgain \/ StartAgain \/ Crash \/ Reboot
  <2>1. flags' = flags
    BY <1>1, Zenon
    DEF Checks, Verify, RemoveBackup, StopAgain, Look, UnmountTarget, RemountOriginal, MoveBack,
        Confirm, RestoreFstab, RestoreConfig, RemoveImage, MaskAgain, StartAgain, Crash, Reboot,
        Attempt
  <2> QED BY <2>1
<1>2. ASSUME NEW from, NEW to, NEW pre \in SUBSET Flags, NEW post \in SUBSET Flags, NEW after,
             Command(from, to, pre, post, after)
      PROVE  flags' \subseteq Flags
  BY <1>2 DEF Command
<1>3. CASE \/ StopDocker \/ MaskDocker \/ Format \/ MountProbe \/ CheckProbe \/ MakeRoot
           \/ MountTarget \/ CheckMount \/ RestoreData \/ StartDocker
  <2>1. {} \in SUBSET Flags /\ {"owed"} \in SUBSET Flags /\ {"masked"} \in SUBSET Flags
        /\ {"mounted"} \in SUBSET Flags /\ {"mayRun"} \in SUBSET Flags
    BY DEF Flags
  <2>2. \E from, to, after : \E pre, post \in SUBSET Flags : Command(from, to, pre, post, after)
    BY <1>3, <2>1, Zenon
    DEF StopDocker, MaskDocker, Format, MountProbe, CheckProbe, MakeRoot, MountTarget, CheckMount,
        RestoreData, StartDocker
  <2> QED BY <1>2, <2>2
<1>4. CASE BackUp
  <2>1. PICK post \in {{"moved"}, {}} : \E after : Command("backup", "image", {}, post, after)
    BY <1>4 DEF BackUp
  <2> QED BY <1>2, <2>1 DEF Flags
<1>5. CASE WriteConfig
  <2>1. PICK f \in Files : \E to, after : Command(f, to, {f}, {}, after)
    BY <1>5 DEF WriteConfig
  <2>2. {f} \in SUBSET Flags
    BY DEF Files, Flags
  <2> QED BY <1>2, <2>1, <2>2
<1>6. CASE CreateTarget
  <2>1. flags' \in {flags, flags \cup {"created"}}
    BY <1>6, Zenon DEF CreateTarget, Command
  <2> QED BY <2>1 DEF Flags
<1>7. CASE UnmountOriginal \/ UnmaskDocker
  BY <1>7 DEF UnmountOriginal, UnmaskDocker, Flags
<1> QED BY <1>1, <1>3, <1>4, <1>5, <1>6, <1>7, Zenon DEF SetupNext

LEMMA SetupErrorsNext ==
  errors \in BOOLEAN /\ unmasked \in BOOLEAN /\ SetupNext =>
    errors' \in BOOLEAN /\ unmasked' \in BOOLEAN
<1> SUFFICES ASSUME errors \in BOOLEAN, unmasked \in BOOLEAN, SetupNext
             PROVE  errors' \in BOOLEAN /\ unmasked' \in BOOLEAN
  OBVIOUS
<1>1. errors' = errors \/ errors' = TRUE \/ \E more \in BOOLEAN : errors' = (errors \/ more)
  BY ZenonT(60)
  DEF SetupNext, Checks, StopDocker, MaskDocker, BackUp, CreateTarget, Format, MountProbe,
      CheckProbe, WriteConfig, MakeRoot, UnmountOriginal, MountTarget, CheckMount, RestoreData,
      UnmaskDocker, StartDocker, Verify, RemoveBackup, StopAgain, Look, UnmountTarget,
      RemountOriginal, MoveBack, Confirm, RestoreFstab, RestoreConfig, RemoveImage, MaskAgain,
      StartAgain, Crash, Reboot, Command, Attempt
<1>2. unmasked' = unmasked \/ unmasked' = ~host'.masked
  BY ZenonT(60)
  DEF SetupNext, Checks, StopDocker, MaskDocker, BackUp, CreateTarget, Format, MountProbe,
      CheckProbe, WriteConfig, MakeRoot, UnmountOriginal, MountTarget, CheckMount, RestoreData,
      UnmaskDocker, StartDocker, Verify, RemoveBackup, StopAgain, Look, UnmountTarget,
      RemountOriginal, MoveBack, Confirm, RestoreFstab, RestoreConfig, RemoveImage, MaskAgain,
      StartAgain, Crash, Reboot, Command, Attempt, KeepsRun
<1>3. errors' \in BOOLEAN
  BY <1>1, Zenon
<1>4. unmasked' \in BOOLEAN
  BY <1>2, Zenon
<1> QED BY <1>3, <1>4

LEMMA SetupCountsNext ==
  faults \in 0..MaxFaults /\ reboots \in 0..MaxReboots /\ SetupNext =>
    faults' \in 0..MaxFaults /\ reboots' \in 0..MaxReboots
<1> SUFFICES ASSUME faults \in 0..MaxFaults, reboots \in 0..MaxReboots, SetupNext
             PROVE  faults' \in 0..MaxFaults /\ reboots' \in 0..MaxReboots
  OBVIOUS
<1>1. faults' = faults \/ (faults < MaxFaults /\ faults' = faults + 1)
  BY ZenonT(60)
  DEF SetupNext, Checks, StopDocker, MaskDocker, BackUp, CreateTarget, Format, MountProbe,
      CheckProbe, WriteConfig, MakeRoot, UnmountOriginal, MountTarget, CheckMount, RestoreData,
      UnmaskDocker, StartDocker, Verify, RemoveBackup, StopAgain, Look, UnmountTarget,
      RemountOriginal, MoveBack, Confirm, RestoreFstab, RestoreConfig, RemoveImage, MaskAgain,
      StartAgain, Crash, Reboot, Command, Attempt, Fault
<1>2. reboots' = reboots \/ (reboots < MaxReboots /\ reboots' = reboots + 1)
  BY ZenonT(60)
  DEF SetupNext, Checks, StopDocker, MaskDocker, BackUp, CreateTarget, Format, MountProbe,
      CheckProbe, WriteConfig, MakeRoot, UnmountOriginal, MountTarget, CheckMount, RestoreData,
      UnmaskDocker, StartDocker, Verify, RemoveBackup, StopAgain, Look, UnmountTarget,
      RemountOriginal, MoveBack, Confirm, RestoreFstab, RestoreConfig, RemoveImage, MaskAgain,
      StartAgain, Crash, Reboot, Command, Attempt, KeepsRun
<1> QED BY <1>1, <1>2, SetupAssumption

LEMMA TargetStays == DataInv /\ Places /\ TargetIsThere /\ SetupNext => TargetIsThere'
<1> SUFFICES ASSUME DataInv, Places, TargetIsThere, SetupNext PROVE TargetIsThere'
  OBVIOUS
<1>h. host \in HostType /\ found \in FoundType
  BY DEF DataInv, Places
<1> USE <1>h DEF TargetIsThere, Made, Placed, Goes
<1>1. CASE Checks
  BY <1>1 DEF Checks
<1>2. ASSUME NEW from, NEW to, NEW pre, NEW post, NEW after \in HostType,
             Command(from, to, pre, post, after),
             after.mounts \cap {"target", "probe"} # {} => after.target # "none",
             to \in Made => after.target # "none"
      PROVE  TargetIsThere'
  <2>1. CASE host' = after /\ stage' = to
    BY <1>2, <2>1
  <2>2. CASE stage' = "rb_stop" /\ host' \in {host, after}
    BY <1>2, <2>2
  <2>3. CASE stage' = "rb_stop" /\ host' \in HalfDone
    <3>1. host'.mounts = host.mounts /\ (host'.target = host.target \/ stage = "restore")
      BY <2>3, HalfDoneFields
    <3>2. stage = "restore" => host'.target = "partial"
      BY <2>3 DEF HalfDone, HostType
    <3> QED BY <2>3, <3>1, <3>2
  <2> QED BY <1>2, <2>1, <2>2, <2>3 DEF Command
<1>3. CASE StopDocker \/ MaskDocker
  <2>1. [host EXCEPT !.docker = FALSE] \in HostType /\ [host EXCEPT !.masked = TRUE] \in HostType
        /\ [host EXCEPT !.docker = FALSE].mounts = host.mounts
        /\ [host EXCEPT !.docker = FALSE].target = host.target
        /\ [host EXCEPT !.masked = TRUE].mounts = host.mounts
        /\ [host EXCEPT !.masked = TRUE].target = host.target
    BY DEF HostType
  <2> QED BY <1>2, <1>3, <2>1 DEF StopDocker, MaskDocker
<1>4. CASE BackUp
  <2> DEFINE after == [host EXCEPT !.backup = Visible(host), !.base = IF Renames THEN "none" ELSE @]
  <2>1. after \in HostType /\ after.mounts = host.mounts /\ after.target = host.target
    BY DEF HostType, Visible, Roots
  <2>2. PICK post : Command("backup", "image", {}, post, after)
    BY <1>4 DEF BackUp
  <2> QED BY <1>2, <2>1, <2>2
<1>5. CASE CreateTarget
  <2>1. CASE ~layout.loop /\ Command("image", "format", {}, {}, host)
    BY <1>2, <2>1
  <2>2. CASE stage' \in {"format", "rb_stop"}
             /\ host' \in {host, [host EXCEPT !.image = TRUE]} \cup HalfDone /\ stage = "image"
    <3>1. host'.mounts = host.mounts /\ host'.target = host.target
      BY <2>2, HalfDoneFields DEF HostType
    <3> QED BY <2>2, <3>1
  <2> QED BY <1>5, <2>1, <2>2 DEF CreateTarget
<1>6. CASE Format
  <2>1. [host EXCEPT !.target = "blank"] \in HostType
        /\ [host EXCEPT !.target = "blank"].target = "blank"
    BY DEF HostType, Roots
  <2> QED BY <1>2, <1>6, <2>1 DEF Format
<1>7. CASE MountProbe \/ MountTarget \/ CheckProbe \/ CheckMount
  <2>1. stage \in Made /\ host.target # "none"
    BY <1>7 DEF MountProbe, MountTarget, CheckProbe, CheckMount, Command
  <2>2. \A m \in {"probe", "target"} :
           /\ Mounted(m) \in HostType /\ Mounted(m).target = host.target
           /\ Unmounted(m) \in HostType /\ Unmounted(m).target = host.target
    BY DEF HostType, Mounted, Unmounted
  <2> QED BY <1>2, <1>7, <2>1, <2>2 DEF MountProbe, MountTarget, CheckProbe, CheckMount
<1>8. CASE WriteConfig
  <2>1. PICK f \in Files : \E to : Command(f, to, {f}, {}, With(f, "new"))
    BY <1>8, Zenon DEF WriteConfig
  <2>2. With(f, "new") \in HostType /\ With(f, "new").mounts = host.mounts
        /\ With(f, "new").target = host.target /\ host.target # "none"
    BY <2>1 DEF HostType, With, Files, Command
  <2> QED BY <1>2, <2>1, <2>2
<1>9. CASE MakeRoot
  <2> DEFINE after == [host EXCEPT !.base = IF @ = "none" THEN "blank" ELSE @]
  <2>1. after \in HostType /\ after.mounts = host.mounts /\ after.target = host.target
    BY DEF HostType, Roots
  <2>2. PICK to : Command("mkdir", to, {}, {}, after)
    BY <1>9 DEF MakeRoot
  <2>3. host.target # "none"
    BY <2>2 DEF Command
  <2> QED BY <1>2, <2>1, <2>2, <2>3
<1>10. CASE UnmountOriginal
  BY <1>10 DEF UnmountOriginal, Unmounted, HostType
<1>11. CASE RestoreData
  <2>1. [host EXCEPT !.target = "full"] \in HostType
        /\ [host EXCEPT !.target = "full"].target = "full"
    BY DEF HostType, Roots
  <2> QED BY <1>2, <1>11, <2>1 DEF RestoreData
<1>12. CASE UnmaskDocker
  BY <1>12 DEF UnmaskDocker, HostType
<1>13. CASE StartDocker
  <2>1. Started(host) \in HostType /\ Started(host).mounts = host.mounts
        /\ Started(host).target # "none" /\ host.target # "none"
    BY <1>13, StartedFields DEF StartDocker, Command
  <2> QED BY <1>2, <1>13, <2>1 DEF StartDocker
<1>14. CASE Verify
  BY <1>14 DEF Verify
<1>15. CASE RemoveBackup
  <2>1. host'.mounts = host.mounts /\ host'.target = host.target /\ stage' = "done"
    BY <1>15, HalfDoneFields DEF RemoveBackup, HostType
  <2> QED BY <2>1
<1>16. ASSUME stage' \notin Made, host'.target = host.target,
              host'.mounts \subseteq host.mounts \cup {"orig"}
       PROVE  TargetIsThere'
  BY <1>16 DEF HostType
<1>17. CASE StopAgain \/ Look \/ UnmountTarget \/ RemountOriginal \/ MoveBack \/ Confirm
            \/ RestoreFstab \/ RestoreConfig \/ MaskAgain
  <2> USE <1>16
  <2>1. stage' \notin Made
    BY <1>17, ZenonT(60) DEF StopAgain, Look, UnmountTarget, RemountOriginal, MoveBack, Confirm,
         RestoreFstab, RestoreConfig, MaskAgain, Attempt, Made, Placed, Goes
  <2>2. CASE StopAgain \/ MaskAgain
    BY <2>1, <2>2 DEF StopAgain, MaskAgain, Attempt, HostType
  <2>3. CASE Look \/ Confirm
    BY <2>1, <2>3 DEF Look, Confirm
  <2>4. CASE UnmountTarget \/ RemountOriginal
    BY <2>1, <2>4, UnmountTargetDoes, RemountOriginalDoes
  <2>5. CASE MoveBack
    BY <2>1, <2>5 DEF MoveBack, Attempt, HostType, BackInPlace
  <2>6. CASE RestoreFstab \/ RestoreConfig
    BY <2>1, <2>6 DEF RestoreFstab, RestoreConfig, Attempt, HostType, With
  <2> QED BY <1>17, <2>1, <2>2, <2>3, <2>4, <2>5, <2>6
<1>18. CASE RemoveImage
  BY <1>18 DEF RemoveImage, Attempt, HostType
<1>19. CASE StartAgain
  <2>1. stage' = "failed" /\ host' \in {host, Started(host)}
    BY <1>19 DEF StartAgain, Attempt
  <2>2. CASE host' = host
    BY <2>1, <2>2
  <2>3. CASE host' = Started(host)
    BY <2>1, <2>3, StartedFields
  <2> QED BY <2>1, <2>2, <2>3
<1>20. CASE Crash
  <2>1. stage' \in {"cut", "crashed"}
    BY <1>20 DEF Crash
  <2>2. CASE host' = host
    BY <2>1, <2>2
  <2>3. CASE host' \in HalfDone
    <3>1. host'.mounts = host.mounts /\ (host'.target = host.target \/ stage = "restore")
      BY <2>3, HalfDoneFields
    <3>2. stage = "restore" => host'.target = "partial"
      BY <2>3 DEF HalfDone, HostType
    <3> QED BY <2>1, <3>1, <3>2
  <2> QED BY <1>20, <2>2, <2>3 DEF Crash
<1>21. CASE Reboot
  <2>1. stage' = stage /\ host' \in Booted
    BY <1>21 DEF Reboot
  <2>2. host'.mounts \cap {"target", "probe"} # {} => host.target # "none"
    BY <2>1, BootFields
  <2>3. host.target # "none" => host'.target # "none"
    BY <2>1, BootFields
  <2> QED BY <2>1, <2>2, <2>3
<1> HIDE DEF TargetIsThere
<1> QED BY <1>1, <1>3, <1>4, <1>5, <1>6, <1>7, <1>8, <1>9, <1>10, <1>11, <1>12, <1>13,
           <1>14, <1>15, <1>17, <1>18, <1>19, <1>20, <1>21 DEF SetupNext

LEMMA SetupInitInv == SetupInit => SetupInv
<1> SUFFICES ASSUME SetupInit PROVE SetupInv
  OBVIOUS
<1>1. HostInv
  BY HostInit
<1>2. TargetIsThere
  BY DEF SetupInit, TargetIsThere, Made, Placed
<1>3. errors \in BOOLEAN /\ unmasked \in BOOLEAN
  BY Zenon DEF SetupInit
<1>4. flags \subseteq Flags /\ faults \in 0..MaxFaults /\ reboots \in 0..MaxReboots
  BY SetupAssumption DEF SetupInit
<1> QED BY <1>1, <1>2, <1>3, <1>4 DEF SetupInv, SetupBounds

LEMMA SetupNextInv == SetupInv /\ [SetupNext]_setupVars => SetupInv'
<1>1. ASSUME SetupInv, SetupNext PROVE SetupInv'
  <2>1. HostInv' /\ DataInv /\ Places
    BY <1>1, HostStep DEF SetupInv, HostInv
  <2>2. TargetIsThere'
    BY <1>1, <2>1, TargetStays DEF SetupInv
  <2>3. SetupBounds'
    BY <1>1, SetupFlagsNext, SetupErrorsNext, SetupCountsNext DEF SetupInv, SetupBounds
  <2> QED BY <2>1, <2>2, <2>3 DEF SetupInv
<1>2. ASSUME SetupInv, UNCHANGED setupVars PROVE SetupInv'
  <2>1. HostInv'
    BY <1>2, HostStep DEF SetupInv
  <2> QED BY <1>2, <2>1 DEF SetupInv, TargetIsThere, SetupBounds, setupVars
<1> QED BY <1>1, <1>2

LEMMA SetupHasTypes == SetupInv => SetupTypeOK
BY DEF SetupInv, SetupBounds, HostInv, DataInv, Places, TargetMounted, TargetIsThere,
   SetupTypeOK, SetupTypes

-----------------------------------------------------------------------------
(* The components together (MCMachine).                                    *)

MachineInv ==
  /\ part \in {"setup", "update", "mux", "cache", "copies", "cluster", "accounts", "teams",
               "node", "register", "status"}
  /\ part = "setup" => SetupInv
  /\ part = "update" => UpdateInv
  /\ part = "mux" => MuxInv
  /\ part = "cache" => CacheInv
  /\ part = "copies" => CopyInv
  /\ part = "cluster" => ClustersInv
  /\ part \in {"accounts", "teams"} => AccountsInv
  /\ part = "node" => MineInv
  /\ part = "register" => RegisterInv
  /\ part = "status" => StatusInv

LEMMA MachineInitInv == MachineInit => MachineInv
BY SetupInitInv, UpdateInitInv, MuxInitInv, CacheInitInv, CopyInitInv, ClustersInitInv,
   AccountsInitInv, MineInitInv, RegisterInitInv, StatusInitInv
   DEF MachineInit, MachineInv

LEMMA MachineNextInv == MachineInv /\ [MachineNext]_machineVars => MachineInv'
<1> SUFFICES ASSUME MachineInv, [MachineNext]_machineVars PROVE MachineInv'
  OBVIOUS
<1>1. CASE part = "setup" /\ [SetupNext]_setupVars /\ part' = part
  BY <1>1, SetupNextInv DEF MachineInv
<1>2. CASE part = "update" /\ [UpdateNext]_updateVars /\ part' = part
  BY <1>2, UpdateNextInv DEF MachineInv
<1>3. CASE part = "mux" /\ [MuxNext]_muxVars /\ part' = part
  BY <1>3, MuxNextInv DEF MachineInv
<1>4. CASE part = "cache" /\ [CacheNext]_cacheVars /\ part' = part
  BY <1>4, CacheNextInv DEF MachineInv
<1>5. CASE part = "copies" /\ [CopyNext]_copyVars /\ part' = part
  BY <1>5, CopyNextInv DEF MachineInv
<1>6. CASE part = "cluster" /\ [ClustersNext]_clusterVars /\ part' = part
  BY <1>6, ClustersNextInv DEF MachineInv
<1>7. CASE part \in {"accounts", "teams"} /\ [KeysNext]_keysVars /\ part' = part
  BY <1>7, AccountsNextInv DEF MachineInv
<1>8. CASE part = "node" /\ [MineNext]_mineVars /\ part' = part
  BY <1>8, MineNextInv DEF MachineInv
<1>9. CASE part = "register" /\ [RegisterNext]_registerVars /\ part' = part
  BY <1>9, RegisterNextInv DEF MachineInv
<1>10. CASE part = "status" /\ [StatusNext]_statusVars /\ part' = part
  BY <1>10, StatusNextInv DEF MachineInv
<1>11. CASE HostNext
  BY <1>1, <1>2, <1>3, <1>4, <1>5, <1>6, <1>7, <1>11 DEF HostNext
<1>12. CASE ProviderNext
  BY <1>8, <1>9, <1>10, <1>12 DEF ProviderNext
<1>13. CASE UNCHANGED machineVars
  BY <1>1, <1>2, <1>3, <1>4, <1>5, <1>6, <1>7, <1>8, <1>9, <1>10, <1>13 DEF MachineInv, machineVars
<1> QED BY <1>11, <1>12, <1>13 DEF MachineNext

(* Every variable of the components on the machine, in the account and at  *)
(* the portal has its type: an original mount only where there was one,    *)
(* nothing mounted from a target that is not there, a saved login's        *)
(* account among those that exist (MCMachine).                             *)
THEOREM MachineTypes == MachineSpec => []MachineTypeOK
<1>1. MachineInv => MachineTypeOK
  BY SetupHasTypes, AccountsTypes
     DEF MachineInv, MachineTypeOK, UpdateInv, MuxInv, CacheInv, CopyInv, ClustersInv, MineInv,
         RegisterInv, StatusInv
<1> QED BY <1>1, MachineInitInv, MachineNextInv, PTL DEF MachineSpec
===============================================================================
