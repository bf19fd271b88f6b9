----------------------------- MODULE GateProofs -----------------------------
(***************************************************************************)
(* Proofs about Gate.tla, for any number of exams and machines, any forms  *)
(* that instructors may type and any public URLs: the access code goes to  *)
(* browsers with the exam's own file, up-to-date browsers pass and no      *)
(* others, and the rules of an exam are exact.                             *)
(***************************************************************************)
EXTENDS Gate, SettingsProofs

-----------------------------------------------------------------------------
(* The settings of an exam's file.                                           *)

(* What can be read off the settings of a file.                              *)
LEMMA SettingsRead ==
  ASSUME NEW spec, NEW gate, NEW salt, salt # NoSalt
  PROVE  LET s == Settings(spec, gate, salt)
         IN  /\ Setting(s, "examKeySalt") = {salt}
             /\ Setting(s, "startURL") = {Home(spec, gate)}
             /\ Setting(s, "URLFilterRules") = {FilterRules(spec, gate)}
<1> DEFINE s == Settings(spec, gate, salt)
<1>1. /\ DOMAIN s = 1..5
      /\ s[1][1] = "originatorVersion" /\ s[2] = <<"startURL", Home(spec, gate)>>
      /\ s[3] = <<"examKeySalt", salt>> /\ s[4] = <<"URLFilterRules", FilterRules(spec, gate)>>
      /\ s[5][1] = "allowQuit"
  BY SaltedSettings
<1> HIDE DEF s
<1>2. ToSet(s) = {s[1], s[2], s[3], s[4], s[5]}
  BY <1>1 DEF ToSet
<1>3. Setting(s, "examKeySalt") = {salt}
  BY <1>1, <1>2 DEF Setting
<1>4. Setting(s, "startURL") = {Home(spec, gate)}
  BY <1>1, <1>2 DEF Setting
<1>5. Setting(s, "URLFilterRules") = {FilterRules(spec, gate)}
  BY <1>1, <1>2 DEF Setting
<1> QED
  BY <1>3, <1>4, <1>5 DEF s

(* A browser hashes the same as the server, in an order of its own.          *)
LEMMA KeyOfBrowser ==
  ASSUME NEW spec, NEW gate, NEW salt, salt # NoSalt
  PROVE  ConfigKey(BrowserOrder(Settings(spec, gate, salt))) = Key(spec, gate, salt)
<1> DEFINE s == Settings(spec, gate, salt)
           r == Reverse(s)
           t == BrowserOrder(s)
           filter == FilterRules(spec, gate)
           rules == [j \in DOMAIN filter |-> Reverse(filter[j])]
           p == [i \in 1..4 |-> IF i = 1 THEN 1 ELSE IF i = 2 THEN 3 ELSE IF i = 3 THEN 4 ELSE 2]
<1>1. /\ DOMAIN s = 1..5 /\ Len(s) = 5 /\ s[1][1] = "originatorVersion"
      /\ s[2] = <<"startURL", Home(spec, gate)>> /\ s[3] = <<"examKeySalt", salt>>
      /\ s[4] = <<"URLFilterRules", filter>> /\ s[5] = <<"allowQuit", spec.quit>>
  BY SaltedSettings
<1> HIDE DEF s
<1>2. DOMAIN r = 1..5 /\ r[1] = s[5] /\ r[2] = s[4] /\ r[3] = s[3] /\ r[4] = s[2] /\ r[5] = s[1]
  BY <1>1 DEF Reverse
<1>3. t = [i \in DOMAIN s |->
            IF r[i][1] = "URLFilterRules" THEN <<r[i][1], [j \in DOMAIN r[i][2] |-> Reverse(r[i][2][j])]>>
            ELSE r[i]]
  BY Zenon DEF BrowserOrder
<1> HIDE DEF r, t, filter
<1>4. /\ DOMAIN t = 1..5 /\ t[1] = <<"allowQuit", spec.quit>> /\ t[2] = <<"URLFilterRules", rules>>
      /\ t[3] = <<"examKeySalt", salt>> /\ t[4] = <<"startURL", Home(spec, gate)>>
      /\ t[5][1] = "originatorVersion"
  BY <1>1, <1>2, <1>3
<1>5. DOMAIN rules = DOMAIN filter
  OBVIOUS
<1>6. \A i \in DOMAIN rules : InKeyOrder(rules[i], DOMAIN rules[i]) = filter[i]
  BY ReversedRuleInOrder DEF FilterRules, filter
<1>7. /\ p \in [1..4 -> DOMAIN t] /\ p[1] = 1 /\ p[2] = 3 /\ p[3] = 4 /\ p[4] = 2
  BY <1>4
<1> HIDE DEF p, rules
<1>8. \A i \in DOMAIN t : t[i][1] # "originatorVersion" => \E j \in 1..4 : p[j] = i
  BY <1>4, <1>7
<1>9. ConfigKey(t) = Key(spec, gate, salt)
  BY <1>4, <1>5, <1>6, <1>7, <1>8, KeyOf DEF filter
<1> QED
  BY <1>9 DEF t, s

(* The server and the browser compute the same Config Key, though each keeps *)
(* the settings and their rules in an order of its own (seb_json, seb_file.rs). *)
THEOREM SameKeyOnBothSides ==
  ASSUME NEW spec, NEW gate, NEW salt, salt # NoSalt
  PROVE  ConfigKey(BrowserOrder(Settings(spec, gate, salt))) = ConfigKey(Settings(spec, gate, salt))
BY KeyOfBrowser, KeyOfSettings

(* A key tells the salt and the page to start with.                          *)
LEMMA KeyTells ==
  ASSUME NEW spec, NEW gate, NEW salt, NEW spec2, NEW gate2, NEW salt2,
         Key(spec, gate, salt) = Key(spec2, gate2, salt2)
  PROVE  salt = salt2 /\ Home(spec, gate) = Home(spec2, gate2)
<1> DEFINE k == Key(spec, gate, salt)
           l == Key(spec2, gate2, salt2)
<1>1. k[2] = <<"examKeySalt", salt>> /\ k[3] = <<"startURL", Home(spec, gate)>>
  BY DEF Key
<1>2. l[2] = <<"examKeySalt", salt2>> /\ l[3] = <<"startURL", Home(spec2, gate2)>>
  BY DEF Key
<1> HIDE DEF k, l
<1>3. k = l
  BY DEF k, l
<1>4. <<"examKeySalt", salt>>[2] = <<"examKeySalt", salt2>>[2]
  BY <1>1, <1>2, <1>3
<1>5. <<"startURL", Home(spec, gate)>>[2] = <<"startURL", Home(spec2, gate2)>>[2]
  BY <1>1, <1>2, <1>3
<1> QED
  BY <1>4, <1>5

-----------------------------------------------------------------------------
(* URLs and specs.                                                           *)

(* A public URL that the server keeps has a host.                            *)
LEMMA KeptUrls ==
  ASSUME NEW url \in PublicUrls
  PROVE  /\ KeptUrl(url) \in Names \cup {NoUrl}
         /\ KeptUrl(url) # NoUrl => KeptUrl(url) \in Address /\ UrlHost(KeptUrl(url)) # Bad
<1>1. url \in Address
  BY GateAssumption
<1> QED
  BY <1>1 DEF KeptUrl, Names

(* So has every name that leads to the gate.                                 *)
LEMMA NamesTyped ==
  ASSUME NEW base \in Names
  PROVE  base \in Address /\ base # NoUrl /\ UrlHost(base) # Bad
BY KeptUrls DEF Names

(* The URL that is none has no host.                                         *)
LEMMA NoUrlHost == UrlHost(NoUrl) = Bad
BY DEF UrlHost, NoUrl

(* The URL of a gate has the host of its server and a path of its own.       *)
LEMMA GateUrls ==
  ASSUME NEW base \in Names, NEW id
  PROVE  /\ GateUrl(base, id) # NoUrl /\ GateUrl(base, id).path = <<"gate", id>>
         /\ UrlHost(GateUrl(base, id)) = UrlHost(base)
<1>1. base \in Address /\ base # NoUrl
  BY NamesTyped
<1>2. GateUrl(base, id) = [base EXCEPT !.path = <<"gate", id>>]
  BY <1>1 DEF GateUrl
<1> DEFINE g == [base EXCEPT !.path = <<"gate", id>>]
<1>3. /\ g.path = <<"gate", id>> /\ g.scheme = base.scheme /\ g.user = base.user
      /\ g.port = base.port /\ g.name = base.name
  BY <1>1 DEF Address
<1> HIDE DEF g
<1>4. g # NoUrl
  <2>1. Len(g.path) = 2 /\ Len(NoUrl.path) = 0
    BY <1>3 DEF NoUrl
  <2> QED
    BY <2>1
<1>5. UrlHost(g) = UrlHost(base)
  BY <1>3 DEF UrlHost
<1> QED
  BY <1>2, <1>3, <1>4, <1>5 DEF g

(* A spec that was accepted when exam id was created.                        *)
Born(id, spec) == \E form \in FormsFor[id] : Accepted(form) /\ spec = SpecOf(form)

(* What is known of it: its start page has a host and is not its own gate,   *)
(* its domains are well formed, and its rules can be built.                  *)
LEMMA BornExact ==
  ASSUME NEW id \in Ids, NEW spec, Born(id, spec)
  PROVE  /\ spec \in Specs[id] /\ spec.start \in Address /\ spec.start.path # <<"gate", id>>
         /\ UrlHost(spec.start) \in Domain /\ spec.domains \in Seq(Domain)
         /\ EffectiveDomains(spec) # Bad
<1>1. PICK form \in FormsFor[id] : Accepted(form) /\ spec = SpecOf(form)
  BY DEF Born
<1>2. /\ form.start \in Address /\ form.start.path # <<"gate", id>>
      /\ form.domains \in Seq(Address)
  BY GateAssumption
<1>3. /\ spec.start = form.start /\ spec.domains = ParseDomainList(form.domains)
      /\ EffectiveDomains(spec) # Bad
  BY <1>1 DEF SpecOf, Accepted, Builds
<1>4. spec.domains \in Seq(Domain)
  <2>1. /\ Len(form.domains) \in Nat /\ DOMAIN form.domains = 1..Len(form.domains)
        /\ \A i \in 1..Len(form.domains) : form.domains[i] \in Address
    BY <1>2
  <2>2. \A i \in 1..Len(form.domains) : NormalizeDomain(form.domains[i]) \in Domain
    BY <2>1, NormalizeDomainTyped
  <2>3. Listed(ParseDomainList(form.domains), form.domains, Len(form.domains))
    BY <2>1, <2>2, LinesAreListed
  <2> QED
    BY <1>3, <2>3 DEF Listed
<1>5. spec \in Specs[id]
  BY <1>1 DEF Specs
<1> QED
  BY <1>2, <1>3, <1>4, <1>5, UrlHostTyped

-----------------------------------------------------------------------------
(* The invariant.                                                            *)

(* A list knows the salt as that of exam id, or not at all, and the exam with *)
(* this spec, or not at all.                                                 *)
Of(list, id, spec, salt) ==
  \A other \in DOMAIN list :
    /\ other = id => list[other].spec = spec
    /\ list[other].salt = salt => other = id

(* The salt was drawn for exam id, with this spec.                           *)
Owned(id, spec, salt) ==
  /\ id \in spent /\ Born(id, spec) /\ salt \in 1..salts
  /\ Of(exams, id, spec, salt) /\ Of(disk, id, spec, salt)

Counts ==
  /\ salts \in 0..SaltBound /\ spent \subseteq Ids
  /\ DOMAIN exams \subseteq spent /\ DOMAIN disk \subseteq spent

Entries(list) == [id \in DOMAIN list |-> [spec |-> list[id].spec, salt |-> list[id].salt]]

Listings ==
  /\ exams = Entries(exams) /\ disk = Entries(disk)
  /\ \A id \in DOMAIN exams :
       /\ Owned(id, exams[id].spec, exams[id].salt)
       /\ id \in DOMAIN disk => disk[id].salt \in {exams[id].salt, NoSalt}
  /\ \A id \in DOMAIN disk :
       /\ Born(id, disk[id].spec)
       /\ disk[id].salt # NoSalt => Owned(id, disk[id].spec, disk[id].salt)

(* The file of machine m was made for its exam.                              *)
Made(m, spec, url, salt) ==
  /\ file[m] = [id |-> file[m].id, settings |-> Settings(spec, GateUrl(url, file[m].id), salt)]
  /\ Owned(file[m].id, spec, salt)

Files ==
  /\ file = [m \in Machines |-> file[m]]
  /\ \A m \in Machines :
       \/ file[m] = NoFile
       \/ \E spec \in Specs[file[m].id], url \in Names \cup {NoUrl}, salt \in 1..salts :
            Made(m, spec, url, salt)

(* An answer of the gate on machine m.                                       *)
Fits(answer, id) ==
  /\ answer.kind = "none" => answer = NoPage
  /\ answer.kind = "check" => answer.url.path[2] = answer.id
  /\ answer.kind = "code" <=> answer.code # ""
  /\ answer.kind \in {"code", "redirect"} => id = answer.id

Pages ==
  /\ page = [m \in Machines |-> page[m]]
  /\ \A m \in Machines : Fits(page[m], file[m].id)

IInv == Counts /\ publicUrl \in Names \cup {NoUrl} /\ Listings /\ Files /\ Pages

-----------------------------------------------------------------------------
(* Salts.                                                                    *)

(* What a list of exams becomes when it is loaded: each salt that it lacks   *)
(* is drawn, no two alike, and nothing else changes.                         *)
Loaded(new, saved, drawn) ==
  LET n == Cardinality(Unsalted(saved))
  IN  /\ n \in Nat /\ DOMAIN new = DOMAIN saved /\ new = Entries(new)
      /\ \A id \in DOMAIN saved :
           /\ new[id].spec = saved[id].spec
           /\ saved[id].salt # NoSalt => new[id].salt = saved[id].salt
           /\ saved[id].salt = NoSalt => new[id].salt \in drawn + 1..drawn + n
      /\ \A id, other \in Unsalted(saved) : new[id].salt = new[other].salt => id = other

(* That is what from_snapshot makes of it.                                   *)
LEMMA Snapshot ==
  ASSUME NEW saved, saved = Entries(saved), NEW drawn \in Nat, IsFiniteSet(DOMAIN saved)
  PROVE  Loaded(FromSnapshot(saved, drawn), saved, drawn)
<1> DEFINE S == Unsalted(saved)
           n == Cardinality(S)
           order == SetToSeq(S)
           Draw(id) == drawn + CHOOSE i \in DOMAIN order : order[i] = id
           new == FromSnapshot(saved, drawn)
<1>1. IsFiniteSet(S) /\ S \subseteq DOMAIN saved
  <2>1. S \subseteq DOMAIN saved
    BY DEF Unsalted
  <2> QED
    BY <2>1, FS_Subset
<1>2. n \in Nat
  BY <1>1, FS_CardinalityType
<1>3. order \in [1..n -> S] /\ IsInjective(order)
  <2>1. ExistsBijection(1..n, S)
    BY <1>1, FS_CardinalityType
  <2>2. \E f \in [1..n -> S] : IsInjective(f)
    BY <2>1 DEF ExistsBijection, Bijection, Injection
  <2>3. order = CHOOSE f \in [1..n -> S] : IsInjective(f)
    BY Zenon DEF SetToSeq
  <2> HIDE DEF order, S
  <2> QED
    BY <2>2, <2>3, Zenon
<1> HIDE DEF order, S
<1>4. \A id \in S : \E i \in 1..n : order[i] = id
  <2>1. order \in Injection(1..n, S)
    BY <1>3 DEF Injection
  <2>2. Cardinality(1..n) = n
    BY <1>2, FS_Interval
  <2>3. order \in Surjection(1..n, S)
    BY <1>1, <2>1, <2>2, FS_Injection
  <2> QED
    BY <2>3 DEF Surjection
<1> DEFINE Place(id) == CHOOSE i \in DOMAIN order : order[i] = id
<1>5. \A id \in S : Place(id) \in 1..n /\ order[Place(id)] = id
  <2>1. DOMAIN order = 1..n
    BY <1>3
  <2> QED
    BY <1>4, <2>1
<1>6. new = [id \in DOMAIN saved |->
               IF id \in S THEN [saved[id] EXCEPT !.salt = drawn + Place(id)] ELSE saved[id]]
  BY Zenon DEF FromSnapshot, S, order
<1> HIDE DEF Place, new
<1>7. \A id \in DOMAIN saved : saved[id] = [spec |-> saved[id].spec, salt |-> saved[id].salt]
  BY DEF Entries
<1>8. \A id \in DOMAIN saved : (id \in S <=> saved[id].salt = NoSalt)
  BY DEF Unsalted, S
<1>9. ASSUME NEW id \in DOMAIN saved
      PROVE  /\ new[id] = [spec |-> new[id].spec, salt |-> new[id].salt]
             /\ new[id].spec = saved[id].spec
             /\ saved[id].salt # NoSalt => new[id].salt = saved[id].salt
             /\ saved[id].salt = NoSalt => new[id].salt = drawn + Place(id)
  <2>1. CASE id \in S
    <3>1. new[id] = [spec |-> saved[id].spec, salt |-> drawn + Place(id)]
      BY <1>6, <1>7, <2>1
    <3> QED
      BY <1>8, <2>1, <3>1
  <2>2. CASE id \notin S
    <3>1. new[id] = saved[id]
      BY <1>6, <2>2
    <3> QED
      BY <1>7, <1>8, <2>2, <3>1
  <2> QED
    BY <2>1, <2>2
<1>10. DOMAIN new = DOMAIN saved
  BY <1>6
<1>11. new = Entries(new)
  <2>1. new = [id \in DOMAIN new |-> new[id]]
    BY <1>6
  <2> QED
    BY <1>9, <1>10, <2>1 DEF Entries
<1>12. \A id \in S : new[id].salt = drawn + Place(id) /\ Place(id) \in 1..n
  BY <1>1, <1>5, <1>8, <1>9
<1>13. \A id, other \in S : new[id].salt = new[other].salt => id = other
  <2> SUFFICES ASSUME NEW id \in S, NEW other \in S, new[id].salt = new[other].salt
               PROVE  id = other
    OBVIOUS
  <2>1. Place(id) = Place(other)
    BY <1>12
  <2> QED
    BY <1>5, <2>1
<1>14. \A id \in DOMAIN saved : saved[id].salt = NoSalt => new[id].salt \in drawn + 1..drawn + n
  BY <1>2, <1>8, <1>12
<1> QED
  BY <1>2, <1>9, <1>10, <1>11, <1>13, <1>14 DEF Loaded, S, new


(* What a restart reads is of the disk, and can be loaded.                   *)
LEMMA ReadLoads ==
  ASSUME Counts, Listings, NEW saved \in Read
  PROVE  /\ Loaded(FromSnapshot(saved, salts), saved, salts)
         /\ DOMAIN saved \subseteq DOMAIN disk /\ \A id \in DOMAIN saved : saved[id] = disk[id]
<1>1. salts \in Nat
  BY GateAssumption DEF Counts
<1>2. CASE saved = disk
  <2>1. DOMAIN disk \subseteq Ids /\ IsFiniteSet(Ids)
    BY GateAssumption DEF Counts
  <2>2. IsFiniteSet(DOMAIN disk)
    BY <2>1, FS_Subset
  <2> QED
    BY <1>1, <1>2, <2>2, Snapshot DEF Listings
<1>3. CASE saved = NoExams
  <2>1. DOMAIN NoExams = {}
    BY DEF NoExams
  <2>2. NoExams = [id \in {} |-> [spec |-> NoExams[id].spec, salt |-> NoExams[id].salt]]
    BY SMT DEF NoExams
  <2>3. saved = Entries(saved)
    BY <1>3, <2>1, <2>2 DEF Entries
  <2>4. IsFiniteSet(DOMAIN saved)
    BY <1>3, <2>1, FS_EmptySet
  <2> QED
    BY <1>1, <1>3, <2>1, <2>3, <2>4, Snapshot
<1> QED
  BY <1>2, <1>3 DEF Read

(* What the list of exams is after a restart.                                *)
LEMMA RestartLoads ==
  ASSUME Counts, Listings, NEW url, NEW saved, Restart(url, saved)
  PROVE  /\ salts <= salts' /\ salts' \in 0..SaltBound /\ spent' = spent /\ disk' = disk
         /\ DOMAIN exams' = DOMAIN saved /\ DOMAIN saved \subseteq DOMAIN disk
         /\ exams' = Entries(exams')
         /\ \A x \in DOMAIN exams' :
              /\ saved[x] = disk[x] /\ exams'[x].spec = disk[x].spec
              /\ disk[x].salt # NoSalt => exams'[x].salt = disk[x].salt
              /\ disk[x].salt = NoSalt => exams'[x].salt \in salts + 1..salts'
         /\ \A x, y \in DOMAIN exams' :
              disk[x].salt = NoSalt /\ disk[y].salt = NoSalt /\ exams'[x].salt = exams'[y].salt
                => x = y
<1> DEFINE n == Cardinality(Unsalted(saved))
<1>1. /\ saved \in Read /\ exams' = FromSnapshot(saved, salts)
      /\ salts + n <= SaltBound /\ salts' = salts + n /\ spent' = spent /\ disk' = disk
  BY DEF Restart
<1>2. /\ Loaded(exams', saved, salts)
      /\ DOMAIN saved \subseteq DOMAIN disk /\ \A id \in DOMAIN saved : saved[id] = disk[id]
  BY <1>1, ReadLoads
<1>3. /\ n \in Nat /\ DOMAIN exams' = DOMAIN saved /\ exams' = Entries(exams')
      /\ \A x \in DOMAIN saved :
           /\ exams'[x].spec = saved[x].spec
           /\ saved[x].salt # NoSalt => exams'[x].salt = saved[x].salt
           /\ saved[x].salt = NoSalt => exams'[x].salt \in salts + 1..salts + n
      /\ \A x, y \in Unsalted(saved) : exams'[x].salt = exams'[y].salt => x = y
  BY <1>2, Zenon DEF Loaded
<1> HIDE DEF n
<1>4. salts <= salts' /\ salts' \in 0..SaltBound
  BY <1>1, <1>3, GateAssumption DEF Counts
<1>5. \A x \in DOMAIN saved : saved[x].salt = NoSalt => x \in Unsalted(saved)
  BY DEF Unsalted
<1> QED
  BY <1>1, <1>2, <1>3, <1>4, <1>5

(* An exam that is created: its id and its salt are new.                     *)
LEMMA Created ==
  ASSUME Counts, Listings, NEW id \in Ids, NEW form \in FormsFor[id], CreateExam(id, form)
  PROVE  /\ id \notin spent /\ id \notin DOMAIN exams /\ id \notin DOMAIN disk
         /\ salts' = salts + 1 /\ salts' \in 0..SaltBound /\ spent' = spent \cup {id}
         /\ DOMAIN exams' = DOMAIN exams \cup {id}
         /\ exams'[id].spec = SpecOf(form) /\ exams'[id].salt = salts + 1
         /\ \A other \in DOMAIN exams : exams'[other] = exams[other]
         /\ exams' = Entries(exams')
         /\ Born(id, SpecOf(form)) /\ disk' = disk
<1> DEFINE spec == SpecOf(form)
<1>1. /\ id \notin spent /\ salts < SaltBound /\ Accepted(form) /\ disk' = disk
      /\ salts' = salts + 1 /\ spent' = spent \cup {id}
      /\ exams' = [x \in DOMAIN exams \cup {id} |->
                    IF x = id THEN [spec |-> spec, salt |-> salts + 1] ELSE exams[x]]
  BY DEF CreateExam
<1> HIDE DEF spec
<1>2. id \notin DOMAIN exams /\ id \notin DOMAIN disk
  BY <1>1 DEF Counts
<1>3. /\ DOMAIN exams' = DOMAIN exams \cup {id}
      /\ exams'[id] = [spec |-> spec, salt |-> salts + 1]
      /\ \A other \in DOMAIN exams : exams'[other] = exams[other]
  BY <1>1, <1>2
<1>4. \A other \in DOMAIN exams : exams[other] = [spec |-> exams[other].spec, salt |-> exams[other].salt]
  BY DEF Listings, Entries
<1>5. \A x \in DOMAIN exams' : exams'[x] = [spec |-> exams'[x].spec, salt |-> exams'[x].salt]
  BY <1>3, <1>4
<1>6. exams' = Entries(exams')
  <2>1. exams' = [x \in DOMAIN exams' |-> exams'[x]]
    BY <1>1
  <2> QED
    BY <1>5, <2>1 DEF Entries
<1>7. salts' \in 0..SaltBound
  BY <1>1, GateAssumption DEF Counts
<1>8. Born(id, spec)
  BY <1>1 DEF Born, spec
<1> QED
  BY <1>1, <1>2, <1>3, <1>6, <1>7, <1>8 DEF spec

(* Nothing that students do reaches the lists.                               *)
LEMMA StudentKeeps ==
  ASSUME Student
  PROVE  exams' = exams /\ disk' = disk /\ salts' = salts /\ spent' = spent /\ publicUrl' = publicUrl
<1>1. \A m : Close(m) \/ Verify(m) => UNCHANGED <<exams, disk, publicUrl, salts, spent>>
  BY DEF Close, Verify, Shows
<1>2. \A m, base, id : VisitNoGate(m, base, id) => UNCHANGED <<exams, disk, publicUrl, salts, spent>>
  BY DEF VisitNoGate, Shows
<1>3. \A m, base, id, query : VisitWithKey(m, base, id, query) \/ VisitPlain(m, base, id, query) =>
        UNCHANGED <<exams, disk, publicUrl, salts, spent>>
  BY DEF VisitWithKey, VisitPlain, Shows
<1>4. UNCHANGED <<exams, disk, publicUrl, salts, spent>>
  BY <1>1, <1>2, <1>3 DEF Student
<1> QED
  BY <1>4

(* An exam stays the one that owns its salt.                                 *)
LEMMA OwnedStays ==
  ASSUME Counts, Listings, [Next]_vars, NEW id, NEW spec, NEW salt, Owned(id, spec, salt)
  PROVE  Owned(id, spec, salt)'
<1>1. /\ id \in spent /\ Born(id, spec) /\ salt \in 1..salts /\ salts \in 0..SaltBound
      /\ Of(exams, id, spec, salt) /\ Of(disk, id, spec, salt)
  BY DEF Owned, Counts
<1>2. ASSUME exams' = exams, disk' = disk, salts' = salts, spent' = spent
      PROVE  Owned(id, spec, salt)'
  BY <1>1, <1>2 DEF Owned, Born
<1>3. ASSUME NEW new \in Ids, NEW form \in FormsFor[new], CreateExam(new, form)
      PROVE  Owned(id, spec, salt)'
  <2>1. /\ new \notin spent /\ salts' = salts + 1 /\ spent' = spent \cup {new}
        /\ DOMAIN exams' = DOMAIN exams \cup {new} /\ exams'[new].salt = salts + 1
        /\ \A other \in DOMAIN exams : exams'[other] = exams[other]
        /\ disk' = disk
    BY <1>3, Created
  <2>2. salt # salts + 1 /\ salt \in 1..salts'
    BY <1>1, <2>1
  <2>3. Of(exams', id, spec, salt)
    <3> SUFFICES ASSUME NEW other \in DOMAIN exams'
                 PROVE  /\ other = id => exams'[other].spec = spec
                        /\ exams'[other].salt = salt => other = id
      BY Zenon DEF Of
    <3>1. CASE other = new
      BY <1>1, <2>1, <2>2, <3>1
    <3>2. CASE other \in DOMAIN exams
      BY <1>1, <2>1, <3>2 DEF Of
    <3> QED
      BY <2>1, <3>1, <3>2
  <2> QED
    BY <1>1, <2>1, <2>2, <2>3 DEF Owned, Born
<1>4. ASSUME NEW old \in Ids, DeleteExam(old)
      PROVE  Owned(id, spec, salt)'
  <2>1. /\ exams' = [other \in DOMAIN exams \ {old} |-> exams[other]]
        /\ UNCHANGED <<disk, salts, spent>>
    BY <1>4 DEF DeleteExam
  <2>2. Of(exams', id, spec, salt)
    BY <1>1, <2>1 DEF Of
  <2> QED
    BY <1>1, <2>1, <2>2 DEF Owned, Born
<1>5. ASSUME Save
      PROVE  Owned(id, spec, salt)'
  BY <1>1, <1>5 DEF Owned, Born, Save
<1>6. ASSUME NEW url \in PublicUrls, NEW saved \in Read, Restart(url, saved)
      PROVE  Owned(id, spec, salt)'
  <2>1. /\ salts <= salts' /\ salts' \in 0..SaltBound /\ spent' = spent /\ disk' = disk
        /\ DOMAIN exams' \subseteq DOMAIN disk
        /\ \A x \in DOMAIN exams' :
             /\ exams'[x].spec = disk[x].spec
             /\ disk[x].salt # NoSalt => exams'[x].salt = disk[x].salt
             /\ disk[x].salt = NoSalt => exams'[x].salt \in salts + 1..salts'
    BY <1>6, RestartLoads
  <2>2. salt \in 1..salts'
    BY <1>1, <2>1
  <2>3. \A x \in DOMAIN exams' : exams'[x].salt = salt => disk[x].salt = salt
    BY <1>1, <2>1
  <2>4. Of(exams', id, spec, salt)
    BY <1>1, <2>1, <2>3 DEF Of
  <2> QED
    BY <1>1, <2>1, <2>2, <2>4 DEF Owned, Born
<1>7. ASSUME Next
      PROVE  Owned(id, spec, salt)'
  <2>1. CASE Instructor
    BY <1>2, <1>3, <1>4, <2>1
       DEF Instructor, StartBoard, Download, DownloadLocked, Browse
  <2>2. CASE Student
    BY <1>2, <2>2, StudentKeeps
  <2>3. CASE Server
    BY <1>5, <1>6, <2>3 DEF Server
  <2> QED
    BY <1>7, <2>1, <2>2, <2>3 DEF Next
<1> QED
  BY <1>2, <1>7 DEF vars


(* The lists stay sound.                                                     *)
LEMMA ListsStay ==
  ASSUME Counts, Listings, [Next]_vars
  PROVE  Counts' /\ Listings'
<1>1. \A id, spec, salt : Owned(id, spec, salt) => Owned(id, spec, salt)'
  BY OwnedStays
<1>2. \A id, spec, salt : Owned(id, spec, salt)' <=>
        /\ id \in spent' /\ Born(id, spec) /\ salt \in 1..salts'
        /\ Of(exams', id, spec, salt) /\ Of(disk', id, spec, salt)
  BY DEF Owned, Born
<1>3. \A id, spec, salt : Owned(id, spec, salt) <=>
        /\ id \in spent /\ Born(id, spec) /\ salt \in 1..salts
        /\ Of(exams, id, spec, salt) /\ Of(disk, id, spec, salt)
  BY DEF Owned
<1> DEFINE OwnedNext(id, spec, salt) ==
             /\ id \in spent' /\ Born(id, spec) /\ salt \in 1..salts'
             /\ Of(exams', id, spec, salt) /\ Of(disk', id, spec, salt)
<1>4. \A id, spec, salt : Owned(id, spec, salt) => OwnedNext(id, spec, salt)
  BY <1>1, <1>2
<1>5. /\ salts \in Nat /\ salts \in 0..SaltBound /\ spent \subseteq Ids /\ SaltBound \in Nat
      /\ DOMAIN exams \subseteq spent /\ DOMAIN disk \subseteq spent
      /\ \A salt \in 1..SaltBound : salt # NoSalt
  BY GateAssumption DEF Counts
<1>6. /\ exams = Entries(exams) /\ disk = Entries(disk)
      /\ \A id \in DOMAIN exams :
           /\ Owned(id, exams[id].spec, exams[id].salt)
           /\ id \in DOMAIN disk => disk[id].salt \in {exams[id].salt, NoSalt}
      /\ \A id \in DOMAIN disk :
           /\ Born(id, disk[id].spec)
           /\ disk[id].salt # NoSalt => Owned(id, disk[id].spec, disk[id].salt)
  BY DEF Listings
<1>7. /\ \A id \in DOMAIN exams : exams[id].salt \in 1..salts
      /\ \A id \in DOMAIN disk : disk[id].salt \in 1..salts \cup {NoSalt}
  BY <1>3, <1>6
<1> SUFFICES /\ salts' \in 0..SaltBound /\ spent' \subseteq Ids
             /\ DOMAIN exams' \subseteq spent' /\ DOMAIN disk' \subseteq spent'
             /\ exams' = Entries(exams') /\ disk' = Entries(disk')
             /\ \A id \in DOMAIN exams' :
                  /\ OwnedNext(id, exams'[id].spec, exams'[id].salt)
                  /\ id \in DOMAIN disk' => disk'[id].salt \in {exams'[id].salt, NoSalt}
             /\ \A id \in DOMAIN disk' :
                  /\ Born(id, disk'[id].spec)
                  /\ disk'[id].salt # NoSalt => OwnedNext(id, disk'[id].spec, disk'[id].salt)
  BY DEF Counts, Listings, Owned, Born, Entries
<1> HIDE DEF OwnedNext
<1> DEFINE Goal ==
             /\ salts' \in 0..SaltBound /\ spent' \subseteq Ids
             /\ DOMAIN exams' \subseteq spent' /\ DOMAIN disk' \subseteq spent'
             /\ exams' = Entries(exams') /\ disk' = Entries(disk')
             /\ \A id \in DOMAIN exams' :
                  /\ OwnedNext(id, exams'[id].spec, exams'[id].salt)
                  /\ id \in DOMAIN disk' => disk'[id].salt \in {exams'[id].salt, NoSalt}
             /\ \A id \in DOMAIN disk' :
                  /\ Born(id, disk'[id].spec)
                  /\ disk'[id].salt # NoSalt => OwnedNext(id, disk'[id].spec, disk'[id].salt)
<1>8. ASSUME exams' = exams, disk' = disk, salts' = salts, spent' = spent
      PROVE  Goal
  BY <1>4, <1>5, <1>6, <1>8
<1>9. ASSUME NEW id \in Ids, NEW form \in FormsFor[id], CreateExam(id, form)
      PROVE  Goal
  <2> DEFINE spec == SpecOf(form)
  <2>1. /\ id \notin spent /\ id \notin DOMAIN exams /\ id \notin DOMAIN disk
        /\ salts' = salts + 1 /\ salts' \in 0..SaltBound /\ spent' = spent \cup {id}
        /\ DOMAIN exams' = DOMAIN exams \cup {id}
        /\ exams'[id].spec = spec /\ exams'[id].salt = salts + 1
        /\ \A other \in DOMAIN exams : exams'[other] = exams[other]
        /\ exams' = Entries(exams') /\ Born(id, spec) /\ disk' = disk
    BY <1>9, Created
  <2> HIDE DEF spec
  <2>2. Of(exams', id, spec, salts + 1)
    BY <1>5, <1>7, <2>1 DEF Of
  <2>3. Of(disk', id, spec, salts + 1)
    BY <1>5, <1>7, <2>1 DEF Of
  <2>4. OwnedNext(id, spec, salts + 1)
    BY <1>5, <2>1, <2>2, <2>3 DEF OwnedNext
  <2>5. \A other \in DOMAIN exams' :
          /\ OwnedNext(other, exams'[other].spec, exams'[other].salt)
          /\ other \in DOMAIN disk' => disk'[other].salt \in {exams'[other].salt, NoSalt}
    BY <1>4, <1>6, <2>1, <2>4
  <2> QED
    BY <1>4, <1>5, <1>6, <2>1, <2>5
<1>10. ASSUME NEW id \in Ids, DeleteExam(id)
       PROVE  Goal
  <2>1. /\ exams' = [other \in DOMAIN exams \ {id} |-> exams[other]]
        /\ disk' = disk /\ salts' = salts /\ spent' = spent
    BY <1>10 DEF DeleteExam
  <2>2. exams' = Entries(exams')
    <3>1. \A other \in DOMAIN exams : exams[other] = [spec |-> exams[other].spec, salt |-> exams[other].salt]
      BY <1>6 DEF Entries
    <3> QED
      BY <2>1, <3>1 DEF Entries
  <2>3. \A other \in DOMAIN exams' : other \in DOMAIN exams /\ exams'[other] = exams[other]
    BY <2>1
  <2> QED
    BY <1>4, <1>5, <1>6, <2>1, <2>2, <2>3
<1>11. ASSUME Save
       PROVE  Goal
  <2>1. disk' = exams /\ exams' = exams /\ salts' = salts /\ spent' = spent
    BY <1>11 DEF Save
  <2> QED
    BY <1>3, <1>4, <1>5, <1>6, <2>1
<1>12. ASSUME NEW url \in PublicUrls, NEW saved \in Read, Restart(url, saved)
       PROVE  Goal
  <2>1. /\ salts <= salts' /\ salts' \in 0..SaltBound /\ spent' = spent /\ disk' = disk
        /\ DOMAIN exams' \subseteq DOMAIN disk /\ exams' = Entries(exams')
        /\ \A x \in DOMAIN exams' :
             /\ exams'[x].spec = disk[x].spec
             /\ disk[x].salt # NoSalt => exams'[x].salt = disk[x].salt
             /\ disk[x].salt = NoSalt => exams'[x].salt \in salts + 1..salts'
        /\ \A x, y \in DOMAIN exams' :
             disk[x].salt = NoSalt /\ disk[y].salt = NoSalt /\ exams'[x].salt = exams'[y].salt
               => x = y
    BY <1>12, RestartLoads
  <2>2. ASSUME NEW x \in DOMAIN exams', disk[x].salt = NoSalt
        PROVE  OwnedNext(x, exams'[x].spec, exams'[x].salt)
    <3> DEFINE salt == exams'[x].salt
    <3>1. salt \in 1..salts' /\ salt > salts /\ salt # NoSalt
      BY <1>5, <2>1, <2>2
    <3>2. x \in spent' /\ Born(x, exams'[x].spec)
      BY <1>5, <1>6, <2>1, <2>2
    <3>3. \A y \in DOMAIN exams' : exams'[y].salt = salt => y = x
      <4> SUFFICES ASSUME NEW y \in DOMAIN exams', exams'[y].salt = salt
                   PROVE  y = x
        OBVIOUS
      <4>1. disk[y].salt = NoSalt
        BY <1>5, <1>7, <2>1, <3>1
      <4> QED
        BY <2>1, <2>2, <4>1
    <3>4. Of(exams', x, exams'[x].spec, salt)
      BY <3>3 DEF Of
    <3>5. \A y \in DOMAIN disk : disk[y].salt # salt
      BY <1>5, <1>7, <3>1
    <3>6. Of(disk', x, exams'[x].spec, salt)
      BY <2>1, <3>5 DEF Of
    <3> QED
      BY <3>1, <3>2, <3>4, <3>6 DEF OwnedNext
  <2>3. ASSUME NEW x \in DOMAIN exams'
        PROVE  OwnedNext(x, exams'[x].spec, exams'[x].salt)
    BY <1>4, <1>6, <2>1, <2>2
  <2> QED
    BY <1>4, <1>5, <1>6, <2>1, <2>3
<1>13. ASSUME Next
       PROVE  Goal
  <2>1. CASE Instructor
    BY <1>8, <1>9, <1>10, <2>1
       DEF Instructor, StartBoard, Download, DownloadLocked, Browse
  <2>2. CASE Student
    BY <1>8, <2>2, StudentKeeps
  <2>3. CASE Server
    BY <1>11, <1>12, <2>3 DEF Server
  <2> QED
    BY <1>13, <2>1, <2>2, <2>3 DEF Next
<1>14. Goal
  BY <1>8, <1>13 DEF vars
<1> QED
  BY <1>14


(* The gate is reached by a name of the server, or is off.                   *)
LEMMA NamesStay ==
  ASSUME publicUrl \in Names \cup {NoUrl}, [Next]_vars
  PROVE  (publicUrl \in Names \cup {NoUrl})'
<1>1. ASSUME publicUrl' = publicUrl PROVE publicUrl' \in Names \cup {NoUrl}
  BY <1>1
<1>2. ASSUME NEW url \in PublicUrls, NEW saved, Restart(url, saved)
      PROVE  publicUrl' \in Names \cup {NoUrl}
  BY <1>2, KeptUrls DEF Restart
<1>3. CASE Instructor
  BY <1>1, <1>3 DEF Instructor, CreateExam, DeleteExam, StartBoard, Download, DownloadLocked, Browse
<1>4. CASE Student
  BY <1>1, <1>4, StudentKeeps
<1>5. CASE Server
  BY <1>1, <1>2, <1>5 DEF Server, Save
<1>6. publicUrl' \in Names \cup {NoUrl}
  BY <1>1, <1>3, <1>4, <1>5 DEF Next, vars
<1> QED
  BY <1>6 DEF Names

(* What a browser starts with: the file of the exam as it is now.            *)
LEMMA Browsed ==
  ASSUME Counts, publicUrl \in Names \cup {NoUrl}, Listings, Files,
         NEW m \in Machines, NEW id, NEW pw, NEW typed, Browse(m, id, pw, typed)
  PROVE  /\ id \in DOMAIN exams
         /\ file' = [n \in Machines |-> IF n = m THEN file'[m] ELSE file[n]]
         /\ file'[m] = [id |-> id,
                        settings |-> Settings(exams[id].spec, GateUrl(publicUrl, id), exams[id].salt)]
         /\ page' = [page EXCEPT ![m] = NoPage]
         /\ UNCHANGED <<exams, disk, publicUrl, salts, spent>>
<1> DEFINE new == [id |-> id, settings |-> Settings(exams[id].spec, GateUrl(publicUrl, id), exams[id].salt)]
<1>1. /\ id \in DOMAIN exams /\ file' = [file EXCEPT ![m] = new]
      /\ page' = [page EXCEPT ![m] = NoPage]
      /\ UNCHANGED <<exams, disk, publicUrl, salts, spent>>
  BY DEF Browse, Encode, SebBuild
<1>2. file = [n \in Machines |-> file[n]]
  BY DEF Files
<1> HIDE DEF new
<1>3. file' = [n \in Machines |-> IF n = m THEN new ELSE file[n]]
  BY <1>1, <1>2
<1> QED
  BY <1>1, <1>3 DEF new

(* A file stays that of its exam, whatever becomes of the exam.              *)
LEMMA FilesStay ==
  ASSUME Counts, publicUrl \in Names \cup {NoUrl}, Listings, Files, [Next]_vars
  PROVE  Files'
<1> DEFINE Owns(id, spec, salt) ==
             /\ id \in spent' /\ Born(id, spec) /\ salt \in 1..salts'
             /\ Of(exams', id, spec, salt) /\ Of(disk', id, spec, salt)
           FileNext(m) ==
             \/ file'[m] = NoFile
             \/ \E spec \in Specs[file'[m].id], url \in Names \cup {NoUrl}, salt \in 1..salts' :
                  /\ file'[m] = [id |-> file'[m].id,
                                 settings |-> Settings(spec, GateUrl(url, file'[m].id), salt)]
                  /\ Owns(file'[m].id, spec, salt)
<1>1. \A id, spec, salt : Owned(id, spec, salt) => Owned(id, spec, salt)'
  BY OwnedStays
<1>2. \A id, spec, salt : Owned(id, spec, salt)' <=> Owns(id, spec, salt)
  BY DEF Owned, Born
<1>3. \A id, spec, salt : Owned(id, spec, salt) => Owns(id, spec, salt)
  BY <1>1, <1>2
<1>4. spent' \subseteq Ids
  BY ListsStay DEF Counts
<1>5. \A id, spec, salt : Owns(id, spec, salt) => spec \in Specs[id] /\ salt \in 1..salts'
  <2>1. \A id, spec, salt : Owns(id, spec, salt) => id \in Ids /\ Born(id, spec) /\ salt \in 1..salts'
    BY <1>4
  <2> HIDE DEF Owns
  <2> QED
    BY <2>1, BornExact
<1> HIDE DEF Owns
<1>6. ASSUME NEW m \in Machines, NEW id, NEW spec, NEW url \in Names \cup {NoUrl}, NEW salt,
             file'[m] = [id |-> id, settings |-> Settings(spec, GateUrl(url, id), salt)],
             Owns(id, spec, salt)
      PROVE  FileNext(m)
  <2>1. file'[m].id = id /\ spec \in Specs[id] /\ salt \in 1..salts'
    BY <1>5, <1>6
  <2> QED
    BY <1>6, <2>1
<1>7. ASSUME NEW m \in Machines, file'[m] = file[m] PROVE FileNext(m)
  <2>1. CASE file[m] = NoFile
    BY <1>7, <2>1
  <2>2. CASE file[m] # NoFile
    <3>1. PICK spec \in Specs[file[m].id], url \in Names \cup {NoUrl}, salt \in 1..salts :
            Made(m, spec, url, salt)
      BY <2>2 DEF Files
    <3>2. /\ file'[m] = [id |-> file[m].id, settings |-> Settings(spec, GateUrl(url, file[m].id), salt)]
          /\ Owns(file[m].id, spec, salt)
      BY <1>3, <1>7, <3>1 DEF Made
    <3> HIDE DEF FileNext
    <3> QED
      BY <1>6, <3>2
  <2> QED
    BY <2>1, <2>2
<1> DEFINE Goal == file' = [m \in Machines |-> file'[m]] /\ \A m \in Machines : FileNext(m)
<1> SUFFICES Goal
  BY DEF Files, Made, Owned, Born, Owns
<1> HIDE DEF FileNext
<1>8. ASSUME file' = file PROVE Goal
  <2>1. file = [m \in Machines |-> file[m]]
    BY DEF Files
  <2> QED
    BY <1>7, <1>8, <2>1
<1>9. ASSUME NEW m \in Machines, NEW id, NEW pw, NEW typed, Browse(m, id, pw, typed)
      PROVE  Goal
  <2>1. /\ id \in DOMAIN exams
        /\ file' = [n \in Machines |-> IF n = m THEN file'[m] ELSE file[n]]
        /\ file'[m] = [id |-> id,
                       settings |-> Settings(exams[id].spec, GateUrl(publicUrl, id), exams[id].salt)]
    BY <1>9, Browsed
  <2>2. Owns(id, exams[id].spec, exams[id].salt)
    BY <1>3, <2>1 DEF Listings
  <2>3. FileNext(m)
    BY <1>6, <2>1, <2>2
  <2>4. \A n \in Machines \ {m} : file'[n] = file[n]
    BY <2>1
  <2> QED
    BY <1>7, <2>1, <2>3, <2>4
<1>10. ASSUME NEW m \in Machines, Close(m) PROVE Goal
  <2>1. file = [n \in Machines |-> file[n]] /\ file' = [file EXCEPT ![m] = NoFile]
    BY <1>10 DEF Files, Close
  <2>2. /\ file' = [n \in Machines |-> IF n = m THEN NoFile ELSE file[n]]
        /\ file'[m] = NoFile /\ \A n \in Machines \ {m} : file'[n] = file[n]
    BY <2>1
  <2>3. FileNext(m)
    BY <2>2 DEF FileNext
  <2> QED
    BY <1>7, <2>2, <2>3
<1>11. CASE Instructor
  <2>1. \A id \in Ids : DeleteExam(id) => file' = file
    BY DEF DeleteExam
  <2>2. \A id, form : CreateExam(id, form) => file' = file
    BY DEF CreateExam
  <2>3. Boards \subseteq Machines /\ Laptops \subseteq Machines
    BY DEF Machines
  <2> QED
    BY <1>8, <1>9, <1>11, <2>1, <2>2, <2>3 DEF Instructor, StartBoard, Download, DownloadLocked
<1>12. CASE Student
  <2>1. \A m : Verify(m) => file' = file
    BY DEF Verify, Shows
  <2>2. \A m, base, id : VisitNoGate(m, base, id) => file' = file
    BY DEF VisitNoGate, Shows
  <2>3. \A m, base, id, query : VisitWithKey(m, base, id, query) \/ VisitPlain(m, base, id, query) =>
          file' = file
    BY DEF VisitWithKey, VisitPlain, Shows
  <2>4. (\E m \in Machines : Close(m)) \/ file' = file
    BY <1>12, <2>1, <2>2, <2>3 DEF Student
  <2> QED
    BY <1>8, <1>10, <2>4
<1>13. CASE Server
  BY <1>8, <1>13 DEF Server, Save, Restart
<1> QED
  BY <1>8, <1>11, <1>12, <1>13 DEF Next, vars


-----------------------------------------------------------------------------
(* Keys.                                                                     *)

(* The key that the gate expects for a listed exam.                          *)
LEMMA ListedKey ==
  ASSUME Counts, Listings, NEW id \in DOMAIN exams
  PROVE  /\ id \in Ids /\ Owned(id, exams[id].spec, exams[id].salt) /\ exams[id].salt # NoSalt
         /\ ConfigKey(SebBuild(id)) = Key(exams[id].spec, GateUrl(publicUrl, id), exams[id].salt)
<1>1. id \in Ids /\ Owned(id, exams[id].spec, exams[id].salt)
  BY DEF Counts, Listings
<1>2. exams[id].salt # NoSalt
  BY <1>1, GateAssumption DEF Counts, Owned
<1> QED
  BY <1>1, <1>2, KeyOfSettings DEF SebBuild

(* The key that the browser of a machine has.                                *)
HasKey(m, spec, url, salt) ==
  /\ url \in Names \cup {NoUrl}
  /\ Made(m, spec, url, salt) /\ salt # NoSalt
  /\ ConfigKey(file[m].settings) = Key(spec, GateUrl(url, file[m].id), salt)
  /\ ConfigKey(BrowserOrder(file[m].settings)) = Key(spec, GateUrl(url, file[m].id), salt)

(* Each machine with a file has the key of what its file was made from.      *)
LEMMA FileKey ==
  ASSUME Counts, Listings, Files, NEW m \in Machines, file[m] # NoFile
  PROVE  \E spec, url, salt : HasKey(m, spec, url, salt)
<1>1. PICK spec \in Specs[file[m].id], url \in Names \cup {NoUrl}, salt \in 1..salts :
        Made(m, spec, url, salt)
  BY DEF Files
<1> DEFINE gate == GateUrl(url, file[m].id)
<1>2. salt # NoSalt
  BY GateAssumption DEF Counts
<1>3. file[m].settings = Settings(spec, gate, salt)
  BY <1>1 DEF Made
<1> HIDE DEF gate
<1>4. /\ ConfigKey(file[m].settings) = Key(spec, gate, salt)
      /\ ConfigKey(BrowserOrder(file[m].settings)) = Key(spec, gate, salt)
  BY <1>2, <1>3, KeyOfSettings, KeyOfBrowser
<1>5. HasKey(m, spec, url, salt)
  BY <1>1, <1>2, <1>4 DEF HasKey, gate
<1> QED
  BY <1>5

(* A file with the key of a listed exam is that exam's: its salt was drawn   *)
(* for no other.                                                             *)
LEMMA KeyNames ==
  ASSUME Counts, Listings, NEW m \in Machines, NEW id \in DOMAIN exams,
         NEW spec, NEW url, NEW salt, HasKey(m, spec, url, salt),
         Key(spec, GateUrl(url, file[m].id), salt) = ConfigKey(SebBuild(id))
  PROVE  /\ file[m].id = id /\ exams[id].salt = salt /\ exams[id].spec = spec
         /\ Home(spec, GateUrl(url, id)) = Home(spec, GateUrl(publicUrl, id))
<1>1. Key(spec, GateUrl(url, file[m].id), salt) = Key(exams[id].spec, GateUrl(publicUrl, id), exams[id].salt)
  BY ListedKey
<1>2. exams[id].salt = salt /\ Home(spec, GateUrl(url, file[m].id)) = Home(exams[id].spec, GateUrl(publicUrl, id))
  BY <1>1, KeyTells
<1>3. Of(exams, file[m].id, spec, salt)
  BY DEF HasKey, Made, Owned
<1>4. file[m].id = id /\ exams[id].spec = spec
  BY <1>2, <1>3 DEF Of
<1> QED
  BY <1>2, <1>4

(* The gate lets through only a browser with the exam's own file.            *)
LEMMA FitsItsExam ==
  ASSUME Counts, Listings, Files, NEW m \in Machines, file[m] # NoFile,
         NEW id \in DOMAIN exams, NEW url, NEW asked, KeyFits(id, asked, Proof(m, url))
  PROVE  file[m].id = id
<1>1. PICK spec, base, salt : HasKey(m, spec, base, salt)
  BY FileKey
<1> DEFINE key == ConfigKey(BrowserOrder(file[m].settings))
           wanted == ConfigKey(SebBuild(id))
<1>2. <<url, key>> = <<asked, wanted>>
  BY DEF KeyFits, Proof, ConfigKeyHash
<1> HIDE DEF key, wanted
<1>3. key = wanted
  BY <1>2
<1> QED
  BY <1>1, <1>3, KeyNames DEF HasKey, key, wanted

-----------------------------------------------------------------------------
(* Answers of the gate.                                                      *)

(* No answer fits any machine.                                               *)
LEMMA NothingFits == \A id : Fits(NoPage, id)
BY DEF Fits, NoPage, Answer

(* So does one that shows nothing of an exam.                                *)
LEMMA NoGateFits ==
  ASSUME NEW id, NEW x, NEW kind \in {"missing", "off", "refused"}
  PROVE  Fits(Answer(kind, id, NoUrl, ""), x)
BY DEF Fits, Answer

(* The page with the script names the exam whose gate was asked for.         *)
LEMMA CheckFits ==
  ASSUME NEW base \in Names, NEW id, NEW query \in Queries, NEW x
  PROVE  Fits(Answer("check", id, Asked(base, id, query), ""), x)
<1> DEFINE g == GateUrl(base, id)
           path == <<"gate", id>>
           answer == Answer("check", id, Asked(base, id, query), "")
<1>1. g = [base EXCEPT !.path = path] /\ base \in Address /\ g.path = path
  BY NamesTyped, GateUrls DEF GateUrl
<1>2. Asked(base, id, query).path = path \o query
  BY <1>1 DEF Asked, Address
<1>3. query = <<>> \/ query = <<"?">>
  BY DEF Queries
<1>4. (path \o query)[2] = id
  BY <1>3
<1> HIDE DEF path
<1>5. /\ answer.kind = "check" /\ answer.code = "" /\ answer.id = id
      /\ answer.url = Asked(base, id, query)
  BY DEF Answer
<1> HIDE DEF answer
<1>6. Fits(answer, x)
  BY <1>2, <1>4, <1>5 DEF Fits
<1> QED
  BY <1>6 DEF answer

(* The verdict on a hash shows the exam only to a browser with its file.     *)
LEMMA JudgedFits ==
  ASSUME Counts, Listings, Files, NEW m \in Machines, file[m] # NoFile,
         NEW id \in DOMAIN exams, NEW url, NEW asked
  PROVE  Fits(Judged(id, asked, Proof(m, url)), file[m].id)
<1>1. CASE KeyFits(id, asked, Proof(m, url))
  <2> DEFINE code == exams[id].spec.code
             kind == IF code = "" THEN "redirect" ELSE "code"
  <2>1. file[m].id = id
    BY <1>1, FitsItsExam
  <2>2. Judged(id, asked, Proof(m, url)) = Answer(kind, id, NoUrl, code)
    BY <1>1 DEF Judged, Passed
  <2> HIDE DEF code
  <2>3. Fits(Answer(kind, id, NoUrl, code), id)
    BY DEF Fits, Answer
  <2> QED
    BY <2>1, <2>2, <2>3
<1>2. CASE ~KeyFits(id, asked, Proof(m, url))
  BY <1>2, NoGateFits DEF Judged
<1> QED
  BY <1>1, <1>2

(* So each answer that a machine has fits its file.                          *)
LEMMA PagesStay ==
  ASSUME Counts, publicUrl \in Names \cup {NoUrl}, Listings, Files, Pages, [Next]_vars
  PROVE  Pages'
<1> DEFINE Goal == page' = [m \in Machines |-> page'[m]] /\ \A m \in Machines : Fits(page'[m], file'[m].id)
<1> SUFFICES Goal
  BY DEF Pages, Fits
<1>1. /\ page = [m \in Machines |-> page[m]] /\ file = [m \in Machines |-> file[m]]
      /\ \A m \in Machines : Fits(page[m], file[m].id)
  BY DEF Pages, Files
<1>2. ASSUME page' = page, file' = file PROVE Goal
  BY <1>1, <1>2
<1>3. ASSUME NEW m \in Machines, NEW new, page' = [page EXCEPT ![m] = new],
             Fits(new, file'[m].id), \A n \in Machines \ {m} : file'[n] = file[n]
      PROVE  Goal
  <2>1. page' = [n \in Machines |-> IF n = m THEN new ELSE page[n]]
    BY <1>1, <1>3
  <2>2. page'[m] = new /\ \A n \in Machines \ {m} : page'[n] = page[n]
    BY <2>1
  <2> QED
    BY <1>1, <1>3, <2>1, <2>2
<1>4. ASSUME NEW m \in Machines, NEW answer, Shows(m, answer), Fits(answer, file[m].id)
      PROVE  Goal
  <2>1. page' = [page EXCEPT ![m] = answer] /\ file' = file
    BY <1>4 DEF Shows
  <2> QED
    BY <1>3, <1>4, <2>1
<1> HIDE DEF Goal
<1>5. ASSUME NEW m \in Machines, NEW id, NEW pw, NEW typed, Browse(m, id, pw, typed)
      PROVE  Goal
  <2>1. /\ page' = [page EXCEPT ![m] = NoPage]
        /\ file' = [n \in Machines |-> IF n = m THEN file'[m] ELSE file[n]]
    BY <1>5, Browsed
  <2>2. \A n \in Machines \ {m} : file'[n] = file[n]
    BY <2>1
  <2> QED
    BY <1>3, <2>1, <2>2, NothingFits
<1>6. ASSUME NEW m \in Machines, Close(m) PROVE Goal
  <2>1. page' = [page EXCEPT ![m] = NoPage] /\ file' = [file EXCEPT ![m] = NoFile]
    BY <1>6 DEF Close
  <2>2. \A n \in Machines \ {m} : file'[n] = file[n]
    BY <1>1, <2>1
  <2> QED
    BY <1>3, <2>1, <2>2, NothingFits
<1>7. ASSUME NEW m \in Machines, NEW base, NEW id, VisitNoGate(m, base, id) PROVE Goal
  <2>1. NoGate(id) \in {"missing", "off", "refused"}
    BY DEF NoGate
  <2> QED
    BY <1>4, <1>7, <2>1, NoGateFits DEF VisitNoGate
<1>8. ASSUME NEW m \in Machines, NEW base, NEW id, NEW query, VisitWithKey(m, base, id, query)
      PROVE  Goal
  <2>1. file[m] # NoFile /\ id \in DOMAIN exams
    BY <1>8 DEF VisitWithKey, GateIsOpen
  <2> DEFINE answer == Judged(id, Asked(publicUrl, id, query), Proof(m, Asked(base, id, query)))
  <2>2. Fits(answer, file[m].id) /\ Shows(m, answer)
    BY <1>8, <2>1, JudgedFits DEF VisitWithKey
  <2> HIDE DEF answer
  <2> QED
    BY <1>4, <2>2
<1>9. ASSUME NEW m \in Machines, NEW base \in Names, NEW id, NEW query \in Queries,
             VisitPlain(m, base, id, query)
      PROVE  Goal
  BY <1>4, <1>9, CheckFits DEF VisitPlain
<1>10. ASSUME NEW m \in Machines, Verify(m) PROVE Goal
  <2> DEFINE id == page[m].id
             ok == \E query \in Queries : page[m].url = Asked(publicUrl, id, query)
             judged == Judged(id, page[m].url, Proof(m, page[m].url))
             answer == IF ~GateIsOpen(id) THEN Answer(NoGate(id), id, NoUrl, "")
                       ELSE IF ~ok THEN Answer("refused", id, NoUrl, "") ELSE judged
  <2>1. file[m] # NoFile /\ Shows(m, answer)
    BY <1>10 DEF Verify
  <2>2. NoGate(id) \in {"missing", "off", "refused"}
    BY DEF NoGate
  <2>3. GateIsOpen(id) => Fits(judged, file[m].id)
    BY <2>1, JudgedFits DEF GateIsOpen
  <2> HIDE DEF ok, judged, id
  <2>4. Fits(answer, file[m].id)
    BY <2>2, <2>3, NoGateFits
  <2> HIDE DEF answer
  <2> QED
    BY <1>4, <2>1, <2>4
<1>11. CASE Instructor
  <2>1. \A id \in Ids : DeleteExam(id) => file' = file /\ page' = page
    BY DEF DeleteExam
  <2>2. \A id, form : CreateExam(id, form) => file' = file /\ page' = page
    BY DEF CreateExam
  <2>3. Boards \subseteq Machines /\ Laptops \subseteq Machines
    BY DEF Machines
  <2> QED
    BY <1>2, <1>5, <1>11, <2>1, <2>2, <2>3 DEF Instructor, StartBoard, Download, DownloadLocked
<1>12. CASE Student
  BY <1>6, <1>7, <1>8, <1>9, <1>10, <1>12 DEF Student
<1>13. CASE Server
  BY <1>2, <1>13 DEF Server, Save, Restart
<1> QED
  BY <1>2, <1>11, <1>12, <1>13 DEF Next, vars


-----------------------------------------------------------------------------
(* The invariant holds from the start and in every step.                     *)

(* The lists are sound when the server first starts.                         *)
LEMMA StartListings ==
  ASSUME Init
  PROVE  Counts /\ publicUrl \in Names \cup {NoUrl} /\ Listings
<1> DEFINE n == Cardinality(Unsalted(disk))
<1>1. /\ exams = FromSnapshot(disk, 0) /\ salts = n /\ spent = DOMAIN disk /\ disk \in OldExams
      /\ publicUrl \in {KeptUrl(url) : url \in PublicUrls}
  BY DEF Init
<1>2. /\ DOMAIN disk \subseteq Ids /\ Cardinality(DOMAIN disk) <= SaltBound
      /\ disk = [id \in DOMAIN disk |-> [spec |-> disk[id].spec, salt |-> NoSalt]]
      /\ \A id \in DOMAIN disk : Born(id, disk[id].spec)
  BY <1>1, GateAssumption DEF Born
<1>3. \A id \in DOMAIN disk : disk[id].salt = NoSalt
  BY <1>2
<1>4. disk = Entries(disk)
  BY <1>2, <1>3 DEF Entries
<1>5. Unsalted(disk) = DOMAIN disk
  BY <1>3 DEF Unsalted
<1>6. IsFiniteSet(DOMAIN disk)
  BY <1>2, GateAssumption, FS_Subset
<1>7. Loaded(exams, disk, 0)
  BY <1>1, <1>4, <1>6, Snapshot
<1>8. /\ n \in Nat /\ DOMAIN exams = DOMAIN disk /\ exams = Entries(exams)
      /\ \A id \in DOMAIN disk : exams[id].spec = disk[id].spec /\ exams[id].salt \in 1..n
      /\ \A id, other \in DOMAIN disk : exams[id].salt = exams[other].salt => id = other
  BY <1>3, <1>5, <1>7 DEF Loaded
<1>9. n <= SaltBound /\ SaltBound \in Nat /\ NoSalt \notin 1..SaltBound
  BY <1>2, <1>5, GateAssumption
<1> HIDE DEF n
<1>10. \A id \in DOMAIN exams : Owned(id, exams[id].spec, exams[id].salt)
  <2> SUFFICES ASSUME NEW id \in DOMAIN exams PROVE Owned(id, exams[id].spec, exams[id].salt)
    OBVIOUS
  <2>1. exams[id].salt \in 1..n /\ exams[id].salt # NoSalt
    BY <1>8, <1>9
  <2>2. Of(exams, id, exams[id].spec, exams[id].salt)
    BY <1>8 DEF Of
  <2>3. Of(disk, id, exams[id].spec, exams[id].salt)
    BY <1>3, <1>8, <2>1 DEF Of
  <2> QED
    BY <1>1, <1>2, <1>8, <2>1, <2>2, <2>3 DEF Owned
<1>11. Counts
  BY <1>1, <1>2, <1>8, <1>9 DEF Counts
<1>12. Listings
  BY <1>2, <1>3, <1>4, <1>8, <1>10 DEF Listings
<1>13. publicUrl \in Names \cup {NoUrl}
  BY <1>1, KeptUrls
<1> QED
  BY <1>11, <1>12, <1>13

(* The invariant holds in the initial states,                                *)
LEMMA Starts == Init => IInv
<1> SUFFICES ASSUME Init PROVE IInv
  OBVIOUS
<1>1. file = [m \in Machines |-> NoFile] /\ page = [m \in Machines |-> NoPage]
  BY DEF Init
<1>2. Files
  BY <1>1 DEF Files
<1>3. Pages
  BY <1>1, NothingFits DEF Pages
<1> QED
  BY <1>2, <1>3, StartListings DEF IInv

(* every step keeps it,                                                      *)
LEMMA Steps == IInv /\ [Next]_vars => IInv'
<1> SUFFICES ASSUME IInv, [Next]_vars PROVE IInv'
  OBVIOUS
<1>1. Counts' /\ Listings'
  BY ListsStay DEF IInv
<1>2. (publicUrl \in Names \cup {NoUrl})'
  BY NamesStay DEF IInv
<1>3. Files'
  BY FilesStay DEF IInv
<1>4. Pages'
  BY PagesStay DEF IInv
<1> QED
  BY <1>1, <1>2, <1>3, <1>4 DEF IInv

(* and so it always holds.                                                   *)
LEMMA Always == Spec => []IInv
BY Starts, Steps, PTL DEF Spec

-----------------------------------------------------------------------------
(* What the gate promises.                                                   *)

(* The server's state, the files and the answers have the shape that the     *)
(* code gives them: no salt is drawn beyond the bound, whatever is listed or *)
(* saved has an id that was given out and the spec of an accepted form.      *)
THEOREM TypeCorrect == Spec => []TypeOK
<1>1. IInv => TypeOK
  <2> SUFFICES ASSUME IInv PROVE TypeOK
    OBVIOUS
  <2>1. Counts /\ publicUrl \in Names \cup {NoUrl} /\ Listings /\ Files /\ Pages
    BY DEF IInv
  <2>2. /\ DOMAIN exams \cup DOMAIN disk \subseteq spent /\ spent \subseteq Ids
        /\ salts \in 0..SaltBound
    BY <2>1 DEF Counts
  <2>3. \A id \in DOMAIN exams : exams[id].spec \in Specs[id] /\ exams[id].salt \in 1..salts
    <3>1. \A id \in DOMAIN exams : id \in Ids /\ Born(id, exams[id].spec) /\ exams[id].salt \in 1..salts
      BY <2>1, <2>2 DEF Listings, Owned
    <3> QED
      BY <3>1, BornExact
  <2>4. \A id \in DOMAIN disk : disk[id].spec \in Specs[id] /\ disk[id].salt \in 1..salts \cup {NoSalt}
    <3>1. \A id \in DOMAIN disk :
            id \in Ids /\ Born(id, disk[id].spec) /\ disk[id].salt \in 1..salts \cup {NoSalt}
      BY <2>1, <2>2 DEF Listings, Owned
    <3> QED
      BY <3>1, BornExact
  <2>5. ASSUME NEW m \in Machines, file[m] # NoFile PROVE file[m].id \in spent
    BY <2>1, <2>5 DEF Files, Made, Owned
  <2>6. \A m \in Machines : Fits(page[m], file[m].id)
    BY <2>1 DEF Pages
  <2> QED
    BY <2>1, <2>2, <2>3, <2>4, <2>5, <2>6 DEF TypeOK, Fits
<1> QED
  BY <1>1, Always, PTL

(* The access code of an exam, and the way on to it, are shown only where    *)
(* that exam's own file runs (http.rs, gate and gate_verify).                *)
THEOREM CodeStaysWithItsExam == Spec => []CodeGoesToItsExam
<1>1. IInv => CodeGoesToItsExam
  BY DEF IInv, Pages, Fits, CodeGoesToItsExam
<1> QED
  BY <1>1, Always, PTL

(* A Config Key belongs to one exam: a salt is drawn once, and it is the one *)
(* thing in a file that is never another exam's (seb_file.rs, fleet.rs).     *)
THEOREM KeysAreTheirs == Spec => []KeysNameTheirExam
<1>1. IInv => KeysNameTheirExam
  <2> SUFFICES ASSUME IInv, NEW id \in DOMAIN exams
               PROVE  /\ \A m \in Machines : file[m] # NoFile /\ ConfigKey(file[m].settings) = ConfigKey(SebBuild(id)) => file[m].id = id
                      /\ \A other \in DOMAIN exams : ConfigKey(SebBuild(other)) = ConfigKey(SebBuild(id)) => other = id
    BY Zenon DEF KeysNameTheirExam
  <2>1. Counts /\ Listings /\ Files
    BY DEF IInv
  <2>2. ASSUME NEW m \in Machines, file[m] # NoFile, ConfigKey(file[m].settings) = ConfigKey(SebBuild(id))
        PROVE  file[m].id = id
    <3>1. PICK spec, url, salt : HasKey(m, spec, url, salt)
      BY <2>1, <2>2, FileKey
    <3>2. Key(spec, GateUrl(url, file[m].id), salt) = ConfigKey(SebBuild(id))
      BY <2>2, <3>1 DEF HasKey
    <3> QED
      BY <2>1, <3>1, <3>2, KeyNames
  <2>3. ASSUME NEW other \in DOMAIN exams, ConfigKey(SebBuild(other)) = ConfigKey(SebBuild(id))
        PROVE  other = id
    <3>1. Key(exams[other].spec, GateUrl(publicUrl, other), exams[other].salt)
            = Key(exams[id].spec, GateUrl(publicUrl, id), exams[id].salt)
      BY <2>1, <2>3, ListedKey
    <3>2. exams[other].salt = exams[id].salt
      BY <3>1, KeyTells
    <3>3. Of(exams, id, exams[id].spec, exams[id].salt)
      BY <2>1, ListedKey DEF Owned
    <3> QED
      BY <3>2, <3>3 DEF Of
  <2> QED
    BY <2>2, <2>3
<1> QED
  BY <1>1, Always, PTL


-----------------------------------------------------------------------------
(* The rules of an exam, and what they let a browser open.                   *)

(* What the rules of a spec are, with the gate under some name or off.       *)
RulesFit(spec, url, rules) ==
  /\ rules \in Seq(Domain) /\ rules # Bad /\ UrlHost(spec.start) # Bad
  /\ Bad \notin Wanted(spec) \cup ToSet(rules)
  /\ \A d \in Wanted(spec) \cup ({UrlHost(url)} \ {Bad}) : \E i \in DOMAIN rules : Covered(d, rules[i])
  /\ ToSet(rules) \subseteq Wanted(spec) \cup ({UrlHost(url)} \ {Bad})

(* The rules that are built for an exam that was accepted.                   *)
LEMMA RulesOf ==
  ASSUME NEW id \in Ids, NEW spec, Born(id, spec), NEW url \in Names \cup {NoUrl}
  PROVE  /\ RulesFit(spec, url, WithGate(EffectiveDomains(spec), GateUrl(url, id)))
         /\ \A i, j \in DOMAIN EffectiveDomains(spec) :
              Covered(EffectiveDomains(spec)[i], EffectiveDomains(spec)[j]) => i = j
<1> DEFINE all == <<UrlHost(spec.start)>> \o spec.domains
           kept == EffectiveDomains(spec)
           gate == GateUrl(url, id)
           rules == WithGate(kept, gate)
           n == Len(all)
<1>1. /\ UrlHost(spec.start) \in Domain /\ spec.domains \in Seq(Domain) /\ kept # Bad
  BY BornExact
<1>2. /\ all \in Seq(Domain) /\ n = Len(spec.domains) + 1 /\ all[1] = UrlHost(spec.start)
      /\ \A i \in 1..Len(spec.domains) : all[i + 1] = spec.domains[i]
      /\ \A i \in 1..n : all[i] # Bad
      /\ Exact(kept, all, n)
  BY <1>1, EffectiveDomainsExact
<1> HIDE DEF all, kept, gate
<1>3. /\ kept \in Seq(Domain)
      /\ \A i \in 1..n : \E k \in DOMAIN kept : Covered(all[i], kept[k])
      /\ \A k \in DOMAIN kept : \E i \in 1..n : kept[k] = all[i]
      /\ \A j, k \in DOMAIN kept : Covered(kept[j], kept[k]) => j = k
  BY <1>2, Zenon DEF Exact
<1>4. Len(spec.domains) \in Nat /\ DOMAIN spec.domains = 1..Len(spec.domains)
  BY <1>1
<1>5. \A d : d \in Wanted(spec) <=> \E i \in 1..n : d = all[i]
  <2>1. \A i \in 1..n : i = 1 \/ i - 1 \in 1..Len(spec.domains)
    BY <1>2, <1>4
  <2>2. 1 \in 1..n /\ \A i \in 1..Len(spec.domains) : i + 1 \in 1..n
    BY <1>2, <1>4
  <2>3. \A d : d \in ToSet(spec.domains) <=> \E i \in 1..Len(spec.domains) : d = spec.domains[i]
    BY <1>4 DEF ToSet
  <2>4. \A i \in 1..n : all[i] \in Wanted(spec)
    <3> SUFFICES ASSUME NEW i \in 1..n PROVE all[i] \in Wanted(spec)
      OBVIOUS
    <3>1. CASE i = 1
      BY <1>2, <3>1 DEF Wanted
    <3>2. CASE i - 1 \in 1..Len(spec.domains)
      <4>1. i \in Int /\ (i - 1) + 1 = i
        BY <1>2, <1>4
      <4>2. all[i] = spec.domains[i - 1]
        BY <1>2, <3>2, <4>1
      <4> QED
        BY <2>3, <3>2, <4>2 DEF Wanted
    <3> QED
      BY <2>1, <3>1, <3>2
  <2>5. \A d \in Wanted(spec) : \E i \in 1..n : d = all[i]
    BY <1>2, <2>2, <2>3 DEF Wanted
  <2> QED
    BY <2>4, <2>5
<1>6. \A d \in Wanted(spec) : d # Bad /\ \E k \in DOMAIN kept : Covered(d, kept[k])
  <2> SUFFICES ASSUME NEW d \in Wanted(spec)
               PROVE  d # Bad /\ \E k \in DOMAIN kept : Covered(d, kept[k])
    OBVIOUS
  <2>1. PICK i \in 1..n : d = all[i]
    BY <1>5
  <2>2. all[i] # Bad /\ \E k \in DOMAIN kept : Covered(all[i], kept[k])
    BY <1>2, <1>3
  <2> QED
    BY <2>1, <2>2
<1>7. \A k \in DOMAIN kept : kept[k] \in Wanted(spec)
  BY <1>3, <1>5
<1>8. UrlHost(spec.start) # Bad
  BY <1>6 DEF Wanted
<1>9. ASSUME rules = kept,
             \A d \in {UrlHost(url)} \ {Bad} : \E k \in DOMAIN kept : Covered(d, kept[k])
      PROVE  RulesFit(spec, url, rules)
  <2>1. ToSet(kept) \subseteq Wanted(spec)
    BY <1>7 DEF ToSet
  <2> HIDE DEF rules
  <2>2. Bad \notin Wanted(spec) \cup ToSet(rules)
    BY <1>6, <1>9, <2>1
  <2>3. \A d \in Wanted(spec) \cup ({UrlHost(url)} \ {Bad}) : \E i \in DOMAIN rules : Covered(d, rules[i])
    BY <1>6, <1>9
  <2>4. ToSet(rules) \subseteq Wanted(spec) \cup ({UrlHost(url)} \ {Bad})
    BY <1>9, <2>1
  <2>5. rules \in Seq(Domain) /\ rules # Bad
    BY <1>1, <1>3, <1>9 DEF kept
  <2> QED
    BY <1>8, <2>2, <2>3, <2>4, <2>5 DEF RulesFit
<1>10. CASE url = NoUrl
  <2>1. rules = kept /\ UrlHost(url) = Bad
    BY <1>10, NoUrlHost DEF WithGate, GateUrl, gate
  <2> QED
    BY <1>3, <1>9, <2>1 DEF kept, gate
<1>11. CASE url \in Names
  <2>1. gate # NoUrl /\ UrlHost(gate) = UrlHost(url) /\ UrlHost(url) # Bad /\ UrlHost(url) \in Domain
    BY <1>11, GateUrls, NamesTyped, UrlHostTyped DEF gate
  <2>2. CASE \E i \in DOMAIN kept : Covered(UrlHost(gate), kept[i])
    <3>1. rules = kept
      BY <2>2 DEF WithGate
    <3> QED
      BY <1>3, <1>9, <2>1, <2>2, <3>1 DEF kept, gate
  <2>3. CASE ~\E i \in DOMAIN kept : Covered(UrlHost(gate), kept[i])
    <3> DEFINE host == UrlHost(url)
    <3>1. rules = Append(kept, host)
      BY <2>1, <2>3 DEF WithGate
    <3>2. host \in Domain /\ host # Bad /\ Covered(host, host)
      BY <2>1, CoveredBySelf
    <3> HIDE DEF host, rules
    <3>3. /\ rules \in Seq(Domain) /\ Len(rules) = Len(kept) + 1 /\ Len(kept) \in Nat
          /\ DOMAIN rules = 1..(Len(kept) + 1) /\ DOMAIN kept = 1..Len(kept)
          /\ rules[Len(kept) + 1] = host /\ \A k \in 1..Len(kept) : rules[k] = kept[k]
      BY <1>3, <3>1, <3>2
    <3>4. rules # Bad
      BY <3>3 DEF Bad
    <3>5. ToSet(rules) \subseteq Wanted(spec) \cup {host}
      <4> SUFFICES ASSUME NEW i \in DOMAIN rules PROVE rules[i] \in Wanted(spec) \cup {host}
        BY DEF ToSet
      <4>1. i = Len(kept) + 1 \/ i \in 1..Len(kept)
        BY <3>3
      <4> QED
        BY <1>7, <3>3, <4>1
    <3>6. \A d \in Wanted(spec) \cup {host} : \E i \in DOMAIN rules : Covered(d, rules[i])
      <4>1. Len(kept) + 1 \in DOMAIN rules /\ \A k \in DOMAIN kept : k \in DOMAIN rules /\ rules[k] = kept[k]
        BY <3>3
      <4>2. \A d \in Wanted(spec) : \E i \in DOMAIN rules : Covered(d, rules[i])
        BY <1>6, <4>1
      <4>3. \E i \in DOMAIN rules : Covered(host, rules[i])
        BY <3>2, <3>3, <4>1
      <4> QED
        BY <4>2, <4>3
    <3>7. {UrlHost(url)} \ {Bad} = {host}
      BY <3>2 DEF host
    <3>8. Bad \notin Wanted(spec) \cup ToSet(rules)
      BY <1>6, <3>2, <3>5
    <3>9. RulesFit(spec, url, rules)
      BY <1>8, <3>3, <3>4, <3>5, <3>6, <3>7, <3>8 DEF RulesFit
    <3> QED
      BY <1>3, <3>9 DEF rules, kept, gate
  <2> QED
    BY <2>2, <2>3
<1> QED
  BY <1>10, <1>11

(* A browser may open what the rules of its file cover.                      *)
LEMMA OpensItsRules ==
  ASSUME NEW spec, NEW gate, NEW salt, salt # NoSalt, NEW m,
         file[m].settings = Settings(spec, gate, salt), NEW url,
         NEW rules, rules = WithGate(EffectiveDomains(spec), gate),
         NEW i \in DOMAIN rules, Covered(UrlHost(url), rules[i])
  PROVE  MayOpen(m, url)
<1> DEFINE s == Settings(spec, gate, salt)
           filter == FilterRules(spec, gate)
           rule == Rule(rules[i])
<1>1. Setting(s, "URLFilterRules") = {filter}
  BY SettingsRead
<1>2. filter = [k \in DOMAIN rules |-> Rule(rules[k])]
  BY DEF FilterRules
<1>3. /\ DOMAIN rule = 1..4 /\ rule[3] = <<"expression", rules[i]>>
  BY DEF Rule
<1> HIDE DEF s, filter
<1>4. rule \in ToSet(filter)
  BY <1>2 DEF ToSet
<1> HIDE DEF rule
<1>5. rules[i] \in Setting(rule, "expression")
  <2>1. rule[3] \in ToSet(rule) /\ rule[3][1] = "expression" /\ rule[3][2] = rules[i]
    BY <1>3 DEF ToSet
  <2> QED
    BY <2>1 DEF Setting
<1>6. rules[i] \in Rules(s)
  BY <1>1, <1>4, <1>5 DEF Rules
<1>7. rules[i] \in Rules(file[m].settings)
  BY <1>6 DEF s
<1> QED
  BY <1>7 DEF MayOpen

(* The rules of a listed exam are exact (effective_domains, seb.rs).         *)
THEOREM ListedRulesAreExact == Spec => []RulesAreExact
<1>1. IInv => RulesAreExact
  <2> SUFFICES ASSUME IInv, NEW id \in DOMAIN exams
               PROVE  LET spec  == exams[id].spec
                          gate  == {UrlHost(publicUrl)} \ {Bad}
                          kept  == EffectiveDomains(spec)
                          rules == WithGate(kept, GateUrl(publicUrl, id))
                      IN  /\ Bad \notin Wanted(spec) \cup ToSet(rules)
                          /\ rules # Bad
                          /\ \A d \in Wanted(spec) \cup gate : \E i \in DOMAIN rules : Covered(d, rules[i])
                          /\ ToSet(rules) \subseteq Wanted(spec) \cup gate
                          /\ \A i, j \in DOMAIN kept : Covered(kept[i], kept[j]) => i = j
    BY Zenon DEF RulesAreExact
  <2>1. id \in Ids /\ Born(id, exams[id].spec) /\ publicUrl \in Names \cup {NoUrl}
    BY ListedKey DEF IInv, Owned
  <2> QED
    BY <2>1, RulesOf, Zenon DEF RulesFit
<1> QED
  BY <1>1, Always, PTL


-----------------------------------------------------------------------------
(* Up-to-date browsers.                                                      *)

(* The file of machine m has its exam's salt and starts at the gate as it is. *)
LEMMA UpToDateIs ==
  ASSUME IInv, NEW m \in Machines
  PROVE  UpToDate(m) <=>
           /\ GateIsOpen(file[m].id) /\ file[m] # NoFile
           /\ \E spec, url, salt :
                /\ HasKey(m, spec, url, salt) /\ salt = exams[file[m].id].salt
                /\ Home(spec, GateUrl(url, file[m].id)) = GateUrl(publicUrl, file[m].id)
<1> DEFINE id == file[m].id
<1>1. Counts /\ Listings /\ Files
  BY DEF IInv
<1>2. file[m] = NoFile => ~GateIsOpen(id)
  BY <1>1, GateAssumption DEF Counts, GateIsOpen
<1>3. \A spec, url, salt : HasKey(m, spec, url, salt) =>
        /\ Setting(file[m].settings, "examKeySalt") = {salt}
        /\ Setting(file[m].settings, "startURL") = {Home(spec, GateUrl(url, id))}
  <2> SUFFICES ASSUME NEW spec, NEW url, NEW salt, HasKey(m, spec, url, salt)
               PROVE  /\ Setting(file[m].settings, "examKeySalt") = {salt}
                      /\ Setting(file[m].settings, "startURL") = {Home(spec, GateUrl(url, id))}
    OBVIOUS
  <2>1. salt # NoSalt /\ file[m].settings = Settings(spec, GateUrl(url, id), salt)
    BY DEF HasKey, Made
  <2> HIDE DEF id
  <2> QED
    BY <2>1, SettingsRead
<1>4. ASSUME UpToDate(m)
      PROVE  /\ GateIsOpen(id) /\ file[m] # NoFile
             /\ \E spec, url, salt :
                  /\ HasKey(m, spec, url, salt) /\ salt = exams[id].salt
                  /\ Home(spec, GateUrl(url, id)) = GateUrl(publicUrl, id)
  <2>1. /\ GateIsOpen(id) /\ file[m] # NoFile
        /\ Setting(file[m].settings, "examKeySalt") = {exams[id].salt}
        /\ Setting(file[m].settings, "startURL") = {GateUrl(publicUrl, id)}
    BY <1>2, <1>4 DEF UpToDate
  <2>2. PICK spec, url, salt : HasKey(m, spec, url, salt)
    BY <1>1, <2>1, FileKey
  <2>3. {salt} = {exams[id].salt} /\ {Home(spec, GateUrl(url, id))} = {GateUrl(publicUrl, id)}
    BY <1>3, <2>1, <2>2
  <2>4. salt = exams[id].salt /\ Home(spec, GateUrl(url, id)) = GateUrl(publicUrl, id)
    BY <2>3
  <2> QED
    BY <2>1, <2>2, <2>4
<1>5. ASSUME GateIsOpen(id), NEW spec, NEW url, NEW salt, HasKey(m, spec, url, salt),
             salt = exams[id].salt, Home(spec, GateUrl(url, id)) = GateUrl(publicUrl, id)
      PROVE  UpToDate(m)
  BY <1>3, <1>5 DEF UpToDate
<1> QED
  BY <1>4, <1>5

(* An up-to-date file is what the server would build.                        *)
LEMMA UpToDateBuilds ==
  ASSUME IInv, NEW m \in Machines, GateIsOpen(file[m].id), file[m] # NoFile,
         NEW spec, NEW url, NEW salt, HasKey(m, spec, url, salt), salt = exams[file[m].id].salt,
         Home(spec, GateUrl(url, file[m].id)) = GateUrl(publicUrl, file[m].id)
  PROVE  /\ GateUrl(url, file[m].id) = GateUrl(publicUrl, file[m].id)
         /\ exams[file[m].id].spec = spec /\ Born(file[m].id, spec) /\ publicUrl \in Names
<1> DEFINE id == file[m].id
<1>1. Counts /\ Listings /\ Files /\ publicUrl \in Names
  BY DEF IInv, GateIsOpen
<1>2. /\ url \in Names \cup {NoUrl} /\ Owned(id, spec, salt) /\ id \in DOMAIN exams
  BY DEF HasKey, Made, GateIsOpen
<1>3. exams[id].spec = spec /\ Born(id, spec) /\ id \in Ids
  BY <1>1, <1>2 DEF Owned, Of, Counts
<1>4. GateUrl(publicUrl, id).path = <<"gate", id>> /\ GateUrl(publicUrl, id) # NoUrl
  BY <1>1, GateUrls
<1>5. spec.start.path # <<"gate", id>>
  BY <1>3, BornExact
<1>6. GateUrl(url, id) # NoUrl
  BY <1>4, <1>5 DEF Home
<1>7. GateUrl(url, id) = GateUrl(publicUrl, id)
  BY <1>6 DEF Home
<1> QED
  BY <1>1, <1>3, <1>7

(* A browser that starts with the file of its exam as the server would make  *)
(* it now is let through, and no other is: both sides hash the same settings *)
(* whatever order each keeps them in, and the rules of the file let it open  *)
(* the gate (seb_json, seb_build, gate).                                     *)
THEOREM UpToDateIsWhatPasses == Spec => []UpToDatePasses
<1>1. ASSUME IInv, NEW m \in Machines, UpToDate(m) PROVE Passes(m)
  <2> DEFINE id == file[m].id
             gate == GateUrl(publicUrl, id)
  <2>1. PICK spec, url, salt :
          /\ HasKey(m, spec, url, salt) /\ salt = exams[id].salt
          /\ Home(spec, GateUrl(url, id)) = gate
    BY <1>1, UpToDateIs
  <2>2. GateIsOpen(id) /\ file[m] # NoFile
    BY <1>1, UpToDateIs
  <2>3. /\ GateUrl(url, id) = gate /\ exams[id].spec = spec /\ Born(id, spec)
        /\ publicUrl \in Names /\ id \in DOMAIN exams
    BY <1>1, <2>1, <2>2, UpToDateBuilds DEF GateIsOpen
  <2>4. id \in Ids /\ ConfigKey(SebBuild(id)) = Key(exams[id].spec, gate, exams[id].salt)
    BY <1>1, <2>3, ListedKey DEF IInv
  <2>5. KeyFits(id, gate, Proof(m, gate))
    <3>1. ConfigKey(BrowserOrder(file[m].settings)) = Key(spec, gate, salt)
      BY <2>1, <2>3 DEF HasKey
    <3> HIDE DEF gate, id
    <3>2. Key(spec, gate, salt) = ConfigKey(SebBuild(id))
      BY <2>1, <2>3, <2>4
    <3> QED
      BY <3>1, <3>2 DEF KeyFits, Proof
  <2>6. MayOpen(m, gate)
    <3> DEFINE rules == WithGate(EffectiveDomains(spec), gate)
    <3>1. RulesFit(spec, publicUrl, rules)
      BY <2>3, <2>4, RulesOf
    <3>2. UrlHost(gate) = UrlHost(publicUrl) /\ UrlHost(publicUrl) # Bad
      BY <2>3, GateUrls, NamesTyped
    <3> HIDE DEF rules
    <3>3. PICK i \in DOMAIN rules : Covered(UrlHost(gate), rules[i])
      BY <3>1, <3>2 DEF RulesFit
    <3>4. salt # NoSalt /\ file[m].settings = Settings(spec, gate, salt)
      BY <2>1, <2>3 DEF HasKey, Made
    <3> HIDE DEF gate, id
    <3> QED
      BY <3>3, <3>4, OpensItsRules DEF rules
  <2> QED
    BY <2>2, <2>5, <2>6 DEF Passes
<1>2. ASSUME IInv, NEW m \in Machines, Passes(m) PROVE UpToDate(m)
  <2> DEFINE id == file[m].id
             gate == GateUrl(publicUrl, id)
  <2>1. Counts /\ Listings /\ Files /\ publicUrl \in Names \cup {NoUrl}
    BY <1>2 DEF IInv
  <2>2. GateIsOpen(id) /\ id \in DOMAIN exams /\ publicUrl \in Names /\ KeyFits(id, gate, Proof(m, gate))
    BY <1>2, <2>1 DEF Passes, GateIsOpen
  <2>3. file[m] # NoFile
    BY <2>1, <2>2, GateAssumption DEF Counts
  <2>4. PICK spec, url, salt : HasKey(m, spec, url, salt)
    BY <2>1, <2>3, FileKey
  <2>5. Key(spec, GateUrl(url, id), salt) = ConfigKey(SebBuild(id))
    <3> DEFINE key == ConfigKey(BrowserOrder(file[m].settings))
               wanted == ConfigKey(SebBuild(id))
    <3>1. <<gate, key>> = <<gate, wanted>>
      BY <2>2 DEF KeyFits, Proof, ConfigKeyHash
    <3>2. key = Key(spec, GateUrl(url, id), salt)
      BY <2>4 DEF HasKey
    <3> HIDE DEF key, wanted, id, gate
    <3>3. key = wanted
      BY <3>1
    <3> QED
      BY <3>2, <3>3 DEF wanted
  <2>6. exams[id].salt = salt /\ Home(spec, GateUrl(url, id)) = Home(spec, gate)
    BY <2>1, <2>2, <2>4, <2>5, KeyNames
  <2>7. gate # NoUrl
    BY <2>2, GateUrls
  <2>8. Home(spec, GateUrl(url, id)) = gate
    BY <2>6, <2>7 DEF Home
  <2> QED
    BY <1>2, <2>2, <2>3, <2>4, <2>6, <2>8, UpToDateIs
<1>3. IInv => UpToDatePasses
  BY <1>1, <1>2 DEF UpToDatePasses
<1> QED
  BY <1>3, Always, PTL


(* A browser that would pass stops to pass only for a cause: its exam is     *)
(* deleted, its file is closed or replaced, or the server comes back under   *)
(* another public URL, from a save without the exam or its salt, or without  *)
(* having read its save (gate_exam, from_snapshot, Store::load).             *)
THEOREM PassIsKept == Spec => PassIsLostForCause
<1> DEFINE Cause(m) ==
             \/ file'[m] # file[m]
             \/ DeleteExam(file[m].id)
             \/ publicUrl' # publicUrl
             \/ \E url \in PublicUrls, saved \in Read :
                  /\ Restart(url, saved)
                  /\ file[m].id \in DOMAIN saved => saved[file[m].id].salt = NoSalt
           P == \A m \in Machines : UpToDate(m) /\ ~UpToDate(m)' => Cause(m)
<1>1. ASSUME IInv, [Next]_vars, NEW m \in Machines, UpToDate(m), ~Cause(m)
      PROVE  UpToDate(m)'
  <2> DEFINE id == file[m].id
  <2>1. Counts /\ Listings
    BY <1>1 DEF IInv
  <2>2. /\ id \in DOMAIN exams /\ publicUrl # NoUrl
        /\ Setting(file[m].settings, "examKeySalt") = {exams[id].salt}
        /\ Setting(file[m].settings, "startURL") = {GateUrl(publicUrl, id)}
    BY <1>1 DEF UpToDate, GateIsOpen
  <2>3. file'[m] = file[m] /\ publicUrl' = publicUrl /\ ~DeleteExam(id)
    BY <1>1
  <2> DEFINE Kept == id \in DOMAIN exams' /\ exams'[id].salt = exams[id].salt
  <2>4. ASSUME Kept PROVE UpToDate(m)'
    <3>1. id \in DOMAIN exams' /\ exams'[id].salt = exams[id].salt
      BY <2>4
    <3> HIDE DEF id
    <3>2. file'[m].id = id /\ file'[m].settings = file[m].settings
      BY <2>3 DEF id
    <3>3. /\ Setting(file'[m].settings, "examKeySalt") = {exams'[id].salt}
          /\ Setting(file'[m].settings, "startURL") = {GateUrl(publicUrl', id)}
      BY <2>2, <2>3, <3>1, <3>2
    <3>4. id \in DOMAIN exams' /\ publicUrl' # NoUrl
      BY <2>2, <2>3, <3>1
    <3> QED
      BY <3>2, <3>3, <3>4 DEF UpToDate, GateIsOpen, Setting, GateUrl
  <2>5. ASSUME exams' = exams PROVE Kept
    BY <2>2, <2>5
  <2>6. ASSUME NEW new \in Ids, NEW form \in FormsFor[new], CreateExam(new, form) PROVE Kept
    BY <2>1, <2>2, <2>6, Created
  <2>7. ASSUME NEW old \in Ids, DeleteExam(old) PROVE Kept
    <3>1. exams' = [other \in DOMAIN exams \ {old} |-> exams[other]]
      BY <2>7 DEF DeleteExam
    <3>2. old # id
      BY <2>3, <2>7
    <3> QED
      BY <2>2, <3>1, <3>2
  <2>8. ASSUME NEW url \in PublicUrls, NEW saved \in Read, Restart(url, saved) PROVE Kept
    <3>1. id \in DOMAIN saved /\ saved[id].salt # NoSalt
      BY <1>1, <2>8
    <3>2. id \in DOMAIN exams' /\ id \in DOMAIN disk /\ saved[id] = disk[id]
      BY <2>1, <2>8, <3>1, RestartLoads
    <3>3. exams'[id].salt = disk[id].salt
      BY <2>1, <2>8, <3>1, <3>2, RestartLoads
    <3>4. disk[id].salt = exams[id].salt
      BY <2>1, <2>2, <3>1, <3>2 DEF Listings
    <3> QED
      BY <3>2, <3>3, <3>4
  <2> HIDE DEF Kept
  <2>9. CASE Instructor
    BY <2>5, <2>6, <2>7, <2>9, <2>4 DEF Instructor, StartBoard, Download, DownloadLocked, Browse
  <2>10. CASE Student
    BY <2>4, <2>5, <2>10, StudentKeeps
  <2>11. CASE Server
    BY <2>4, <2>5, <2>8, <2>11 DEF Server, Save
  <2> QED
    BY <1>1, <2>4, <2>5, <2>9, <2>10, <2>11 DEF Next, vars
<1>2. IInv /\ [Next]_vars => [P]_vars
  BY <1>1
<1> HIDE DEF P
<1>3. Spec => [][P]_vars
  BY <1>2, Always, PTL DEF Spec
<1> QED
  BY <1>3 DEF P, PassIsLostForCause

=============================================================================
