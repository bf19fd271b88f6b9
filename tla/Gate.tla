-------------------------------- MODULE Gate --------------------------------
(***************************************************************************)
(* The gate of the exams: the server's list of exams with their salts      *)
(* (fleet.rs), the files made from it that browsers start with, and the    *)
(* start page that checks a browser's Config Key before it shows the       *)
(* access code or sends the browser on (the gate handlers of http.rs).     *)
(*                                                                         *)
(* A board's file is made when the instructor starts it, a laptop's when   *)
(* it is downloaded; it stays as it is while exams are deleted and while   *)
(* the server dies and comes back from its last save, or empty when it     *)
(* cannot read that, maybe under another public URL.  A handler of the     *)
(* gate takes one look at the list under the lock and answers from it, so  *)
(* each request is one step; the JavaScript way takes two requests.        *)
(***************************************************************************)
EXTENDS ExamSettings

CONSTANTS
  Ids,        (* the ids that exams get, each one at random                  *)
  Boards,     (* the exam boards                                             *)
  Laptops,    (* machines with a SEB of their own, or with no SEB            *)
  FormsFor,   (* what the instructor may type for the exam that gets an id   *)
  ExamNames,  (* the names that an exam may have                             *)
  Codes,      (* the access codes of an accepted length                      *)
  Passwords,  (* the passwords of an accepted length                         *)
  PublicUrls, (* the values that EXAM_PUBLIC_URL may have, NoUrl for none    *)
  OldExams,   (* what the state directory may hold from earlier versions     *)
  MaxExams,   (* MAX_EXAMS                                                   *)
  SaltBound   (* bound of the model: how many salts are drawn                *)

Machines == Boards \cup Laptops

VARIABLES
  exams,      (* the exams in memory: spec and salt by id                    *)
  disk,       (* the exams as last saved                                     *)
  publicUrl,  (* set_public_url, NoUrl while the gate is off                 *)
  salts,      (* how many salts were drawn                                   *)
  spent,      (* the ids that were given out                                 *)
  file,       (* the .seb that each machine's browser runs, or NoFile        *)
  page        (* the gate's last answer to each machine                      *)

vars == <<exams, disk, publicUrl, salts, spent, file, page>>

NoFile == [id |-> "none", settings |-> <<>>]

(* An answer: what it is, the exam it is about, the URL that was asked for   *)
(* and the access code on it.                                                *)
Answer(kind, id, url, code) == [kind |-> kind, id |-> id, url |-> url, code |-> code]
NoPage == Answer("none", "none", NoUrl, "")

(* The URL of an exam's gate under a name of the server, as gate_url builds  *)
(* it, and with a query.                                                     *)
GateUrl(base, id) == IF base = NoUrl THEN NoUrl ELSE [base EXCEPT !.path = <<"gate", id>>]
Queries           == {<<>>, <<"?">>}
Asked(base, id, query) == [GateUrl(base, id) EXCEPT !.path = @ \o query]

(* seb_build, for a listed exam.                                             *)
Builds(spec)  == EffectiveDomains(spec) # Bad
SebBuild(id)  == Settings(exams[id].spec, GateUrl(publicUrl, id), exams[id].salt)

-----------------------------------------------------------------------------
(* The server and its list.                                                  *)

(* A form becomes an exam when its name, its code and its list are accepted  *)
(* and its start page has a host.                                            *)
SpecOf(form) ==
  [start |-> form.start, domains |-> ParseDomainList(form.domains),
   quit |-> form.quit, code |-> form.code]

Accepted(form) ==
  /\ form.name \in ExamNames
  /\ form.code \in Codes \cup {""}
  /\ ListAccepted(SpecOf(form).domains)
  /\ Builds(SpecOf(form))

(* from_snapshot: an exam without a salt draws one.                          *)
Unsalted(saved) == {id \in DOMAIN saved : saved[id].salt = NoSalt}

(* Faulty variants: such an exam stays without; every exam draws a new one.          *)
FromSnapshotAsSaved(saved, drawn) == saved
FromSnapshotRenewed(saved, drawn) ==
  [id \in DOMAIN saved |-> [saved[id] EXCEPT !.salt = drawn + 1]]

FromSnapshot(saved, drawn) ==
  LET order == SetToSeq(Unsalted(saved))
      Draw(id) == drawn + CHOOSE i \in DOMAIN order : order[i] = id
  IN  [id \in DOMAIN saved |->
         IF id \in Unsalted(saved) THEN [saved[id] EXCEPT !.salt = Draw(id)] ELSE saved[id]]

(* Ids are drawn after a form was typed, so none starts at its own gate.  The *)
(* state directory of an earlier version has exams that were accepted then,   *)
(* without salts.                                                            *)
ASSUME GateAssumption ==
  /\ IsFiniteSet(Ids) /\ NoFile.id \notin Ids
  /\ SaltBound \in Nat /\ NoSalt \notin 1..SaltBound
  /\ PublicUrls \subseteq Address
  /\ \A id \in Ids : \A form \in FormsFor[id] :
       /\ form.start \in Address /\ form.start.path # <<"gate", id>>
       /\ form.domains \in Seq(Address)
  /\ \A saved \in OldExams :
       /\ DOMAIN saved \subseteq Ids /\ Cardinality(DOMAIN saved) <= SaltBound
       /\ saved = [id \in DOMAIN saved |-> [spec |-> saved[id].spec, salt |-> NoSalt]]
       /\ \A id \in DOMAIN saved :
            \E form \in FormsFor[id] : Accepted(form) /\ saved[id].spec = SpecOf(form)

(* A public URL that has no host leaves the gate off.                        *)
KeptUrl(url) == IF UrlHost(url) = Bad THEN NoUrl ELSE url

Init ==
  /\ disk \in OldExams
  /\ exams = FromSnapshot(disk, 0)
  /\ salts = Cardinality(Unsalted(disk))
  /\ publicUrl \in {KeptUrl(url) : url \in PublicUrls}
  /\ spent = DOMAIN disk
  /\ file = [m \in Machines |-> NoFile]
  /\ page = [m \in Machines |-> NoPage]

(* The server dies, at any time, and starts from its last save, or without   *)
(* exams when it could not read that: the file stays, until the next save.   *)
NoExams == <<>>
Read    == {disk, NoExams}

Restart(url, saved) ==
  /\ saved \in Read
  /\ salts + Cardinality(Unsalted(saved)) <= SaltBound
  /\ exams' = FromSnapshot(saved, salts)
  /\ salts' = salts + Cardinality(Unsalted(saved))
  /\ publicUrl' = KeptUrl(url)
  /\ UNCHANGED <<disk, spent, file, page>>

(* The periodic save; whatever changes the list marks it dirty.              *)
Save ==
  /\ disk' = exams
  /\ UNCHANGED <<exams, publicUrl, salts, spent, file, page>>

(* create_exam, from the form of the exams page.                             *)
CreateExam(id, form) ==
  /\ id \notin spent
  /\ salts < SaltBound
  /\ Cardinality(DOMAIN exams) < MaxExams
  /\ Accepted(form)
  /\ exams' = [x \in DOMAIN exams \cup {id} |->
                IF x = id THEN [spec |-> SpecOf(form), salt |-> salts + 1] ELSE exams[x]]
  /\ salts' = salts + 1
  /\ spent' = spent \cup {id}
  /\ UNCHANGED <<disk, publicUrl, file, page>>

DeleteExam(id) ==
  /\ id \in DOMAIN exams
  /\ exams' = [other \in DOMAIN exams \ {id} |-> exams[other]]
  /\ UNCHANGED <<disk, publicUrl, salts, spent, file, page>>

-----------------------------------------------------------------------------
(* The files.  How a start reaches its board is a matter of the fleet; a     *)
(* laptop's user opens a locked file with the password that it was given.    *)

Browse(m, id, password, typed) ==
  LET container == Encode(SebBuild(id), password)
  IN  /\ id \in DOMAIN exams
      /\ Opens(container, typed)
      /\ file' = [file EXCEPT ![m] = [id |-> id, settings |-> container.settings]]
      /\ page' = [page EXCEPT ![m] = NoPage]
      /\ UNCHANGED <<exams, disk, publicUrl, salts, spent>>

StartBoard(b, id)                 == Browse(b, id, "", "")
Download(l, id)                   == Browse(l, id, "", "")
DownloadLocked(l, id, pw, typed)  == pw \in Passwords /\ Browse(l, id, pw, typed)

Close(m) ==
  /\ file[m] # NoFile
  /\ file' = [file EXCEPT ![m] = NoFile]
  /\ page' = [page EXCEPT ![m] = NoPage]
  /\ UNCHANGED <<exams, disk, publicUrl, salts, spent>>

(* What Safe Exam Browser does with its file: it opens the pages of allowed  *)
(* hosts only, and keeps every dictionary in an order of its own.            *)
Setting(settings, key) == {s[2] : s \in {t \in ToSet(settings) : t[1] = key}}

Rules(settings) ==
  UNION {Setting(rule, "expression") : rule \in UNION {ToSet(list) : list \in Setting(settings, "URLFilterRules")}}

MayOpen(m, url) == file[m] = NoFile \/ \E d \in Rules(file[m].settings) : Covered(UrlHost(url), d)

BrowserOrder(settings) ==
  [i \in DOMAIN settings |->
     LET s == Reverse(settings)[i]
     IN  IF s[1] = "URLFilterRules" THEN <<s[1], [j \in DOMAIN s[2] |-> Reverse(s[2][j])]>> ELSE s]

Proof(m, url) == ConfigKeyHash(url, ConfigKey(BrowserOrder(file[m].settings)))

-----------------------------------------------------------------------------
(* The gate.                                                                 *)

(* gate_exam: the answer when there is nothing to check.                     *)
NoGate(id) == IF id \notin DOMAIN exams THEN "missing" ELSE "off"
GateIsOpen(id) == id \in DOMAIN exams /\ publicUrl # NoUrl

Passed(id) ==
  LET code == exams[id].spec.code
  IN  Answer(IF code = "" THEN "redirect" ELSE "code", id, NoUrl, code)

(* Faulty variant: the hash of the URL without the key.                              *)
KeyFitsAnyKey(id, url, proof) == proof[1] = url

KeyFits(id, url, proof) == proof = ConfigKeyHash(url, ConfigKey(SebBuild(id)))

Judged(id, url, proof) ==
  IF KeyFits(id, url, proof) THEN Passed(id) ELSE Answer("refused", id, NoUrl, "")

Shows(m, answer) ==
  /\ page' = [page EXCEPT ![m] = answer]
  /\ UNCHANGED <<exams, disk, publicUrl, salts, spent, file>>

(* The server answers under every name that leads to it, and takes its       *)
(* public URL for the name that was asked for.                               *)
Names == {KeptUrl(url) : url \in PublicUrls} \ {NoUrl}

VisitNoGate(m, base, id) ==
  /\ MayOpen(m, base)
  /\ ~GateIsOpen(id)
  /\ Shows(m, Answer(NoGate(id), id, NoUrl, ""))

(* A browser that sends the header.                                          *)
VisitWithKey(m, base, id, query) ==
  /\ file[m] # NoFile
  /\ MayOpen(m, base)
  /\ GateIsOpen(id)
  /\ Shows(m, Judged(id, Asked(publicUrl, id, query), Proof(m, Asked(base, id, query))))

(* One that sends none gets the page with the script.                        *)
VisitPlain(m, base, id, query) ==
  /\ MayOpen(m, base)
  /\ GateIsOpen(id)
  /\ Shows(m, Answer("check", id, Asked(base, id, query), ""))

(* The script of that page posts the URL and the hash that SEB made for it;  *)
(* in a browser that is not SEB it posts nothing.                            *)
Verify(m) ==
  LET id == page[m].id
      ok == \E query \in Queries : page[m].url = Asked(publicUrl, id, query)
  IN  /\ page[m].kind = "check"
      /\ file[m] # NoFile
      /\ Shows(m, IF ~GateIsOpen(id) THEN Answer(NoGate(id), id, NoUrl, "")
                  ELSE IF ~ok THEN Answer("refused", id, NoUrl, "")
                  ELSE Judged(id, page[m].url, Proof(m, page[m].url)))

-----------------------------------------------------------------------------
Instructor ==
  \/ \E id \in Ids : DeleteExam(id) \/ \E form \in FormsFor[id] : CreateExam(id, form)
  \/ \E id \in Ids, b \in Boards : StartBoard(b, id)
  \/ \E id \in Ids, l \in Laptops : Download(l, id)
  \/ \E id \in Ids, l \in Laptops, pw, typed \in Passwords : DownloadLocked(l, id, pw, typed)

Student ==
  \/ \E m \in Machines : Close(m) \/ Verify(m)
  \/ \E m \in Machines, base \in Names, id \in Ids :
       \/ VisitNoGate(m, base, id)
       \/ \E query \in Queries : VisitWithKey(m, base, id, query) \/ VisitPlain(m, base, id, query)

Server == Save \/ \E url \in PublicUrls, saved \in Read : Restart(url, saved)

Next == Instructor \/ Student \/ Server
Spec == Init /\ [][Next]_vars

-----------------------------------------------------------------------------
(* What the gate promises.                                                   *)

Specs == [id \in Ids |-> {SpecOf(form) : form \in FormsFor[id]}]

(* The state has the shape that the code gives it: what is listed and saved  *)
(* was given out once, every listed exam has a salt that was drawn (the disk *)
(* may hold one without), a public URL has a host, and a machine has an      *)
(* answer of the gate that fits its kind.                                    *)
TypeOK ==
  /\ DOMAIN exams \cup DOMAIN disk \subseteq spent /\ spent \subseteq Ids
  /\ \A id \in DOMAIN exams : exams[id].spec \in Specs[id] /\ exams[id].salt \in 1..salts
  /\ \A id \in DOMAIN disk : disk[id].spec \in Specs[id] /\ disk[id].salt \in 1..salts \cup {NoSalt}
  /\ salts \in 0..SaltBound
  /\ publicUrl \in Names \cup {NoUrl}
  /\ \A m \in Machines :
       /\ file[m] # NoFile => file[m].id \in spent
       /\ page[m].kind = "none" => page[m] = NoPage
       /\ page[m].kind = "check" => page[m].url.path[2] = page[m].id
       /\ page[m].kind = "code" <=> page[m].code # ""

(* The gate shows the access code of an exam, or sends a browser on to it,   *)
(* only where a browser runs that exam's own file: not to a browser that     *)
(* has no file, nor to one with the file of another exam, whichever of the   *)
(* two ways its hash came and whatever was deleted, created, or restarted in *)
(* between (http.rs, gate_verify and gate).                                  *)
CodeGoesToItsExam ==
  \A m \in Machines : page[m].kind \in {"code", "redirect"} => file[m].id = page[m].id

(* A Config Key belongs to one exam: a file whose key is that of a listed    *)
(* exam was made for that exam, and no two listed exams have the same key,   *)
(* though their specs may be the same and the gate may be off, so that they  *)
(* start at the same page (exam_key_salt, seb_file.rs).                      *)
KeysNameTheirExam ==
  \A id \in DOMAIN exams :
    LET key == ConfigKey(SebBuild(id))
    IN  /\ \A m \in Machines : file[m] # NoFile /\ ConfigKey(file[m].settings) = key => file[m].id = id
        /\ \A other \in DOMAIN exams : ConfigKey(SebBuild(other)) = key => other = id

(* The gate lets machine m through to the exam of its file.                  *)
Passes(m) ==
  LET url == GateUrl(publicUrl, file[m].id)
  IN  GateIsOpen(file[m].id) /\ MayOpen(m, url) /\ KeyFits(file[m].id, url, Proof(m, url))

(* The file of machine m carries the salt that its exam still has, and       *)
(* starts at the gate as it is now.                                          *)
UpToDate(m) ==
  /\ GateIsOpen(file[m].id)
  /\ Setting(file[m].settings, "examKeySalt") = {exams[file[m].id].salt}
  /\ Setting(file[m].settings, "startURL") = {GateUrl(publicUrl, file[m].id)}

(* Such a browser is what passes, and no other: the server and the browser   *)
(* hash the same settings, though each keeps them in an order of its own and *)
(* the exam has been saved and loaded since (seb_json, seb_file.rs).         *)
UpToDatePasses == \A m \in Machines : UpToDate(m) <=> Passes(m)

(* A browser that would pass stops to pass only when its exam is deleted,    *)
(* when its file is closed or replaced, or at a restart with another public  *)
(* URL or from a state that lacks the exam or its salt: a save from before   *)
(* it had them, or nothing, when the last save could not be read (gate_exam  *)
(* builds the key of the exam as it is now; from_snapshot; Store::load).     *)
PassIsLostForCause ==
  [][\A m \in Machines : UpToDate(m) /\ ~UpToDate(m)' =>
       \/ file'[m] # file[m]
       \/ DeleteExam(file[m].id)
       \/ publicUrl' # publicUrl
       \/ \E url \in PublicUrls, saved \in Read :
            /\ Restart(url, saved)
            /\ file[m].id \in DOMAIN saved => saved[file[m].id].salt = NoSalt]_vars

(* The hosts that a spec is about: its start page's and the listed ones.     *)
Wanted(spec) == {UrlHost(spec.start)} \cup ToSet(spec.domains)

(* The rules of every listed exam can be built, under whatever public URL    *)
(* the server comes back with; they let through the start page, the listed   *)
(* domains and the gate, name no other domain, and none twice: nothing that  *)
(* another rule of the exam's spec covers (effective_domains, seb.rs).       *)
RulesAreExact ==
  \A id \in DOMAIN exams :
    LET spec  == exams[id].spec
        gate  == {UrlHost(publicUrl)} \ {Bad}
        kept  == EffectiveDomains(spec)
        rules == WithGate(kept, GateUrl(publicUrl, id))
    IN  /\ Bad \notin Wanted(spec) \cup ToSet(rules)
        /\ rules # Bad
        /\ \A d \in Wanted(spec) \cup gate : \E i \in DOMAIN rules : Covered(d, rules[i])
        /\ ToSet(rules) \subseteq Wanted(spec) \cup gate
        /\ \A i, j \in DOMAIN kept : Covered(kept[i], kept[j]) => i = j

=============================================================================
