------------------------------- MODULE MCGate -------------------------------
(* Exam e1 is typed in one of two ways, with a code and without; exam e2     *)
(* with lists of one domain that covers the others, of doubles and of        *)
(* refused lines, and with refused start pages, names and codes.  Both may   *)
(* have the same spec.  The state directory is empty, or holds e1 from       *)
(* before exams had salts.  Machines have nothing in common but the server:  *)
(* one that does what a board does and what a laptop does stands for all.    *)
EXTENDS Gate

Url(scheme, user, port, name) ==
  [scheme |-> scheme, user |-> user, port |-> port, name |-> name, path |-> <<"quiz">>]
Line(name) == [scheme |-> "", user |-> FALSE, port |-> "", name |-> name, path |-> <<>>]

Canvas == Url("https", FALSE, "", <<"canvas", "x", "edu">>)
BadStarts == {Url("http", FALSE, "bad", <<"x", "edu">>), Url("ftp", FALSE, "", <<"x", "edu">>),
              Url("https", TRUE, "", <<"x", "edu">>)}

All  == Line(<<"*", "X", "edu">>)
Sso  == Line(<<"", "sso", "x", "edu", "">>)
Same == Url("https", FALSE, "8443", <<"canvas", "x", "edu">>)
Lists == {<<Sso>>, <<All, Sso>>, <<Sso, All>>, <<All, All>>, <<Same, Sso>>,
          <<Line(<<"edu">>)>>, <<[All EXCEPT !.path = <<"quiz">>]>>, <<Sso, Same, All>>}

Plain == [name |-> "quiz", start |-> Canvas, domains |-> <<>>, quit |-> FALSE, code |-> ""]
MCFormsFor ==
  [id \in {"e1", "e2"} |->
     IF id = "e1" THEN {Plain, [Plain EXCEPT !.code = "secret"]}
     ELSE {[Plain EXCEPT !.domains = lines] : lines \in Lists}
          \cup {[Plain EXCEPT !.start = start] : start \in BadStarts}
          \cup {Plain, [Plain EXCEPT !.quit = TRUE, !.code = "secret"],
                [Plain EXCEPT !.name = ""], [Plain EXCEPT !.code = "too long"]}]

MCLabels    == {"canvas", "sso", "x", "edu", "exam", "org", "localhost"}
MCLowerCase == [l \in {"X"} |-> "x"]

Home1 == [Url("https", FALSE, "", <<"exam", "org">>) EXCEPT !.path = <<>>]
Home2 == [Url("https", FALSE, "8443", <<"x", "edu">>) EXCEPT !.path = <<>>]
MCPublicUrls == {NoUrl, Home1, Home2, Line(<<"exam", "org">>)}

None == [id \in {} |-> NoUrl]
MCOldExams == {None, [id \in {"e1"} |-> [spec |-> SpecOf(Plain), salt |-> NoSalt]]}

=============================================================================
