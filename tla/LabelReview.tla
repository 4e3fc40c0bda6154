----------------------------- MODULE LabelReview -----------------------------
(***************************************************************************)
(* Labels given by people: ReviewSession and its server                    *)
(* (data/policy/opinions_review.py), which show the opinions of a corpus   *)
(* in browser pages and keep one label of each in a file.                  *)
(*                                                                         *)
(* The requests of one server run one after the other under its lock.      *)
(* Several servers may be started on the same file and be killed at any    *)
(* point; reading and replacing the file are steps of their own.  A label  *)
(* is the number of the save that set it, 0 for a draft, and the digest of *)
(* a file stands for its content.                                          *)
(***************************************************************************)
EXTENDS Integers, FiniteSets

CONSTANTS
  Opinions,   \* opinions of the corpus
  Servers,    \* server processes
  MaxSaves    \* bound on the labels given

VARIABLES
  file,     \* <<>> absent, << <<>> >> created and empty, or <<labels>>
  session,  \* per server its stage, rows, revision and the save in progress
  pages,    \* per server the pages its browsers show: [rows, revision]
  saves,    \* labels given so far
  raced,    \* servers overtaken between their last look at the file and its use
  unseen    \* other servers that replaced labels their page had not shown

vars == <<file, session, pages, saves, raced, unseen>>

Drafts == [o \in Opinions |-> 0]
Whole(f) == f # <<>> /\ f # << <<>> >>

\* A session without a save in progress.
Session(stage, rows, revision) ==
  [stage |-> stage, rows |-> rows, revision |-> revision, data |-> <<>>, shown |-> <<>>]
Down == Session("down", <<>>, <<>>)

-----------------------------------------------------------------------------
Init ==
  /\ file = <<>>
  /\ session = [s \in Servers |-> Down]
  /\ pages = [s \in Servers |-> {}]
  /\ saves = 0
  /\ raced = {}
  /\ unseen = {}

Move(s, stage) == session' = [session EXCEPT ![s].stage = stage]

\* Servers that use later what they read before the file was written by s.
Overtaken(s) ==
  {o \in Servers \ {s} : session[o].stage \in {"opening", "replacing"}}

\* The pages show the file of their revision.
Truthful(shown) == \A page \in shown : page.revision = <<page.rows>>

\* A new file is asked for and none is there yet.
Begin(s) ==
  /\ session[s] = Down /\ file = <<>>
  /\ session' = [session EXCEPT ![s] = Session("creating", Drafts, <<>>)]
  /\ UNCHANGED <<file, pages, saves, raced, unseen>>

\* The exclusive creation, refused when another server created the file since.
Create(s) ==
  /\ session[s].stage = "creating"
  /\ IF file = <<>>
     THEN file' = << <<>> >> /\ Move(s, "writing")
     ELSE file' = file /\ session' = [session EXCEPT ![s] = Down]
  /\ UNCHANGED <<pages, saves, raced, unseen>>

WriteDrafts(s) ==
  /\ session[s].stage = "writing"
  /\ file' = <<session[s].rows>>
  /\ Move(s, "opening")
  /\ UNCHANGED <<pages, saves, raced, unseen>>

\* --resume: the file is read, validated and found unchanged; one without all
\* the labels is refused.
Resume(s) ==
  /\ session[s] = Down /\ Whole(file)
  /\ session' = [session EXCEPT ![s] = Session("opening", file[1], <<>>)]
  /\ UNCHANGED <<file, pages, saves, raced, unseen>>

\* The revision is taken from the file once more.
Open(s) ==
  /\ session[s].stage = "opening"
  /\ session' = [session EXCEPT ![s] = Session("serving", session[s].rows, file)]
  /\ UNCHANGED <<file, pages, saves, raced, unseen>>

-----------------------------------------------------------------------------
CheckDisk(s) == file = session[s].revision

\* A page is asked for.
Show(s) ==
  /\ session[s].stage = "serving" /\ CheckDisk(s)
  /\ pages' = [pages EXCEPT ![s] = @ \cup {[rows |-> session[s].rows,
                                           revision |-> session[s].revision]}]
  /\ UNCHANGED <<file, session, saves, raced, unseen>>

\* A page posts a label or a reset: it must show the revision of the session,
\* and the file must still be it.
Post(s, page, o) ==
  /\ session[s].stage = "serving" /\ CheckDisk(s)
  /\ page \in pages[s] /\ page.revision = session[s].revision
  /\ saves < MaxSaves
  /\ saves' = saves + 1
  /\ \E label \in {0, saves + 1} :
       session' = [session EXCEPT ![s] =
         [stage |-> "written", rows |-> session[s].rows, revision |-> session[s].revision,
          data |-> [session[s].rows EXCEPT ![o] = label], shown |-> page.rows]]
  /\ UNCHANGED <<file, pages, raced, unseen>>

\* The temporary file is complete; the disk is compared again.
Recheck(s) ==
  /\ session[s].stage = "written" /\ CheckDisk(s)
  /\ Move(s, "replacing")
  /\ UNCHANGED <<file, pages, saves, raced, unseen>>

\* An error answers the page and leaves session and file as they are.
Refuse(s) ==
  /\ session[s].stage \in {"written", "replacing"}
  /\ session' = [session EXCEPT ![s] =
                   Session("serving", session[s].rows, session[s].revision)]
  /\ UNCHANGED <<file, pages, saves, raced, unseen>>

\* os.replace, and the session adopts what it wrote.
Replace(s) ==
  /\ session[s].stage = "replacing"
  /\ file' = <<session[s].data>>
  /\ session' = [session EXCEPT ![s] =
                   Session("serving", session[s].data, <<session[s].data>>)]
  /\ raced' = Overtaken(s) \cup IF Truthful(pages[s]) THEN raced \ {s} ELSE raced
  /\ unseen' = IF s \in raced \/ file = <<session[s].shown>> THEN unseen
               ELSE unseen \cup {s}
  /\ UNCHANGED <<pages, saves>>

\* The process ends; pages left open have the token of a session that is gone.
Kill(s) ==
  /\ session[s] # Down
  /\ session' = [session EXCEPT ![s] = Down]
  /\ pages' = [pages EXCEPT ![s] = {}]
  /\ raced' = raced \ {s}
  /\ UNCHANGED <<file, saves, unseen>>

Next ==
  \E s \in Servers :
    \/ Begin(s) \/ Create(s) \/ WriteDrafts(s) \/ Resume(s) \/ Open(s)
    \/ Show(s) \/ (\E page \in pages[s], o \in Opinions : Post(s, page, o))
    \/ Recheck(s) \/ Refuse(s) \/ Replace(s) \/ Kill(s)

Spec == Init /\ [][Next]_vars

-----------------------------------------------------------------------------
\* A save replaces exactly the labels its page showed, whatever other pages and
\* other servers saved since: only a server overtaken between its last look at
\* the file and its use can overwrite a label nobody on its side saw.
SeenBeforeReplaced == unseen = {}

\* Once a server has served, the file holds all labels of one save, wherever
\* processes are killed.
AlwaysWhole ==
  (\E s \in Servers : session[s].stage \notin {"down", "creating", "writing"}) => Whole(file)

\* The labels of people are kept (opinions_review.py: save, check_disk).
LabelsKept == SeenBeforeReplaced /\ AlwaysWhole

-----------------------------------------------------------------------------
(* The invariant that keeps the labels *)

Labels == [Opinions -> Nat]
Rows == {<<>>} \cup Labels
Files == {<<>>} \cup {<<r>> : r \in Rows}
Sessions ==
  [stage : {"down", "creating", "writing", "opening", "serving", "written", "replacing"},
   rows : Rows, revision : Files, data : Rows, shown : Rows]

\* The variables have their types.
TypeOK ==
  /\ file \in Files
  /\ session \in [Servers -> Sessions]
  /\ pages \in [Servers -> SUBSET [rows : Rows, revision : Files]]
  /\ saves \in Nat
  /\ raced \subseteq Servers
  /\ unseen \subseteq Servers

\* A server that is up has all the labels, and a save replaces them by as many.
Complete ==
  \A s \in Servers :
    /\ session[s].stage # "down" => session[s].rows \in Labels
    /\ session[s].stage \in {"written", "replacing"} => session[s].data \in Labels

\* One server writes the drafts, into an empty file, so that nobody serves it.
WritingAlone ==
  \A s \in Servers : session[s].stage = "writing" =>
    /\ file = << <<>> >>
    /\ \A t \in Servers : session[t].stage = "writing" => t = s

\* A server that was not overtaken holds the rows of its revision, and is right
\* about the file while it opens and replaces it.
Faithful ==
  \A s \in Servers \ raced :
    /\ session[s].stage = "opening" => file = <<session[s].rows>>
    /\ session[s].stage \in {"serving", "written", "replacing"} =>
         session[s].revision = <<session[s].rows>>
    /\ session[s].stage \in {"written", "replacing"} => session[s].shown = session[s].rows
    /\ session[s].stage = "replacing" => file = session[s].revision
    /\ Truthful(pages[s])

\* The inductive form of LabelsKept.
KeptInv ==
  /\ TypeOK /\ Complete /\ AlwaysWhole
  /\ WritingAlone /\ Faithful /\ SeenBeforeReplaced
=============================================================================
