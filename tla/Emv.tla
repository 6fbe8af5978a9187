---------------------------------- MODULE Emv ----------------------------------
(* The EMV reader of example-07: it asks the card for its directory of     *)
(* payment applications (PSE), or tries those it knows, selects one after  *)
(* the other and shows the records of the first that lets itself be read.  *)
(* Every command to the card is one step; the card may answer each with a  *)
(* status the program has not asked for.                                   *)
EXTENDS Integers, Sequences, FiniteSetsExt, SequencesExt

CONSTANTS
  Aids,          \* applications
  KnownAids,     \* the sequence of those the program has built in
  Directories,   \* PSE a card may have: sequences of records, each the
                 \* sequence of AIDs it lists, or BadRecord
  NoPse, BadRecord,
  FileLists,     \* lists a card may give of an application: PDOL and AFL
  Behind,        \* what four bytes behind one may look like
  BYTE,          \* how many values a byte has: 256
  MAX_RECORDS,   \* 10
  NoApp

ASSUME ByteAssumption == BYTE \in Nat /\ MAX_RECORDS \in 1 .. BYTE
ASSUME AidAssumption == KnownAids \in Seq(Aids) /\ NoApp \notin Aids
ASSUME DirectoryAssumption == Directories \subseteq Seq({BadRecord} \union Seq(Aids))

Byte == 0 .. BYTE - 1
Entry == [sfi : Byte, first : Byte, last : Byte]
(* An AFL is taken apart in fours; spare are the bytes after the last four. *)
(* Of the PDOL it only matters if it is cut: if it ends amid an item.      *)
Lists == [entries : Seq(Entry), spare : 0 .. 3, cut : BOOLEAN]
ASSUME ListAssumption == FileLists \subseteq Lists /\ Behind \subseteq Entry

VARIABLES
  onCard,    \* card: its applications
  dir,       \* card: its PSE
  files,     \* card: application -> its lists
  selected,  \* card: the application that gets the commands
  pc,
  taken,     \* how many records of the PSE were taken
  apps,      \* the AIDs to try
  n,         \* which of them is being tried
  record,    \* the record to read next, i or j in the code
  again,     \* is the command the repetition with the Le of 6Cxx
  afl,       \* what is left of the AFL, its head being read
  values     \* the records read, as <<application, sfi, record>>

cardVars == <<onCard, dir, files>>
vars == <<cardVars, selected, pc, taken, apps, n, record, again, afl, values>>

TypeOK ==
  /\ selected \in Aids \union {NoApp, NoPse}
  /\ pc \in {"pse", "psd", "select", "lost", "gpo", "rec", "shown", "nothing", "failed"}
  /\ taken \in 0 .. MAX_RECORDS
  /\ apps \in Seq(Aids)
  /\ n \in 1 .. Len(apps) + 1
  /\ record \in 0 .. BYTE
  /\ again \in BOOLEAN
  /\ afl \in Seq(Entry)
  /\ values \subseteq Aids \X Byte \X Byte

Init ==
  /\ onCard \in SUBSET Aids
  /\ dir \in Directories \union {NoPse}
  /\ files \in [Aids -> FileLists]
  /\ selected = NoApp
  /\ pc = "pse"
  /\ taken = 0 /\ apps = << >> /\ n = 1
  /\ record = 0 /\ again = FALSE
  /\ afl = << >> /\ values = {}

-----------------------------------------------------------------------------
(* Slips a change of the program could make, for the properties to catch.  *)
ByteCounter(j) == (j + 1) % BYTE                          \* of NextRecord
Before(a, r) == r \o a                                    \* of Added
KeepValues(v) == v                                        \* of NoValues
TwoOn == n' = n + 2 /\ pc' = "select" /\ again' = FALSE    \* of NextApp
IgnoreStatus ==                                           \* of Select
  /\ pc = "select" /\ n <= Len(apps)
  /\ selected' \in (onCard \intersect {apps[n]}) \union {selected}
  /\ pc' = "gpo"
  /\ UNCHANGED <<cardVars, taken, apps, n, record, again, afl, values>>

-----------------------------------------------------------------------------
(* read_apps_from_pse                                                      *)

(* What it found, or else the list of main. *)
Try(found) ==
  /\ apps' = IF found = << >> THEN KnownAids ELSE found
  /\ n' = 1
  /\ pc' = "select"
  /\ again' = FALSE

(* SELECT of the PSE: there, or another status, or an answer without the   *)
(* fields the program looks for.                                           *)
SelectPse ==
  /\ pc = "pse"
  /\ \/ /\ dir # NoPse
        /\ selected' = NoPse
        /\ pc' = "psd" /\ record' = 1
        /\ UNCHANGED <<apps, n, again>>
     \/ /\ selected' \in {selected, NoPse}
        /\ Try(<< >>)
        /\ UNCHANGED record
  /\ UNCHANGED <<cardVars, taken, afl, values>>

Added(a, r) == a \o r

(* A record is read: its AIDs, and the next one; one without the tag of a  *)
(* directory record ends the reading.                                      *)
TakeRecord(r) ==
  /\ taken' = IF r = BadRecord THEN taken ELSE record
  /\ IF r # BadRecord /\ record < MAX_RECORDS
     THEN /\ apps' = Added(apps, r)
          /\ record' = record + 1 /\ again' = FALSE
          /\ UNCHANGED <<pc, n>>
     ELSE Try(IF r = BadRecord THEN apps ELSE Added(apps, r)) /\ UNCHANGED record

(* 6Cxx is answered once, by the same command with another Le. *)
Repeat == ~again /\ again' = TRUE

ReadDirectory ==
  /\ pc = "psd"
  /\ \/ record <= Len(dir) /\ TakeRecord(dir[record])
     \/ Repeat /\ UNCHANGED <<pc, taken, apps, n, record>>
     \/ Try(apps) /\ UNCHANGED <<taken, record>>
  /\ UNCHANGED <<cardVars, selected, afl, values>>

-----------------------------------------------------------------------------
(* main and read_app                                                       *)

(* read_app gives up: the next application. *)
NextApp == n' = n + 1 /\ pc' = "select" /\ again' = FALSE

NoMoreApps ==
  /\ pc = "select" /\ n > Len(apps)
  /\ pc' = "nothing"
  /\ UNCHANGED <<cardVars, selected, taken, apps, n, record, again, afl, values>>

(* SELECT, and the walk over the PDOL of the answer, which steps over the   *)
(* end of one that is cut and never comes back to it.  The card may have    *)
(* selected the application although the answer is of no use.               *)
Select ==
  /\ pc = "select" /\ n <= Len(apps)
  /\ \/ /\ apps[n] \in onCard
        /\ selected' = apps[n]
        /\ pc' = IF files[apps[n]].cut THEN "lost" ELSE "gpo"
        /\ UNCHANGED <<n, again>>
     \/ selected' \in {selected, NoApp} \union (onCard \intersect {apps[n]}) /\ NextApp
  /\ UNCHANGED <<cardVars, taken, apps, record, afl, values>>

NextRecord(j) == j + 1

(* The first entry of the AFL that has a record to read, and that record.   *)
Skip(l) == LET some == {k \in 1 .. Len(l) : l[k].first <= l[k].last} IN
           IF some = {} THEN << >> ELSE SubSeq(l, Min(some), Len(l))

ReadFrom(l) == afl' = l /\ pc' = "rec" /\ record' = Head(l).first /\ again' = FALSE

(* Without one the values are shown, unless the AFL ends amid an entry: the *)
(* iterator, which moves four bytes a turn, is past the end then, and goes  *)
(* on through the memory behind.                                            *)
StartEntry(l) ==
  LET left == Skip(l) IN
  \/ left # << >> /\ ReadFrom(left)
  \/ /\ left = << >> /\ files[selected].spare = 0
     /\ afl' = << >> /\ pc' = "shown" /\ again' = FALSE /\ UNCHANGED record
  \/ /\ left = << >> /\ files[selected].spare # 0
     /\ \E e \in Behind : e.first <= e.last /\ ReadFrom(<<e>>)

NoValues(v) == {}

(* GET PROCESSING OPTIONS gives the AFL of the selected application.       *)
GetOptions ==
  /\ pc = "gpo"
  /\ \/ /\ selected \in onCard
        /\ StartEntry(files[selected].entries)
        /\ values' = NoValues(values)
        /\ UNCHANGED n
     \/ /\ NextApp
        /\ UNCHANGED <<record, afl, values>>
  /\ UNCHANGED <<cardVars, selected, taken, apps>>

(* READ RECORD: its values are taken and the next one follows; 6Cxx is     *)
(* answered once; any other status ends read_app and drops its values.     *)
ReadRecord ==
  /\ pc = "rec"
  /\ \/ /\ values' = values \union {<<selected, Head(afl).sfi, record>>}
        /\ UNCHANGED n
        /\ IF NextRecord(record) <= Head(afl).last
           THEN /\ record' = NextRecord(record) /\ again' = FALSE
                /\ UNCHANGED <<pc, afl>>
           ELSE StartEntry(Tail(afl))
     \/ Repeat /\ UNCHANGED <<pc, n, record, afl, values>>
     \/ NextApp /\ UNCHANGED <<record, afl, values>>
  /\ UNCHANGED <<cardVars, selected, taken, apps>>

(* A PC/SC error, or an answer whose fields are missing where the program  *)
(* takes them for granted, ends it with an exception; so does memory that  *)
(* is not its own, with a crash.                                           *)
Abort ==
  /\ pc \in {"pse", "psd", "select", "lost", "gpo", "rec"}
  /\ pc' = "failed"
  /\ UNCHANGED <<cardVars, selected, taken, apps, n, record, again, afl, values>>

Step == SelectPse \/ ReadDirectory \/ NoMoreApps \/ Select \/ GetOptions \/ ReadRecord

Next == Step \/ Abort

Spec == Init /\ [][Next]_vars

(* The card answers. *)
FairSpec == Spec /\ WF_vars(Step)
-----------------------------------------------------------------------------
(* Properties.                                                             *)

(* What is shown are all the records the AFL of one application lists, of  *)
(* the one tried last, whatever was read of the others before; and what    *)
(* was read by an AFL that ends amid an entry is never shown.              *)
RecordsOf(a) == UNION {{<<a, e.sfi, j>> : j \in e.first .. e.last} : e \in Range(files[a].entries)}
ShownIsWhole == pc = "shown" => files[apps[n]].spare = 0 /\ values = RecordsOf(apps[n])

(* The commands of an application reach that application. *)
OwnCommands == pc \in {"gpo", "rec"} => selected = apps[n]

(* The applications tried are those of the records taken from the card's   *)
(* directory, in its order, also when it broke off or had more; those      *)
(* built in only if there are none.                                        *)
Taken == IF taken = 0 THEN << >> ELSE SubSeq(dir, 1, taken)
FromDirectory == pc \in {"select", "lost", "gpo", "rec", "shown"} =>
  /\ BadRecord \notin Range(Taken)
  /\ apps = IF FlattenSeq(Taken) = << >> THEN KnownAids ELSE FlattenSeq(Taken)

(* The reader comes to an end with any card whose lists end with an item:  *)
(* no status and no list of records, up to the largest record number,      *)
(* keeps it going.                                                         *)
WholeLists == \A a \in onCard : files[a].spare = 0 /\ ~files[a].cut
Ends == WholeLists => <>(pc \in {"shown", "nothing", "failed"})
=============================================================================
