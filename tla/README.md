# Verification of pcsc-tutorial

TLA+ models of the C++ library `libxpcsc` and of the programs built on it, checked
with TLC, and the theorems about most of them, proved with TLAPS.

## The system

| Part | State it keeps | Operations |
|------|----------------|------------|
| `Connection` (`libxpcsc/src/connection.cpp`) | one context at the PC/SC service; the connections it has handed out as `Reader` objects | `init`, `readers`, `wait_for_reader_card`, `wait_for_card_remove`, `atr`, `transmit`, `disconnect_card`, destructor; `handle_pcsc_response_code` after every call |
| `ATRParser` (`atrparser.cpp`) | the ATR, its fields, the historical bytes, a cache of features | `load`, `str`, `checkFeature` |
| `BerTlv` (`bertlv.cpp`) | a tree, fixed at construction | `parse`, `find_by_tag` |
| `parse_apdu`, `parse_access_bits`, `format` | none | pure |
| Transport card (`example-06`) | on the card: balance block and sector trailer; in the reader: a key slot; per run: a few locals | `tcard-activate`, `tcard-use` (the turnstile), `tcard-balance`, `tcard-deactivate` |
| EMV reader (`example-07`), AID probe (`example-08`) | list of applications, values read | SELECT, GET PROCESSING OPTIONS, READ RECORD |
| MIFARE dump (`dump-mifare-card`), `example-05` | the keys file, 64 blocks | load key, authenticate, read, per sector |
| `dump-atr`, `acr122u`, `cmd-get-data`, C examples 01-04, `util` | none that outlives a call | one or two service calls and a print |

How they interact: every program owns a `Connection`, waits for a card, gets a
`Reader` and sends commands with `transmit`. Nothing in one process runs in
parallel. What is concurrent is the outside: people plug readers and move cards,
other processes use the same reader (`SCARD_SHARE_SHARED`, and no call of the
repository opens a transaction), and the service or the card can fail at any call.

What is hard, and therefore what the properties are about (the list with lines is
`hazards` in PROJECT.json):

- a card swapped or removed between any two commands; an answer lost after the card
  has done the command; a process killed and started again while the card stays;
- two writes that only make sense together (block and trailer) with no transaction;
- the two-call idioms of the library (size, then list; query, then wait), each with
  a window in between;
- fatal errors that release the context under connections still in use;
- replies in pieces, with a size byte in which 0 means "a full byte or more";
- 8 and 16 bit arithmetic at its limits; caches and half-done loads in the parsers.

What makes each part correct, in a line: `Connection` owns exactly what the service
holds for it and misses no event; `transmit` gives a whole reply or says it did not;
the transport card programs take each fare once and never leave a card in a state
that another program mistakes for a good one; the parsers accept exactly the
well-formed inputs and answer for the last one loaded; the EMV reader stops and shows
the records of one application; the dump shows what was read with the key it names.

## Modules

| Module | Models | Code |
|--------|--------|------|
| `TicketCard` | the four programs on their readers, at every call to the service | `example-06/*.cpp`, `card.hpp`, the waits of `connection.cpp` |
| `TicketCardProofs` | theorems about `TicketCard` | |
| `Transmit` | `Connection::transmit` against a card that cuts its replies | `connection.cpp:185-253` |
| `Exchange` | what a caller of `transmit` relies on (abstract) | |
| `Connection` | the context, the reader list, the waits, the connections | rest of `connection.cpp` |
| `CExamples` | the four C programs, one step for each call to the service | `example-01` to `example-04` |
| `Processes` | one of them, and then a program of the library, on the same readers | both |
| `MifareDump` | the keys file, the sector loop and what is printed | `example-utils/dump-mifare-card.cpp` |
| `SectorDump` | the known keys tried on each sector, and the table that is printed | `example-05/example-05.cpp` |
| `Dumps` | the one dump and then the other, on the same card | both |
| `Emv` | the application directory, selection, options and records | `example-07/example-07.cpp` |
| `AtrParser` | `load`, `checkFeature`, and what `str` does to the object | `atrparser.cpp` |
| `BerTlv` | the constructor with its nested constructors, and `find_by_tag` | `bertlv.cpp` |
| `Probe` | the list of applications, the SELECT commands, the tags shown | `example-08`, `parse_apdu` |
| `TicketCardProofs`, `ConnectionProofs`, `TransmitProofs`, `DumpProofs`, `EmvProofs`, `AtrProofs`, `ProbeProofs` | theorems about the modules above | |
| `SequenceLemmas` | lemmas they share, about induction and sequences | |
| `MC...` | small instances for TLC | |

`TicketCard`, `MifareDump` and `Emv` see the library as what one call of it does to
the card: a command is answered, refused or fails. `Connection` and `Transmit` are
those calls from the inside, and `Exchange` is the promise between the two levels.
`Processes` and `Dumps` extend the module of the program that has the longer life of
its own and instantiate the other; `Probe` extends `BerTlv`, whose loop is its longest
step.

### TicketCard

A *seat* is a place where one of the four programs runs at a time, on the reader
`ReaderOf[seat]`. The label `pc` names the service call the program is about to
make; what it computes between two calls is part of the step of the earlier one.
`block` and `trailer` are the card's CARD_BLOCK and sector trailer, `slot` is the
reader's volatile key location 0, `authed` says whether the sector is open to whoever
talks to the card. `handle` becomes "stale" when the card is removed or reset, and
the next use of it is the `PCSCError` that ends the program (`LostCard`). Every
command may also be refused (a status other than 9000: `continue` in tcard-use,
`return 1` elsewhere), fail with another PC/SC error or be interrupted (`Crash`), and
a write may be done although it is refused (`Write`) or its answer lost (`TornWrite`). The block is kept as the
programs look at it: the balance, whether a byte of 2..14 is set, whether byte 15 is.
Blocks other than CARD_BLOCK and the Key B of the sector, which no program uses to
authenticate, play no part. `due` and `charged` are history variables: what the
card's balance should be, and how many fares the seat took since the card was put
there.

`init` and `readers` come first in all programs and fail before any card is touched;
they are in `Connection`. A reader that goes away is `Crash` here.

Properties: `ChargedOnce`, `FareKept`, `RekeyOrder`, `StrandedForGood`,
`AccessBitsKept`, `TurnstileKeepsUp`; see the comments in the module. `FareKept`,
`RekeyOrder` and `StrandedForGood` need a reader for every seat (`OneSeatPerReader`):
with two programs on one reader they are false, as nothing holds the card between a
read and a write. `ChargedOnce` and `AccessBitsKept` survive sharing.

### Transmit and Exchange

`rest` is what the card still has to say, `collector` and `xx` are the locals of
`transmit`, `reply` is a history variable: what the card means to answer. Data bytes
are numbered, so a lost, repeated or swapped piece shows. `Exchange` says: ask, then
get the whole reply with 9000, or a piece of it at most with another status, or an
exception that leaves the caller's response alone. `Transmit` implements it under the
mapping `asking[a] = (pc[a] # "idle")`.

### Connection

`live`, `open` and `reader` are the service's side (contexts of this process,
connections and what they go to), `context`, `held`, `call`, `names` and `result` the
object's and the program's. `readers()` is two steps, `readers` and `Fetch`, with the
reader list free to change in between; its buffer is built and taken apart character
by character because the index arithmetic is the point. A wait is `Poll` (the query)
and `Changed` (the blocking call, which answers when the state is not the one it was
given), then `Connect`. A result in `Fatal` releases the context before it is thrown.

Assumed of the program: `init` is called on an object that owns no context, as all
programs do. Assumed of the service: it closes the connections of a context it
releases; it answers a query about a reader it does not know with
SCARD_E_UNKNOWN_READER; the error codes a call can give are those listed in the
action, and `Failure`, with which any of them may end at any time.

### CExamples and Processes

`at` is the call a C program makes next. Each call says where the program goes on from
its answer (`Then`) and where after its error (`GiveUp`), as each has an error path of its
own in the code; the calls an error path makes, SCardDisconnect if the card is connected by
then and SCardReleaseContext, are steps like those at the end. `Refused` is a status of
example-04 that is not 9000, which has a path of its own too. The reader list is read
with two calls, as in the library, and only one reader is used, the first. The program waits
once, and a reader that is gone counts as a change (`Changed`); `Interrupted` is the
error of that call. example-02 to 04 return without SCardReleaseContext when there is no
reader: `NothingLeft` says so, rather than hide it (`exit = 2`). In `Processes` the C
program has ended before the library is used, and the service has dropped what it still
held; readers and cards are those of `Connection` all the time.

### MifareDump

`keys` is the file as `read_keys` keeps it (a sector named twice gets the later line; a
sector number no card has is stored and never used; a block without a key ends the
program). For each sector the program reads the blocks of key A, then those of key B:
`letter` and `left` say where it is, `open` is the sector and key the card is
authenticated for. A failed load or authentication leaves the sector, a refused read
only the block. `shown` is the vector `card` that is printed at the end; a block's data
is the place it was read from, so a block shown in the wrong place would be seen.
`refused` is a history variable: `AllShown` promises every block the keys allow only
if nothing else went wrong.

### SectorDump and Dumps

Every key is tried on a sector as key B and then as key A, and the blocks are read
after each authentication that succeeds. Under key B the first refused read ends the
program, under key A it is passed over. `card` is the program's table, which is a local
variable without an initializer: its entries start as `Garbage`, and a sector that no
key opened gets the type "none" and keeps the rest. `access` says whose trailer the
access bits of a sector were computed from, or that they come from `Garbage`. In
`Dumps` the first program may leave any sector of the card open, of which the second
makes nothing. `TableIsRead` is true of a run without a refused command only; with one,
a block not read under key A is printed with what the stack held.

### BerTlv and Probe

`stack` holds the constructors under way, the innermost last, and a turn of the loop of
`parse` is one step, so that an exception (a tag or a length field that is too long)
ends all of them. `p` is the position, a `uint16_t`: it is computed modulo POS, and
`wrapped` is a history variable that says whether it has passed the limit. `ValueAt` is
`substr`, which gives what is left when a length says more. `Probe` sends a SELECT for
each entry of its list that has a "|", written as text and read back by `parse_apdu`;
an answer with 9000 is taken apart and the tags in the first FCI template are shown.
Every exception ends the program. The list is a parameter, so that entries with an odd
number of digits, a character that is no digit or a common prefix can be looked at.
`Encodings` says what there is to parse: each has its bytes and the elements these encode,
as BER-TLV defines it (`TagForm`, `LengthForm`, `Begins`), independently of the loop. A card's
answer has the bytes of an encoding, a beginning of them (`cut`), or encodes nothing
(`Junk`).

### Emv

`onCard`, `dir` and `files` are the card: its applications, its directory (PSE), and
the file list (AFL) of each application. The card may refuse any command, and may or
may not have selected nothing after a refused SELECT. `record` and `afl` are the loops
of the program; `again` says that the command in hand is the one repeated after 6Cxx.
An AFL entry names a first and a last record; entries with nothing between them are
passed over. The loop moves its iterator four bytes a turn and compares it with the end,
so with `spare` bytes behind the last entry it goes on through memory: what it takes for
entries there is one of `Behind`, until the card refuses or the program crashes (`Abort`).
The same is true of a PDOL that ends in the middle of an item (`cut`), whose walk sends
nothing any more (`"lost"`). `taken` counts the records of the directory the program has
used. `values` is what was read, marked with the application that gave it. BER-TLV
answers are reduced to the fields the program looks for, found or not; after an answer
without them, or a warning, the card has selected the application all the same.

`Ends` is a promise for lists that end with an item (`WholeLists`). It is false without
that condition: the walk behind the end is nobody's to stop.

### AtrParser

A card's ATR is a sequence of bytes. One step of `load` is its beginning (`Load`), a turn
of its loop (`Section`) or its end (`History`); `pos`, `section` and `presence` are its
locals. The length check is computed modulo SIZES, as `size_t` is, and the bytes
are fetched with `at`, which throws past the end. `checkFeature` and `str` look fields up
with `operator[]`, which inserts what is not there (`Looked`), and read the historical
bytes with `substr` and `at`, which may throw. `pc = "refused"` is an exception of
`load`, "aborted" one of a question; both end every program of the repository, and
`New` is the next card, with a new object.

## Runs

| Run | Question | Instance |
|-----|----------|----------|
| `ticket_own` | are fares, keys and torn activations right with every seat on its own reader? | 2 seats, 2 readers, 1 card moving between them; blank, almost blank and written blocks |
| `ticket_swap` | does a swapped card get somebody else's balance, and does the turnstile keep up? The one fare of a stay is proved and not repeated here | 1 seat, 2 ticket cards, 1 other card |
| `ticket_shared` | are the access bits kept when two programs share a reader? (That a fare is taken once is proved for sharing too) | 2 seats, 1 reader, 1 card |
| `ticket_blank` | does the activation check that the block "contains only zeroes"? It does not | 1 seat, 1 card |
| `transmit` | is the reply whole, is the promise kept, does the loop end? | replies of 0..7 bytes, a byte of 3 values |
| `transmit_status` | does a failed chain "return just status code"? It does not | same |
| `connection` | does a C program leave anything behind, or release the context before its card, on any of its error paths; is the library's context owned, cleaned up and never used after release; is the list of one moment; does a wait end, in either? | 4 C programs; 2 readers with names of 1 and 2 characters, 2 contexts, 2 connections |
| `mifare_dump` | is a block shown with the key that opened it, are access bits those of their sector, is nothing left out; and, of example-05 after it, is anything printed that was not read? Do both end? | 2 sectors, files of up to 2 of 10 lines, keys right or wrong; 3 keys tried, one of which may be the card's |
| `dump_access` | are access bits filled in "if they are available"? Not when key B fails | same |
| `emv` | are the records shown those of one application, and all of them; are the applications those of the directory; does the walk end, with lists that end with an item? | 2 applications, directories of up to 3 records with 2 read, record numbers up to the largest of a byte of 4 values; a list with two bytes too many and one with a cut PDOL |
| `atr` | does `load` accept what fits and take it apart as ISO 7816-3 says; is every answer about this card? | all ATRs of up to 5 bytes over 6 values, MIFARE cards whole and cut, 1 to 10 sections, 15 to 34 bytes |
| `probe` | is an answer taken apart as it was encoded; are the tags those of the right application; is each application found that is there? Does it end? | 1 or 2 applications, 3 lists of entries, tags of 1 to 3 bytes, lengths in 4 forms, 2 levels, every cut of a part of them, up to 5 bytes of junk |

Bounds. Prices 5 and 2 give two fares and a rest that is too small, so the test
before the subtraction is met on both sides; the balance keeps its width of 16 bits.
Two seats are enough for every race over one reader or one card, since a property
speaks of one card and a program's step involves one reader. A byte of three values makes a reply
of seven bytes pass the "0 means a full byte or more" announcement twice. Readers
with names of different length make a list of one reader longer or shorter than
another; two connections reach the limit at which the service refuses more; two
contexts let a lost one be noticed. Two sectors show an access condition or a key of
the wrong sector; a byte of four values reaches the last record number 3 = BYTE - 1,
where a counter of a byte would run for ever; a directory of three records is one
longer than MAX_RECORDS. The memory behind a list has an entry with a record to read and one
without. The six byte values of `atr` have both TS bytes, a wrong one,
and TDs that announce nothing, TD only, all but TB, or TA and TB; the long ATRs stand on
both sides of each limit (7 sections, 33 bytes, the last historical byte, 11 of them).
Files have up to MaxLines = 2 lines, so that a sector may be named twice, or both
sectors once. Of the three keys of example-05 one in the middle may open a sector, so
that the loop goes on past it. In `probe` the names of the two applications have a
common beginning, so that an entry may mean both; MAX_CHILDREN bounds the elements
followed in one value, and more only come when the position wraps, which one of the
answers makes it do.

Every property fails under at least one plausible slip of the code (`mutants` in
PROJECT.json); the slips are kept in the modules, under a heading of their own.

Fairness. `TicketCard!FairSpec`: weak fairness of each program's own step, since a
running program continues as soon as the service answers; none for passengers,
starts or crashes. `Transmit!FairSpec`: SCardTransmit answers. `Processes!BothSpec`: the
service answers a call of the C program or of the library that can be answered, the
blocking one once the state has changed (`Answered`, `Changed`), and that a blocking call
fails instead (`Interrupted`) is never taken for granted; nothing is asked of readers,
cards or users.
`Dumps!BothSpec`, `Emv!FairSpec`, `Probe!FairSpec`: the program goes on and the card
answers, with whatever status. No strong fairness is used.

## Disagreements found

- `tcard-activate.cpp:105` promises a check for "only zeroes"; the loop at line 114
  stops before byte 15 (`ticket_blank`).
- `connection.cpp:239` says "return just status code"; line 240 returns the last
  piece of data too, so after a warning a caller gets the tail of a reply without its
  head (`transmit_status`).
- `dump-mifare-card.cpp:408` says "fill access bits if they are available"; when key B
  fails, lines 379 and 388 leave the sector before, also if its trailer was read with
  key A (`dump_access`).

Met on the way, with no document to compare: the dump takes C3 from byte 7, where C1
is (line 419). The model does the same, and `AccessOfSector` says nothing of C3.

## Proofs

`TicketCardProofs` proves for any seats, readers, cards, access bits, factory blocks
and prices (assumptions: those named in `TicketCard`, which say that `ReaderOf` maps
seats to readers, that NoCard is no card, and that the prices fit the balance):

- `TypeCorrect`: `Spec => []TypeOK`;
- `OneFareAStay`: `Spec => []ChargedOnce`, and `AccessBitsStay`:
  `Spec => AccessBitsKept`, for any sharing of readers;
- `FaresAreKept`, `RekeyInOrder`, `StrandedCardsStay`: with `OneSeatPerReader`,
  `Spec => []FareKept`, `Spec => RekeyOrder`, `Spec => StrandedForGood`.

The argument. `TypeInv` adds two facts to `TypeOK`: a valid handle means that a card
is on the seat's reader, and past the read of the trailer the local copy holds that
card's access bits (which is `AccessBitsKept` as well). `ChargeInv` says that a seat
that has charged the card on its reader is at a label from which it reaches another
write only through a wait that sees the reader empty, or is off; a start brings
tcard-use to that wait. `FareInv` says that a card is on one reader at most, that
`FareKept` holds, and (`SeatInv`) what the local balance and the card's block are at
each label from the write on. It is inductive only if no other seat writes the same
card, hence the assumption. The two action properties follow from `FareInv` in the
state before the step. The proofs have a lemma for what steps leave alone and then one
step for each action.

`ConnectionProofs`, for any contexts and connections and any finite set of readers
(assumptions: names are sequences that differ, are not empty and have no NUL; `None` is
neither a context nor a reader): `ConnTypes`, `ContextOwned`, `CleanedUp`, `ContextHeld` say that `TypeOK`,
`OwnsContext`, `CleanAfterFatal` and `CallsHaveContext` hold of `Spec`, and
`LibraryAlone` that `BothSpec => Spec`, which is what the run checks.
`ExampleLeavesNothing` is `BothSpec => []NothingLeft`. `ConnInv` is the four together,
as each error path relies on the service holding the object's one context and no more;
lemmas for a call that begins, returns, throws or goes on carry most actions.
`ExampleInv` says, for each call of a C program, whether it has a context, a
connection, an exit code and answers to its commands by then: the error path taken from
there has to fit. `ListOfOneMoment` is `Spec => ListIsSnapshot`: only
`Fetch` ends a call of `readers()` with a list, so what is left to show is that `Unpacked`
undoes `Packed` (`Unpacks`). `PackPlaces` says where in the buffer each name is, and the
induction goes from the last name to the first, as the list behind a name is that of the
names after it; `NulIs` finds the end of the name from its first character, where the
string begins, and from its second, where the loop looks next.

`TransmitProofs`, for replies and bytes of any size: `TransmitTypes` for any number of
applications; `NeverTooMuch` (`AsksNoMore`) and `PromiseKept` (`Spec =>
ImplementsExchange`, a refinement) under `OneApp`, without which both are false. The
invariant (`Chain`) says of an application in the middle of a reply that what it has
collected followed by what the card keeps is the reply, and that the status byte it holds
announces the rest.

`DumpProofs`, for any number of sectors, keys and lines: `DumpTypes`, `ShownRightly`
(`ShownWithItsKey`), `AccessRightly` (`AccessOfSector`) and `NothingLeftOut`
(`AllShown`), of the program alone; in `Dumps` its variables are reset when the other
begins. `DumpInv` adds that what is left to read are blocks the file gives to the
key in use, and that reading goes on only under a key that is right; `Progress` says
which blocks are over at each point of a sector, and that those that should be shown
are.

It also proves of `Dumps`, for any card and any list of keys, `NothingLeftOver`:
`BothSpec => []TableIsRead`. `Tables` says that every entry is `Garbage` as a whole, of no key, or
what was read at its place with the card's key, and that the sectors to come are
untouched. `Tried` says, as long as nothing was refused, that the sectors before this
one are read whole or not at all, that the keys before this one do not open it, and that
`key_found` tells after key B whether this one does. The first program is in it only
for what it leaves open.

`EmvProofs`, for any applications, directories, file lists and width of a byte
(assumptions: a directory is a sequence of records, a file list one of entries with up to
three bytes behind it, memory has entries of bytes, and MAX_RECORDS fits a byte): `EmvTypes`, `CommandsArrive` (`OwnCommands`),
`WholeApplication` (`ShownIsWhole`), `DirectoryOrder` (`FromDirectory`). `Complete` says
that what has been read, the rest of the entry in hand and the entries to come are
together all that the file list has, as long as no bytes behind it are read as entries,
after which nothing is ever shown; `DirectoryInv` that the list of applications is made
of the records taken, those before the one in hand, none of them bad, until it is kept for
good or replaced by the one built in.

`AtrProofs`, for any set of ATRs, any RID of five bytes and any `size_t` wider than a
byte: `AtrTypes`, `QuestionsRead` (`Spec => AskingIsReading`), `AnswersRight`
(`AnswerOfCard`), `AcceptsRight` (`Verdict`), `DecomposedRight` (`Decomposed`). `Verdict`
and `Decomposed` define the sections by the whole ATR, the code by a loop that goes on
from where it is. `Chained` connects the two: the turn in hand stands at the place of the
TD byte that ends the section before (`Td`, a function defined by recursion, with
`TdSteps`), and all sections before are announced. `LaidInv` says that the fields of the
sections so far, and no others, are at the places they have by the number of fields
before them (`Earlier`), and where the rest of the ATR begins. `FirstBytes` follows the
first bytes through the loop of `load` (where T0, TD1 and TD2 go, since the answer about
a contactless card is made from TD2 and the historical bytes), `IsMap` says that the fields are
a map from names, and `Answers` that the cache, once it is there, is that of this ATR.

`ProbeProofs`, for any encodings, cards and lists, nested to any depth, with tags and
lengths of any allowed size: `ProbeTypes`, `ProbeReports` (`ReportsTheCard`),
`ParseInverts` (`TreeIsWritten`), `ProbeShows` (`ShownIsWritten`). The assumptions are the
definition of BER-TLV (`EncodingAssumption`: an encoding is empty, or a first element,
with its value encoded, and the encoding of the rest), that no answer reaches the 16 bits
of the position, and that the names on a card are shorter than 256 bytes and an entry of
the list than 512 characters, as the length of an AID is sent in one byte; with a longer
entry the byte wraps, and `ReportsTheCard` would be false.

- Commands: `PairsRead` says that `parse_apdu` makes bytes of a text of digits and throws
  at any other, `MeantIs` that the SELECT of an entry means the applications whose names
  begin with its bytes; `Reported` then says which entries behind the one in hand are
  found.
- The parser: `Parsed` is the invariant. For an answer that encodes something there is
  (`Follows`) a sequence of encodings, one for each constructor under way, of which the
  constructor's data is a beginning (`Starts`). The innermost has read some first elements
  and has the encoding of the others before it (`HasRead`, `Remains`); each of the others
  waits for one element more (`Waiting`), which holds the next encoding of the sequence.
  Where the data end early the last element may be short of inner ones (`Shorter`) and
  nothing is read after it. `ElementReads` and `ValueReads` say that the tag, the
  length and the value that `Header` and `ValueAt` see are those that were encoded.
- `ShownInv` adds that the last entry found names the application selected, and what is
  shown is the first FCI of what the parser has read (`ShownShorter`, for a cut answer).

Recursion over data. The library's theorems for induction take an operator, which the
provers cannot be given; `ByInduction` states induction with a set of numbers instead, and
is proved from the well-foundedness of <. With it, and by the equations of the recursive
functions (`ParseEquation`, `TdSteps`), what `parse_apdu`, the length of an element and the
sections of an ATR are is proved for every input. These lemmas are in `SequenceLemmas`,
with those about `FlattenSeq` (`Flat`), which joins the names in a buffer and the
applications of a directory's records.

Where a variable is only ever TRUE or FALSE this is proved apart from the rest, as the
provers treat truth values and numbers differently.

Only model-checked. Liveness, for which there is no prover here: `TurnstileKeepsUp`,
`Answered`, `BothWaitsEnd`, `BothEnd`, `Ends`.
The three disagreements above are counterexamples and need no proof.

## Not modelled

- Texts, tables and layout: `response_status_str`, `format`, exception messages, `util`,
  what `ATRParser::str` writes and the checksum it compares. `response_status` and
  `response_data` are accessors; the modules use what they return.
- `parse_access_bits`, which no program calls.
- `dump-atr`, `acr122u`, `cmd-get-data`: one wait, one or two commands and a print, with
  the calls of `Connection` and `Transmit`.
- The sum of the lengths in a PDOL of `example-07`, which is kept in a byte and decides how
  many zero bytes a command carries, and how its records are printed; the characters of
  the keys file.
- A second `load` on one ATRParser, or its use after an exception, and a second `init` on
  a living context, which no program does; "Not supported protocol!", which the protocols
  the programs ask for exclude; memory that is leaked but changes nothing.
- Blocks and AFLs read from memory that is not the program's: `Behind` and `Garbage` stand
  for whatever is there.
- Two applications in the middle of a chain of GET RESPONSE commands on one card: no
  document promises anything of it. `Transmit` has the actions for it; its theorems name
  the assumption.
- A PC/SC error in `tcard-use`, a card pulled in the middle of a command included, ends
  the turnstile for good (line 135). `LostCard` and `Crash` do the same and `Start`
  begins again; that somebody starts it is not assumed.

## Plan

1. Done: every program and class with a state of its own, and a theorem for every
   invariant, action property and refinement the runs check.
2. The length of the PDOL of `Emv`, if the commands' bytes are ever to be modelled.
