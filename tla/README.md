# A verification of partiful-cli

TLA+ specifications of the parts of `partiful-cli` (in `src/`) that are hard to
test, TLC configurations that check them on small instances, and TLAPS proofs
of the properties that matter most for every value of the constants.

Contents: [the system](#the-system), [what is hard](#what-is-hard),
[the modules](#the-modules-and-the-code), [runs](#runs), [proofs](#proofs),
[what is not modelled](#what-is-not-modelled), [plan](#plan).

## The system

`partiful-cli` is a one-shot command-line program in Go. Every invocation is a
process: `cmd/partiful/main.go` builds the dependencies and calls `app.Execute`
(`internal/app/app.go`), which parses the command line, acquires a session if
the command needs one, reads what it needs from the remote, for a mutation
checks its preconditions, asks if the command is destructive, dispatches one
request, and prints one JSON envelope with an exit code. Nothing lives longer
than an invocation except two files and the remote itself, and those are what
concurrent invocations share.

| Part | State | Operations | What makes it correct |
| --- | --- | --- | --- |
| Credential store (`internal/auth`, `internal/app/session.go`, `internal/remote/auth.go`) | `credentials.json`, the flock on `credentials.json.lock`, the tokens in memory | login, status (refreshes), session acquisition (refreshes), dry-run session (refreshes, stores nothing), logout, doctor (reads without the lock) | one refresh at a time; nothing newer is overwritten; a logout sticks; no torn file; a session's token is alive; a failure means that nothing was stored; the lock is always released |
| Mutating commands (`event_write.go`, `cohosts.go`, `guests.go`, `blasts.go`, `rsvp_set.go`, `confirmation.go`) | none of their own; what was read, and the one request in flight | eleven commands: create, update, cancel; cohost invite, revoke, remove, link create, link revoke; guest invite; blast; RSVP | at most one effect; consent before harm; honest answers after lost responses; checks that miss nothing |
| Collections (`posters.go`, `contacts.go`, `events.go`, `guests.go`, `cursor_key.go`) | `cursor.key`; the cursors the user carries from one invocation to the next | posters list and search, contacts list, events list, guests list | the pages of a chain of cursors are one listing; every printed cursor opens |
| Remote traversals (`internal/remote`: contacts, guests, Firestore lists, cohost requests, events) | items and page tokens collected so far | page loops | bounded, complete or an error, never a truncated success |
| Private terminal input (`internal/auth/os_terminal.go`) | terminal mode, the reader's buffer, a signal goroutine | prompts for phone number and code | the mode is restored, a signal ends the login |
| Input parsing, normalisation (`event_write_input.go`, `rsvp_input.go`, `cohost_input.go`, and the parsers in `posters.go`, `blasts.go`, `guests.go`, `events.go`) | the position in argv, the flags taken | event ID, flags, files, stdin, event fields, RSVP answers, previews | every line is read as its grammar says, whatever the order; a preview shows what would be sent |
| Catalog, schemas, help, output (`app.go`) | a static table | help, global flags, dispatch, rendering | one command per line; an answer to every line |
| Entry point, confirmation prompt (`cmd/partiful`) | none | wiring, yes/no | see mutating commands |
| Windows support | as Unix, through LockFileEx and MoveFileEx | as Unix | as Unix |

How they interact: `Execute` calls everything in sequence, there are no
callbacks and one goroutine (the terminal's signal handler). Processes meet in
`credentials.json` (guarded by the flock), in `cursor.key` (guarded by
`link(2)`, which refuses an existing name) and in the remote state, which
nothing guards. The HTTP client has a 30-second timeout, follows no redirects
and retries nothing.

## What is hard

`PROJECT.json` lists every hazard at its line. In short:

* *Interleaving*: two invocations find the same expired credentials, whose
  refresh token can be spent once; a logout or a login overlaps a refresh; two
  first invocations create `cursor.key`.
* *Stale state*: a record is read, a network call is made, the record is
  replaced; preconditions are read several requests, and an unbounded human
  pause, before the mutation; a collection changes between two pages.
* *Failure and crashes*: killed anywhere, also between a rename and the report
  of it; a temporary file half written; the token rotated at the service but not
  stored; the answer of a mutation lost although the mutation happened; the
  terminal left in raw mode by a signal.
* *Time*: token lifetimes, the refresh window, the latency of an answer, which
  the stored expiry does not count.
* *Boundaries*: the end of a page, the lifetime that equals the refresh window,
  the capacity a party still needs, the grace periods of an event, the last text
  blast, an event ID that is not there.
* *Order of words*: global flags stand anywhere, six copies of one loop pair
  flags with values, and a rule about two fields is stated both by a normaliser
  and by a published schema.

## The modules and the code

`PROJECT.json` maps every definition to the lines it translates.

### CredentialStore

Variables `disk` (credentials.json), `lock`, and per process `cmd`, `pc`,
`held` (memory), `wire` (the answer on its way), `temp` (the temporary file)
and `result`; `now`; and the token service's `issued` and `accepted`. A record
names its sign-in (`chain`) and the grant that issued it (`gen`) instead of
token strings; `sub` and `exp` are what the access token says (an opaque token
has no subject), `user` and `expires` what the program stored beside it.

| Actions | Code |
| --- | --- |
| `LoginPrompts`, `SignIn`, `Receive` | `Login`, `SignInWithCustomToken`; the phone and code prompts and the SMS calls are one step |
| `AcquireLock`, `LockFails`, `Finish` | `WithLock` and its deferred release |
| `Load` | `acquireSession` and the status check up to the refresh request |
| `RemoteRefresh`, `CallFails`, `Receive` | `RefreshToken`, `refreshCredentials`, with `parseExpiresIn` in `UsableLifetime` |
| `CreateTemp`, `WriteTemp`, `ReplaceFile`, `SaveFails` | `WriteFileAtomic` up to and with `replaceFile` |
| `Remove` | the removal in `Logout` |
| `Conclude` | what follows a rename or a removal: `syncDirectory`, the release of the flock, the report |
| `Doctor` | `Status`, which takes no lock |
| `Crash`, `Revoke`, `Tick` | the kernel, the account, the clock (external) |

The token service may rotate (the old refresh token stops working when the new
one is issued) or not, answers any of `Lifetimes`, and may answer nobody.
`Tick` does not let an answer travel longer than `Timeout`; the assumption
`Timeout <= Window` is the code's 30 seconds against five minutes.
A save or a logout has two steps after its preparation: the rename or the
removal, after which the process is at `saved` or `removed`, and `Conclude`. A
process may be killed between them, and then the file has changed and nobody is
told. It cannot fail between them: `syncDirectory` returns no error, and
`WriteFileAtomic` returns nil after it (`os_unix.go:32`, `os_files.go:85`). The
mutant `SyncMayFail` is the code that would.
A file found at the start may be absent, invalid, or a record with or without a
refresh token, whose token names a subject or is opaque (`FoundRecord`).
`lost` and `retired` are history variables: chains whose refresh token somebody
lost or revoked, and chains that have left the file.

`SessionIsAlive` speaks of all three ways in which a command is handed a
session: read from the file (`Load`), received and kept (`Receive`, a dry run),
received and stored first (`Conclude`). The code does not look at the clock
again after a save, so that a save may in principle outlast the token.
`SavedTooLate` is that one exception: the record that was stored is not healthy
any more, that is, less than the refresh window is left of it.

`CredentialRegister` is the abstract specification: one register, on which each
invocation acts at most once and in one instant (`Put`, `Renew`, `Clear`). An
act and its report are two steps (`Confirm`), and an invocation may die before
either (`Die`). Who has acted has only a success to report, and who has not
acted looks at the register or fails (`Look`). `ImplementsRegister` says that
the store with its lock, network and temporary files implements it; the
invocation acts in the step that renames or removes the file. So who reports
a failure has left the file alone, and a killed invocation has acted
wholly or not at all, but nobody can tell from its silence which.

### Mutation

Variables `remote` (the remote state as far as a precondition looks at it, see
`Fields`), and per invocation the command line `inv`, `pc`, the reads still to
make `toRead`, what was `seen`, the request on the `wire`, and the `answer`.
All eleven commands share the actions: `Session`, then `Read` once for each
request the command makes (`Reads(c)` lists them in the code's order), each
followed by the refusals the code decides right then (`Refusals`), then a
preview, `Confirm` or `Send`; `Handle` is the remote, `Receive` and `GiveUp`
the answer or its absence. `Meddle` is everybody else: other people, other
programs and time.

Two abstractions matter. The conditions on times, ticketing, status, capacity
and RSVP safeguards of a command are one Boolean, `open`; `HostedEvent` is what
it stands for. And one number stands for "how many contacts match".
A response that does not match the reviewed contract yields exit 9 before and
after the dispatch alike (`ProtocolChanged`), so that answer alone does not
tell whether the mutation happened; `AnswerIsHonest` says so.

### HostedEvent

The other half of update, cancel, RSVP and blast: what they compute. Variables
are the remote's `event` (its fields, each a value, null or absent), its
`guests` and the number of its text `blasts`, the clock `now`, and per
invocation `inv`, `pc`, the event as it was
`seen`, the `groups` a blast is addressed to, the `wire` and the `answer`.

| Actions and operators | Code |
| --- | --- |
| `ReadEvent`, `Decodes`, `AfterEvent` | `GetEventInfo` with `decodeEventSafeguards`, then the command's checks: `UpdatePreconditions` and `MergedRange`, `Cancel`, the host check of a blast |
| `ReadGuest`, `RSVP` | `GetCurrentGuest`, then `validateRSVPEvent` |
| `ReadGuests`, `Audience` | `ListEventGuests`, `buildBlastGuestSnapshot`, `deriveBlastAudience` |
| `CountBlasts`, `BlastPreconditions` | `CountTextBlasts`, then `validateBlastPreconditions` on the event, the guests and the count |
| `Send`, `Receive` | the dispatch and `Completion` of its answer |
| `Land`, `Lose`, `Effect`, `Mask`, `Written` | what the request does: `buildUpdateRequest` and the PATCH with its update mask, the cancellation, `prepareRSVPRequest` |
| `Meddle`, `Tick` | other people, and the clock (external) |

The remote derives capacity and counts from the guests (`Info`, external).
`writer` and `moved` are history: who last named a field, and whether anything
has changed since an invocation read it. The texts, the poster and the
contents of a blast are data. All five statuses of an
invited guest are one (`SENT`), and `timezone` and `description` stand for the
fields of their kind.

The properties say how far a check made before the request is worth anything
after it: a PATCH carries no precondition, so two updates that are each in
order can together put an event's end before its start, and two guests can
together overfill it. `RangeBrokenOnlyIfMoved` and `OverfullOnlyIfMoved` say
that this takes a change in between, and nothing else; `RefusalIsDeserved` is
the converse, that nobody is refused whom the contract admits. It names one
exception (`AtBlastLimit`): an event with exactly `BlastLimit` text blasts is
refused another, which the contract admits (see the disagreements below). That
an event never gets more blasts than the limit is not among the properties: two
blasts may be counted before either lands, and the contract states the limit as
a condition of the command, not of the event.

### Collection and Listing

`Listing` translates what each command makes of the collection it has read:
the poster search, the contact list (first entry of an identity, then the
query) and the guest list (no anchored guests). `Collection` is the protocol
around any such function `View`: `Start` with or without a cursor, `ReadKey`,
`LinkKey`, `RereadKey` for `FileCursorKeyProvider.Key`, `OpenCursor` for
`decodeCursor`, `Fetch` for the read, the snapshot check and the page, `Seal`
for `nextCursor`. The five commands repeat this code; the model has it once.
The encryption of a cursor is the fact that it opens with its own key only, the
SHA-256 digest of the payload is the payload, and keys never repeat. A cursor
carries the history variable `trail`, the items printed so far along its chain,
which no action tests.

The collection that is listed is one variable. Cursors of different commands
therefore always have comparable digests here, which in the code they have only
within one command and for the two poster commands: the filter check has more to
do in the model than in the code. The `cohost` flag of a listed guest is left
out: it comes from the event, which the digest does not cover.

### Traversal

Below `Read` and `Fetch`, four methods of `internal/remote` collect a list page
by page, each with a discipline of its own. Variables are the `method`, what it
has `got`, its `cursor`, the data `pages` and cursors `seen`, and the history
`asked`. `Answered` is one turn of a method's loop (`TakeContacts`,
`TakeGuests`, `TakeDocuments`, `TakeCohostRequests`), `Refused` a turn that ends
before the page is looked at; the many checks of an item's fields are this one
refusal. The remote (external) is *full* (it fills its pages, as observed),
*short* (pages of any size, in order) or *odd* (any page, any cursor). The
collection does not change during a read; that it changes between two reads is
Collection's and Mutation's subject. `listFirestoreDocuments` has no bound of
its own, so `MaxRequests` bounds its requests, and only its, beyond what an
orderly remote needs.

### TerminalSecret

The two prompts of login. The reader (`readTerminalSecret`) and one goroutine
per prompt share the terminal's mode `tty`, a channel `signals[k]` of capacity
one, the `sync.Once` of the restoration (`once[k]`, with the state in which one
of them restores and the other waits) and the channel `done` (`closed`). `Signal` is the kernel:
a signal goes to every channel to which it is relayed, or ends the process.
`Signals` are the two that the code asks for (`passwordSignals`: SIGINT and
SIGTERM); any other one (SIGHUP, SIGQUIT, SIGKILL) is `Kill`, which ends the
process where it stands, at any moment. The line editor is its three outcomes: a value, ^C, an error. The request between
two prompts is the step `Proceed`.

A goroutine that has taken a signal may be overtaken: the reader finds the
channel empty, and login goes on to its second prompt before the goroutine ends
the process, with the second prompt's raw mode in force. This is `Late`.
`TerminalIsRestored` makes two exceptions, this one and `Kill`: both end the
process inside an open prompt (`Reading`), and on every other path out of a
prompt the terminal has been restored.

### Invocation and InputDocument

The run of the program before it touches anything: `Help`; `SiftGlobal` and
`SiftWord`, the loop of `Execute` that takes the global flags out; `Dispatch`
through the catalog; `TakeEvent` for `parseEventID` and for the eight commands
that slice the ID out themselves; the flag loop, of which the code has six
copies (`TakeSwitch`, `TakeValue`, `TakeRepeated`, `RefuseFlag`); `CheckFlags`
for what each command asks of its flags; `ReadDocument` for `--input` or the
document that field flags stand for. Variables are the `input` (argv and what
`--input` would read), `pc`, `at`, the `words` left of argv, the `globals`, the
matched `command`, the flags' `values` and `many` (those that repeat), and the
`answer`.

`InputDocument` is pure: a JSON object is a function from field names to
values, text is a word, and the constants say what a word is (what it trims to,
whether it is a time, a zone, an address, too long). It has the decoders, the
four normalisers with the order in which they refuse, the previews (`public`),
and the types that the `schema` command publishes for them. JSON's null decodes
to the zero value of a string or a Boolean (`IsText`, `BoolOf`), and the guest
limit's decoder ignores what follows its number (`Sloppy`): both are in the code
and therefore here. The four structured commands refuse fields with codes of
their own, which are one code and the field here.

`ReadAsMeant` compares the loop with a grammar that has no order in it: a set
of places where flags stand, such that each other word is the value of the flag
before it. The loop takes such a reading, and refuses a line only if there is
none. `PreviewIsFaithful` is about the second half: what a dry run shows fits the
published type, and, given back as `--input`, is taken for the same input.

## Runs

All bounds are constants of the configurations. Model values stand for
processes; runs on interchangeable processes use symmetry (never with
liveness).

| Run | Question | Instance |
| --- | --- | --- |
| `store` | Do concurrent login, commands, dry runs and logout leave the file safe through crashes, lost answers, rotation, failed saves? | 3 processes, 2 grants, lifetimes on both sides of the window |
| `store_pair` | No dead token is called healthy or handed out; no user is forgotten. | 2 processes, all 6 commands, clock to 2, opaque and readable tokens in the file and in the answers |
| `register` | The store implements the atomic register, also when a process is killed between its act and its report, and nobody waits for the flock forever. | 2 processes, all commands, weak fairness |
| `mutation` | At most one effect each, and each invocation ends unless a human sits at its prompt. | 2 invocations that invite, revoke or remove on one event, create, or update with two requests; 1 change by others; weak fairness |
| `mutation_every` | Honest answers, consent, complete checks for every command from every remote state. | 1 invocation, all sensible command lines, 1 change |
| `collection` | The pages join, cursors lead on and open, with a race for the key and cursors handed to other listings; each contact is listed once. | 3 invocations, pages of 1 and 2, 4 listings of 2 contents |
| `traversal` | Is a list that is read without an error complete, at every length around the bounds, and does every read end? Whatever the remote answers, is the work bounded and no page read twice? | pages of 2, 3 pages, 0 to 7 items; odd pages of 0 to 3 items, 4 cursors |
| `prompts` | Is the terminal restored, but on two paths, nothing echoed, and no signal swallowed? | 2 prompts, 2 signals, 3 sent; a signal that is not caught at any moment |
| `contact_exit_code` | (violation) `resource.not_found` exits 5. | `guests invite` |
| `hosted_event` | Is what the checks promised true when the request lands; is no update lost, no audience missed, nobody refused for nothing? | 2 invocations of any pair of 9 commands, from 2 situations, with 1 change; or one of 13 commands alone on every odd event, a blast after 0, 1 or 2 others with a limit of 1; clock to 1 |
| `command_line` | Is every line read as its grammar says, and every preview faithful? | 71,501 inputs: up to 5 words after each command's name, and documents that differ from a good one in two fields |
| `missing_event_id` | (violation) every failed command answers. | the 11 commands with event ID and flags, without either: 8 slice the ID out of argv, 3 ask first |

Why these bounds are enough to meet the interesting cases. *Store*: the shortest
lost update needs two writers and two grants; the third process is the victim
that is then refused, or the logout in between. The clock reaches the expiry of
a token, one unit is both the window and the timeout, and lifetimes 1 and 2 are
the first that `parseExpiresIn` rejects and admits. *Mutation*: one change by
others is enough to make a check stale, and any interleaving of two invocations
includes the one where both have checked and neither has sent. The blast limit
is 1, so that states below, at and above it exist. *HostedEvent*: two requests
are enough to break what each of them checked; times 0 to 2 put an end before,
at and after a start and the clock on both sides of a grace period of none and
of one; capacities 2 and 3 meet parties of 1 to 3, counted already or not. The blast limit is
1, met from below, at and above. In
the run alone, others have set one field to a value that no client writes.
*Collection*: two processes
race for the key while the third is given the loser's cursor; a listing of
three or four entries needs pages of one and of two, full and short.
*Invocation*: every loop meets a switch, a value, a repeated flag, an unknown
word and an end of the line in each of its states; a value that is a flag's
name, an empty or blank word; one and two global flags swallowed as values. A
rule of a document relates at most two fields.
*Traversal*: the item bound is 6, and the collections run from none to one
above it; an odd page of 3 exceeds a page, and four cursors are one more than a
read accepts. `MaxRequests` bounds the Firestore loop alone: to 3 requests of
an odd remote, which it promises nothing about, and to two more requests than an
orderly one needs. *Prompts*: two prompts
are what login has, and the third signal finds the two before it in the two
channels or with the two goroutines.
The proofs below remove the bounds for most of these properties.

Deadlock is not checked where all processes may have finished, which is how
these systems stop.

**Fairness.** `register` and `mutation` assume weak fairness of each
process's own steps: a process that can run does run; `flock` eventually grants
the lock to a waiter when it is free for good; and a request ends, because the
HTTP client's timeout is a step of the process (`CallFails`, `GiveUp`) that is
always enabled. Nothing is assumed of the human at a prompt, the remote, or
crashes. Weak fairness is enough for the flock here because every process
takes it once, so that it cannot be snatched away again and again. `traversal`
assumes weak fairness of the turns of the loop, each of which is one HTTP
request with its timeout. `prompts` assumes it of the reader and of each
goroutine where they are not blocked; `Read` is not part of it, because nobody
has to type.

**Disagreements found.** Two runs show one each. `guests invite` reports a
missing contact as `resource.not_found` with exit code 2, where the contract's
table and the cohost commands have 5 (`guests.go:228`,
`CLI-PRODUCT-CONTRACT.md:135`). `events update`, `events cancel`, `blasts send`
and the five cohost commands slice the event ID out of argv without asking whether it
is there: with nothing after its name and no global flag on the line, the
program panics, where the contract has an error envelope for every failed
command (`event_write_input.go:207`, `CLI-PRODUCT-CONTRACT.md:98`).

Others have no run of their own. `blasts send` refuses an event with exactly ten
text blasts, which the contract admits ("at most `10`"), although a test is on
the code's side (`blasts.go:329`, `CLI-PRODUCT-CONTRACT.md:1073`);
`RefusalIsDeserved` passes because it names this case as its exception.
`visibility: null` is refused on create, where the contract says that null
means omission (`event_write_input.go:601`). `notifyGuests: null` cancels an
event without a notification, which leaving the field out would send
(`event_write_input.go:548`), and `--guest-limit "5 people"` is taken for 5
(`event_write_input.go:717`); no document speaks of these two.

## Proofs

All theorems are of the form `Spec => []P` or `Spec => [][A]_vars`, but for the
refinement `StoreIsRegister`, and hold for every set of processes and every value
of the constants that meets the named assumptions of the modules. TLC evaluates
the same assumptions on every run. Those that say more than that a bound is a number or that a sentinel (`None`, `NoFile`,
`Absent` and the like) differs from the values it stands beside are:

* `TimingAssumption`: the client's timeout fits into the refresh window (30
  seconds, five minutes).
* `StartsAssumption` and `ConstantAssumption` of HostedEvent: the accounts are
  finitely many, numbers and switches of an event are typed as the decoder
  demands (`Sound`), and a command line has passed the checks of its input
  (`Command`), which Invocation models.
* `ListingAssumption`: the collections are sequences of entries, and the views
  that Collection pages through are the listings of Listing.
* `WordAssumption`, `FamilyAssumption`, `JsonAssumption`: trimming twice is
  trimming once, a time and a zone have no blanks around them, the empty word is
  neither, the program's own words are trimmed, and a JSON value is of one kind.

**CredentialStoreProofs.** The properties are not inductive: that a refresh
finds its record still in the file depends on who holds the lock at which
point, on what is in memory, and on which grants are on the wire. The inductive
invariant `FileInv` is the conjunction of
`TypeOK`; `PlaceInv` (which command can be where, and what it holds there);
`LockInv` (whoever is at a point under the lock holds it); `BoundInv` (grants
are numbered up to `issued`); `RefreshInv` (a refresh in progress sees its record
in the file); `SavedInv` (what has been saved is the file's until its writer
releases the flock); `GrantInv` (a grant that a process carries to the file is newer
than the file's, or of a chain that nobody has seen); `LoginInv` (two logins
carry different chains); and `RetiredNeverReturns`. Each conjunct has a step
lemma with one case per action. From it follow `TypeCorrect`,
`RefreshUndisturbed`, `LogoutSticks`, and, as action properties,
`FileForward` and `WritersOnly`. (`FileMovesForward` follows from
`ImplementsRegister`, and has no run of its own.)

**CredentialRegisterProofs** goes on from `FileInv`. `ReportedIsStored` needs
that whoever has reported success holds a record (`HeldInv`).
`LatencyInv` bounds how far the expiry that the program computes may be ahead
of the token's own: by the `Timeout` on the wire, in memory and in the file; since
the refresh window is at least as long, `HealthyIsAlive` and `SessionIsAlive`
follow; the latter by the three steps that hand a session over, of which
`Conclude` needs `SavedInv`. `AcceptedInv` says of each chain that the refresh token in the file is
accepted by the remote, unless the chain is `lost`, or its successor is on the
wire, in memory or in a temporary file of the one process that holds the lock;
it gives `RejectedOnlyIfLost`. `RefreshKeepsUser` needs `UserInv`: a
record whose token names a user stores one, and while the file has a user, what
is to replace it after a refresh has one too. `StoreIsRegister` is the refinement, one step
lemma per action. The refinement mapping is the identity on the file and on the
reports, and takes the program points to the phases of the register (`Phase`):
`saved` is stored, `removed` is cleared, `done` and `crashed` are ended.
`PhaseStep` says how a move of the program counter moves the phases. The rename
is `Put` or `Renew`, the removal `Clear`, `Conclude` is `Confirm`, a kill is
`Die`, every other report is `Look`, and all other steps leave the register
alone. What makes it go through is `FileInv`: the file that a rename replaces is
the one that the refresh was started from, and no failure is reported from
`saved` or `removed`.

**MutationProofs.** Three invariants. `WireInv` ties request, answer and effect
together (`HonestAnswers`, `AtMostOneEffect`). `ConsentInv` carries the
permission to send from the last read to the request (`ConsentFirst`).
`SnapshotInv` says that what an unmoved invocation has seen is what the remote
holds, and that it has passed the checks of every read so far; with the lemma
that the checks of all reads together are the command's preconditions
(`AllowedOfNeeds`) it gives `ChecksComplete`: a mutation against its own
preconditions happens only if something it had read moved in between.
`TypeCorrect` adds `RangeInv`, that what was seen of a field is one of its values.

**HostedEventProofs.** `Typed` is the type invariant with the domains of what
each invocation has seen. `SeenIsInfo` says that an unmoved invocation's view is
what `getEventInfo` would show now, and `Checked` that what is about to be sent
or on its way has passed its checks on that view. They give `EventTypes`,
`RangeHolds` and `BlastsReach`; `UpdatesSurvive` needs only `Typed` and the lemma
about the fields that a PATCH writes (`PatchedFields`).
`OverfullOnlyIfMoved` is about a sum over the guests. The places taken are
therefore the cardinality of a set of pairs (`Places`), and `TakenChanges` says
how one guest's answer changes it, from the library's facts about finite sets; no
induction is needed. `FieldsSound` keeps the numbers numbers, whatever others
make of the event, and `RSVPAgain` carries the RSVP's check to the moment its
request lands (`PartyLands`). `RefusalsHold` goes through the refusals of each
command and names, for each, what it has read.

**CollectionProofs.** `ListInv` says that a loaded key is the one in the file
(`KeyInv`: the file gets its key once, and while it has none there is no cursor
to lose), that every cursor in anyone's hands is `Sound` (it opens, and its
trail is a proper, non-empty prefix of one listing), and that a page continues
its cursor (`PageInv`, `AnswerInv`). `PageJoins` is the step: a prefix and the
page after it are a prefix. From it follow `ListTypes`, `PagesAreOneListing`,
`CursorsLeadOn` and `CursorsOpen`.
`ContactsListedOnce` is about every contact list at once. The recursive function
`ContactProgress` is filtered entry by entry; `ProgressStep` shows that its
equation has a solution, `OnceStep` that an entry added keeps `Once` (what is
kept are the first entries so far that match), and `SetInduction` draws the
conclusion for every length. The last is induction on a set instead of a
predicate, from the library's theorem on well-founded sets: the set of the
lengths for which the statement holds has no gap.

**TraversalProofs.** `ReadInv` says, of an unfinished read of an orderly remote,
that what it has got is the collection's prefix up to its cursor, that a remote
that fills its pages has filled every page so far, and, of any remote, that the
cursors asked are those seen, all different, one per data page. It gives
`NothingTruncated`, `BoundedWork`, `EachPageOnce` and `BoundsAreExact`. The last
is the one that needs the product `PageSize * MaxPages`: a full remote that
fits never reaches a bound.

**TerminalSecretProofs.** `SecretInv` relates the mode of the terminal to the
reader, to the state of the current prompt's `once`, and to its goroutine: raw
from `MakeRaw` until the first of the two has restored it, and no goroutine of
an earlier prompt restores any more, since the reader left that prompt only
when its `once` was done. A process that ends without the reader or a goroutine
of the open prompt is either killed, or ended by a late goroutine or
by a signal whose relaying that goroutine has stopped (`RelayInv`). It gives `TerminalRestored` and `NeverEchoed`.

**InvocationProofs.** `InvocationTypes` is the type invariant. The invariant of
the flag loop, `Looping`, is that the places of the flags it has passed
satisfy the grammar up to the word it is at (`Partial`), and that every reading
of the whole line agrees with them so far (`Only`). The step is `PlaceAdded`: the
next word must stand where a flag stands in every reading (`FlagIsNext`), and a
word taken as a value cannot. `RefusedHasNone` turns each refusal into a
contradiction with any reading. Of the catalog the proofs need only that a flag
is of one kind (`CatalogShape`). With `Sifted`, that each word of argv is a
global flag or among the words, they give `LinesAreReadAsMeant` for lines of any
length, where TLC reads those of a few words.

`PreviewsAreFaithful` is about documents. `Verdict` says that an answer OK to a
command that takes a document is its normaliser's, for some document that the
flags or the file brought (`FlagsDocumentIs`, `FileRead`). The rest is about the
normalisers. `Good(f, d)` describes what the decoder of field `f` can leave;
`DecodedGood`, `GoodAgain` and `GoodConforms` say that decoding makes a value
good, that a good value is decoded to itself, and that it has a published type.
`CreateAgain` and `UpdateAgain` combine them, with the defaults, the cleared
fields and the range of times; `CancelFits` and `RSVPFits` are the other two
previews. That the first of several failing checks exists is `LeastIndex`.

**Model-checked only.** The four liveness properties (`EveryInvocationEnds`,
`EveryInvocationAnswers`, `EveryReadEnds`, `CaughtEnds`) are out of the prover's
reach, with the fairness and ENABLED that they need. Every other property of a
passing run is a theorem.

## What is not modelled

* The encryption of cursors, the bytes of JSON, wording, `--pretty`, the texts of
  help and the schemas of results: pure, and tested by the repository's own
  tests.
* The characters of a word: trimming, time stamps, addresses and lengths are
  tables of the configuration.
* `rsvp get` and `events get`: one read and a projection each. Their command
  lines are in Invocation.
* The poster catalog and the two event lists (`events.go`, upcoming and past):
  single requests, bounded in items, with no page loop.
* The removal of `cursor.key` by hand, after which old cursors are rightly
  refused; abandoned temporary files, which nobody opens.
* A restoration of the terminal that fails: the code ignores the error of
  `term.Restore`, and the models assume that it succeeds, as they assume that a
  signal can be raised. What a user does about a terminal that an uncaught signal
  has left in raw mode.
* Network file systems, where flock, rename and link promise less.
* Windows: same interface, different calls, and access-control lists.

## Plan

1. *Done*: CredentialStore, its register, properties and first proofs.
2. *Done*: Mutation, properties and proofs.
3. *Done*: Listing and Collection, properties and proofs.
4. *Done*: Traversal, properties and proofs.
5. *Done*: TerminalSecret, properties and proofs.
6. *Done*: HostedEvent, what update, cancel, RSVP and blast compute and what
   their requests do, properties and proofs.
7. *Done*: Invocation and InputDocument, from the command line to a normalised
   input and its preview, and the proof that lines are read as meant.
8. *Done*: the proofs that were open: the health of sessions and the refinement
   in `CredentialRegisterProofs`, Mutation's type invariant, HostedEvent's places
   and refusals, the listing of contacts, and the previews.
