# Verification of google-meet-notes

TLA+ models, TLC runs and TLAPS proofs for the service in `src/app`: a FastAPI
process and an arq worker that turn Google Workspace events about Meet
conferences into stored transcripts and notes. Line numbers refer to the files
under `src/`.

## 1. Inventory

| Part | Code | State it keeps | Operations | What is hard |
|---|---|---|---|---|
| Webhook, event handling | `app/api/routes/webhooks.py`, `app/services/event_service.py` | `processed_events`, `conferences` | `receive_events`, `handle_event` | at-least-once and unordered delivery, concurrent handlers, a request that dies between two commits |
| Event parsing, push verification | `app/events/parser.py`, `oidc.py` | none | `parse_push`, `verify` | poison messages, two ways to name a conference |
| Job queue and wiring | `app/queue.py`, `app/worker.py`, `app/main.py`, `app/api/deps.py` | the arq job of each conference (Redis) | `enqueue_notes_pipeline`, `notes_pipeline`, `lifespan` | job ids that are still taken, kept results, tries, timeouts, no Redis |
| Pipeline | `app/services/pipeline.py`, `transcript_service.py` | `conferences.pipeline_state`, `attempts`, `last_error`, `meeting_id`; `transcripts` | `run_pipeline`, `fetch_transcript` | two commits per stage, crash between them, rerun from the top, rows that are deleted meanwhile |
| Notes | `app/services/notes_service.py`, `app/api/routes/notes.py` | `notes` | `generate_notes`, `notes:regenerate`, reads | the worker and a request on the same row, chunking of long transcripts, answers that are cut off |
| Connections | `app/services/connection_service.py`, `app/api/routes/connections.py` | `oauth_connections`, the lock of each connection | `upsert_connection`, `get_valid_access_token`, `delete_connection` | refresh of a token by several tasks and two processes, re-consent during a refresh |
| Subscriptions | `app/services/subscription_service.py`, `app/google/events_client.py` | `event_subscriptions`, Google's subscriptions | `create_for_connection`, `delete_for_connection` | one side succeeds and the other fails |
| Meetings | `app/services/meeting_service.py`, `app/api/routes/meetings.py` | `meetings`, the user's calendar | `create_meeting`, `delete_meeting` | one side succeeds and the other fails, cascades |
| Accounts | `app/services/auth_service.py`, `app/security.py` | `users` | `create_user`, `authenticate_user` | two registrations with one address |
| Google and Gemini clients | `app/google/*.py` | none | paged listings, calls | lost or repeated pages, truncated answers |

Interaction: `handle_event` finds the owner of an event through
`event_subscriptions`, writes `conferences` and calls the queue; arq starts
`run_pipeline` in the worker's process, which reads that row, asks
`connection_service` for a token, and writes `transcripts` and `notes`; a
disconnect or the deletion of a meeting removes conferences with everything
below them (`ON DELETE CASCADE`) at any time; the regenerate route writes
`notes` beside the worker. Sessions are created with `expire_on_commit=False`
(`app/db.py:19`), so what a task has loaded stays as it was loaded: the models
keep those loaded values as locals of the process.

## 2. Modules

| Module | Models | Stands on |
|---|---|---|
| `EventIngestion` | webhook and `handle_event` | |
| `EventIngestionProofs` | theorems about it | TLAPS |
| `EventParsing` | `parse_push`, a pure function | |
| `ParsedEvents` | the handlers on the events `parse_push` makes of push bodies | `EventIngestion` with `EventParsing` |
| `ParsedEventsProofs` | theorems about it | TLAPS, `EventIngestionProofs` |
| `NotesLifecycle` | abstract: what a reader of the API sees of a conference | |
| `NotesPipeline` | queue, worker, `run_pipeline`, `generate_notes`, regenerate | refines `NotesLifecycle` |
| `NotesPipelineProofs` | theorems about it, the refinement among them | TLAPS |
| `NotesText` | paged listings, the text made of them, chunks, summaries | |
| `NotesTextProofs` | theorems about it | TLAPS |
| `MeetNotes` | the whole way from event to notes | extends `NotesPipeline`, with an instance of `EventIngestion` over the same rows; refines `EventIngestion` and `NotesLifecycle` |
| `MeetNotesProofs` | theorems about it, both refinements among them | TLAPS, `NotesPipelineProofs` |
| `ConnectionTokens` | access tokens, their refresh under a lock, consents, disconnects | |
| `ConnectionTokensProofs` | theorems about it | TLAPS |
| `Subscriptions` | the user's subscription row and the subscriptions at Google | |
| `SubscriptionsProofs` | theorems about it | TLAPS |
| `Meetings` | meetings, calendar events, settings of Meet spaces | |
| `MeetingsProofs` | theorems about it | TLAPS |
| `MC...` | instances for TLC | |

**Granularity.** A step is one statement or one commit of a session, or one
call to Google or Gemini; every `await` between them is a point where others
run. A statement and the commit that follows it without another `await` on a
different actor are one step. Rows are sets of records or functions of the
row's id; a uuid is the Pub/Sub message whose handler inserted the row.

### EventIngestion

| Code | Model |
|---|---|
| `webhooks.py:26-41` | `Deliver` (verified, parsed), `AckPoison` |
| `event_service.py:15-27` | `CheckLedger` |
| `:33-45` | `RecordMessage`, the ledger's commit or its `IntegrityError` |
| `:47-64` | `LookupSubscription` with its three early returns |
| `:66-70` | `LoadConference` |
| `:71-86` | `InsertConference` (commit, or a broken unique or foreign key) |
| `:79-83` | `UpdateConference` of a loaded row |
| `:84-102` | `ReloadConference`, `ReapplyTranscript` |
| `:104`, `:105-106` | `RefreshConference`, `Enqueue` |
| `webhooks.py:43-53` | `Reply200`, `Reply500`; `Abort` is an exception or the end of the process anywhere |
| `subscription_service.py:87-95`, `:98-120`, `connections.py:106-118`, cascades | `Resubscribe`, `Unsubscribe`, `DeleteConnection`, `DeleteMeeting` |

A 200 may get lost or come after Pub/Sub's deadline, so `Reply200` leaves the
choice whether the message is still delivered. A token that does not verify
changes nothing and is left out. `DeleteMeeting` takes a set of rows: a meeting
that recurs has a conference for each occurrence, and all go at once.

Properties: `AtMostOnce`, `AckedIsRecorded`, `RowsSound`, `EnqueuedSound`,
`TranscriptKept` (an action property), `EventHandled` (liveness, checked in
`system_live`), and
`RetriedUntilHandled`, which the code does not have (section 5).

### EventParsing and ParsedEvents

A resource name is the sequence of its segments, a field that is missing or
empty is `None`, and `data` is how far the payload gets on the way to a JSON
object (`parser.py:48-57`). `Parses` is the chain of checks that raise
`EventParseError`, `ParsePush` the event. Recursion over text is not needed:
`find` and `split` are statements about segments. `ParsedEvents` does not make
events up but takes what `ParsePush` makes of the push bodies, `Push`, so the two
kinds of events meet in one row only because the parser gives them the same
name: that is `TranscriptOfConference`. Of Google it assumes that a transcript's
resource name is below a conference record (`PushAssumption`): of any other name
the parser derives no conference and takes the one in `conferenceRecord`, which
need not be the transcript's. From `TranscriptOfConference` it follows, too, that
a conference has no second row under another name. `Crashes` is a body whose parts
have other types than the parser takes for granted: `webhooks.py:37` does not
catch what that raises, so such a message (`Untyped`) is answered 500 and
delivered again, while `AckPoison` acknowledges the others the parser rejects.
`MCEventIngestion` has six bodies.

### NotesPipeline and NotesLifecycle

| Code | Model |
|---|---|
| `worker.py:70-79` | `EnqueueJob`: nothing happens while the job id is taken |
| `worker.py:38-52`, arq | `StartJob`, `EndJob`, `RetryJob`, `ExpireResult` |
| `pipeline.py:48-62` | `LoadConference` |
| `transcript_service.py:57-96` | `FetchTranscript`, `MapMeeting`, `SaveTranscript` |
| `pipeline.py:67-69`, `:76-78` | `AdvanceState`, `CompleteState` |
| `pipeline.py:79-89` | `Raise`, `RecordFailure` |
| `notes_service.py:79-107` | `ReadTranscript`, `Summarize`, `SelectNotes`, `WriteNotes` |
| `notes.py:114-138` | `Regenerate`, then the same `generate_notes` steps |
| cascades | `Cascade`, used by `DeleteMeeting` and `DeleteConnection` |

A transcript's text is represented by the transcript resource it was fetched
from, and notes by the text they were made of: that is what
`NotesMatchTranscript` compares. `last_error` is set and cleared with
`pipeline_state` and left out. arq is not part of the repository; what the
models assume of it is what `worker.py` relies on: a job id is unique among
queued, running and kept jobs, a crashed worker's job is run again up to
`max_tries`, a job past its timeout is cancelled, and a job whose coroutine raised
is over: arq runs one again for an `arq.Retry`, and `worker.py` and `pipeline.py`
raise none (`pipeline.py:89` raises what the stage did). Another try is for
crashes only; after an exception nothing runs the conference again until somebody
enqueues it (section 5).

`NotesLifecycle` says what the API promises: an artifact goes from nothing to
transcript to notes, "notes_generated" is shown only over notes and for good,
and only a deletion takes something back, for good. `ImplementsLifecycle`
checks that every step of the pipeline, with its races, reruns and faults, is
a step of that or none, under the mapping `Artifact`, `Complete`.

### NotesText

| Code | Model |
|---|---|
| `meet_client.py:113-169` | `NextPage`, `LastPeople`, `LastEntries` |
| `transcript_service.py:46-54` | `AssembleEntry` with `Label` |
| `:82-96` | `StoreText` |
| `notes_service.py:79-91`, `:49-56` | `ReadText`, `SummarizeWhole` |
| `:16-38` | `NextPiece`, `ChunkStep`, `CloseChunks` |
| `:58-67` | `SummarizeChunk`, `SummarizeSections` |
| `gemini_client.py:59-87` | `Answer`, `Extract` |
| `pipeline.py:79-89`, `worker.py:38-52`, `notes.py:114-138` | `Raise`, `NewRun`, `Regenerate` |

`NotesPipeline` takes a text for the transcript it came from. Here it has an
inside: a text is a sequence of lines, a line the interval of character positions
it takes, and a piece of a chunk an interval, too, so that what is cut up and
joined again can be compared with what it was. The two positions around a line
break tell whether one was put where the text has none. Google decides how many
items a page has, up to the `pageSize` asked for; a participant an entry names
may be missing from the list. Gemini's answer may be blocked, cut off, empty or
junk; one that is cut off speaks of the beginning of its prompt only (`Says`),
so that accepting it would show in the notes. Whether `count_tokens` is above the
threshold is a free choice in `ReadText`: tokens and characters are only loosely
related, and the properties hold either way. What the notes say is what they were
made of. A call that raises ends the run; `NewRun` is another run of the pipeline,
which nothing promises.

Properties: `TextIsTranscript`, `ChunksFit` (the comment at
`notes_service.py:27-28`), `NotesOfWholeText`, and `NotesEventually` (liveness):
every run comes to notes unless a call raises.

### MeetNotes

Both components over one `conferences` table: `MeetNotes` is `NotesPipeline` with
the variables of the webhook beside its own, so the pipeline's properties
(`StateIsBacked`, `NotesMatchTranscript` and the others) are here properties of
the whole, where rows are inserted and written by handlers at any time. The
pipeline's ids are the messages. `Enqueue` is the handler's call
of the queue and arq's enqueue in one step (the call either reaches Redis or
raises, which is `Abort`); `RedisConfigured` is the choice `lifespan` makes
(`main.py:14-40`). `Disconnect` and `RemoveMeeting` cascade through both.
`ImplementsIngestion` says that the webhook's part of the whole is
`EventIngestion`, so the theorems about that module hold of the whole. It rests
on one assumption more than the components make (`MeetNotesAssumption`): a user
whose conferences take place in meetings is among those who may delete
(`Volatile`), since only such a user has a meeting to delete.

`ImplementsSystemLifecycle` is the same for the other component: what a reader of
the API sees of a conference follows `NotesLifecycle` from before its first event
on. `NotesPipeline` starts with the rows that are announced; here an id has no
row until a handler inserts one, and to the reader both are 404. So `Readable` is
"nothing" until the id is used up (`Used`: its message is in the ledger and no
handler may insert a row of it any more), and what the rows show from then on. An
id whose event leads to no row at all (of an unknown subscription, say, or the
loser of a race) is "gone" when its handler is done with it.

### ConnectionTokens

| Code | Model |
|---|---|
| `transcript_service.py:19-25` and its like in the other services | `Load` |
| `connection_service.py:83-89` | `Check`: the early returns, and the lock object the call is going to wait for |
| `:25-33`, `:89` | `Acquire` |
| `:90-94` | `Reread` |
| `:94-107` | `Answer`, `Reject`, `Unreachable`, `MarkRejected` |
| `:109-116` | `Store`, `ReturnStored` |
| `connections.py:48-70`, `connection_service.py:54-71` | `Exchange`, `Select`, `Upsert` |
| `connections.py:113-118`, `connection_service.py:119-128` | `LoadForDelete`, `Revoke`, `DeleteRow`, `PopLock` |

A lock object is the number of times its dictionary entry had been dropped when
a call asked for it: a call that holds or waits for a dropped lock keeps it, and
the next one makes a new lock. SQLAlchemy writes only the columns whose values
differ from what the session loaded; `Status` says what that leaves in the
column. Time is `fresh`, the tokens that are not about to expire; a token may
expire at any moment but between Google's answer and the end of the two
statements that store and return it, since it lives an hour and a call has a
timeout of 30 seconds (`oauth_client.py:55`). `Withdraw` is the user, or time, ending
a consent. What an access token is used for afterwards is not this module's.

Properties: `SingleFlight`, `NoDoubleRefresh`, `FreshAnswer` (an action
property), `CallEnds` (liveness), and `NeedsReconnectMeansRevoked`, which the code
does not have (section 5). `SingleFlight` speaks of one process: the locks are in
a dictionary of the process (`connection_service.py:25`), so the API and the
worker may refresh one connection at once, where the design (`:272`) says
"single-flight token refresh (lock per connection)". What either returns is fresh
all the same: `FreshAnswer` is proved for any number of processes.

### Subscriptions

| Code | Model |
|---|---|
| `connections.py:68-70`, `connection_service.py:54-71` | `Select`, `Upsert`, `Refresh` |
| `subscription_service.py:53-58` | `Skip` |
| `:60-78` | `LoadPrevious`, `DeletePrevious` |
| `:80-85`, `events_client.py:55-68` | `Create`, `CreateUnanswered` (the answer gets lost) |
| `:87-94` | `Store`: the insert or update, or the key, foreign key or stale row that makes it raise |
| `connections.py:113-114` | `LoadConnection`, `FindNothing` |
| `subscription_service.py:105-120` | `LoadCurrent`, `DeleteCurrent`, `DeleteSub` |
| `connection_service.py:119-128` | `DeleteConnection` with its cascade |
| `events_client.py:83-89` | `DeleteRemote`; `KeepRemote` is the branch that logs |

A callback stands for the ids it inserts and the name Google gives it. An access
token is had or not (`ConnectionTokens`). `Abort` is an exception or the end of
the process anywhere; `Expire` is the end of a subscription's TTL: nothing in the
code calls `renew_subscription`.

The comment at `subscription_service.py:65` says what the deletion before the
creation is for: no orphan that fires events no row maps. `LeaksExplained` says how
far that goes. An orphan there is only if the creation or deletion of that very
subscription failed (`spoiled`), or if the callback that made it ran together
with another request of the user (`met`); both do happen, since no transaction
spans the two sides. `RowNotDeleted`: without failures, a row names a deleted
subscription only while the request that deleted it is about to replace the name.

### Meetings

| Code | Model |
|---|---|
| `meeting_service.py:31-35` | `Begin` |
| `:37-44`, `calendar_client.py:48-103` | `CreateEvent` (a Meet link or none), `CreateUnanswered` |
| `:49-70`, `meet_client.py:66-86` | `FindSpace`, `EnableTranscript`, `DowngradeNotes` |
| `:72-90` | `Store` |
| `:117-123` | `Load`, `GetConnection` |
| `:124-131`, `calendar_client.py:79-83` | `DeleteEvent`, `KeepEvent` |
| `:132-134` | `DropRow` |

A connection is the Google account it is of: a user may disconnect and connect
another one (`Reconnect`), and an event is deleted from the calendar of whoever
is connected then, where an unknown event is a 404 and counts as deleted.
`StraysExplained` says when an event gets out of the API's reach: its creation
failed, or the deletion of its row failed or went to another account or to none.
`RowsHaveEvents` is the other direction: a row outlives its event only under a
deletion that is not over or failed, and one that does not fail leaves no row, be
it the repetition of one that failed half-way. `NotesBacked` relates a row to the
settings of its Meet space across partial failures of the two calls.

## 3. Runs

| Run | Bounds | Shows |
|---|---|---|
| `ingestion_safety` | 2 handlers, 6 push bodies, 1 user, 1 abort | the safety properties under duplicates, races, disconnect, re-consent; `TranscriptOfConference` |
| `ingestion_retry` | one abort | violation: `RetriedUntilHandled` |
| `pipeline` | 2 workers, 1 regenerate request, 2 transcripts, 1 meeting, a disconnect, 2 faults (crash, exception or timeout), 2 tries | backing rows, no orphans, one run at a time; refinement of `NotesLifecycle`; jobs end, ready jobs deliver |
| `pipeline_resume` | 1 fault, 1 try | violation: `ResumedByRegenerate` |
| `text` | 3 participants, up to 3 entries, pages of up to 2, lines of 0 to 7 characters and chunks of 3, 2 calls that raise or regenerate requests | the stored text is the transcript, chunks fit, notes are of the whole text; every run comes to them unless a call raises |
| `system_safety` | 2 handlers, 1 worker, a second consent under whose subscription the transcript's event comes, disconnect, meeting deleted, 1 fault (crash, exception or timeout), no kept results | jobs are of committed rows; refinement of `EventIngestion` and of `NotesLifecycle` |
| `system_live` | 2 handlers, 2 transcript events, 1 crash of the worker | every event is enqueued for, notes follow and match the stored transcript |
| `system_wakeup` | "conference started" as well, no fault | violation: `NotesFollowTranscript` |
| `tokens` | 2 callers in one process, 1 consent, 1 disconnect, 3 tokens | one refresh at a time, none for nothing, fresh answers, no waiter left |
| `tokens_consent` | 1 caller, 1 consent | violation: `NeedsReconnectMeansRevoked` |
| `subscriptions` | 3 callbacks, 2 disconnects, 2 faults | no unexplained leak; rows name no deleted subscription for long |
| `meetings` | 2 creations, 3 deletions, 2 accounts, 2 failing requests | rows, events and spaces agree up to failures and other accounts |

**Why the bounds are enough.** The races are between two: two deliveries of a
message, two inserts of a conference, worker and request, worker and
deletion. A third handler or worker finds the row or the job in a state two can
produce. Three events cover every order of "started", first and second
transcript. In `pipeline` a job has two tries and two faults happen, so that a
crash has its job run again and a second one uses up its tries; an exception, a
timeout, notes the request inserts first and a meeting deleted under the run end
it at once. `ReadyJobDelivers` leaves just these out: without them, and from
whatever state the crashes before have left, a job that waits comes to notes. In
`text` the lines are shorter than, as long as, and longer than a chunk and two
chunks, with their line breaks; three entries in pages of two make a second page
with and without a third. `MaxAborts`, `MaxFaults`, `MaxWakes` bound how often
the environment acts, never what the code does; `MaxTokens` bounds the tokens
Google issues, and `OtherErrors` is whether it answers 4xx to a refresh token it
accepts. `MaxFailed` bounds the requests to meetings that fail. In
`subscriptions` three callbacks are the least with which a row is replaced while
another request holds the row before; in `meetings` two deletions may meet on one
row and a third repeat what they left. `tokens` has a caller for each side of a lock, and a consent so that a
row can be made anew after a disconnect. Two users whose events race for one
conference, and calls in two processes, are left to the proofs, which hold for
any number of either. Deadlock is not checked: when
every message is acknowledged and every job done, the system rests.
Symmetry is used in safety runs only, over interchangeable handlers.

**Fairness.** A request or job that runs goes on running (WF of each handler's
and worker's steps): tasks of an event loop are scheduled in turn, and every
client has a timeout, whose expiry is a fault the models have. Pub/Sub delivers
a message until it is acknowledged, and a worker polls Redis (SF of `Deliver`
per message and `StartJob` per job: another may be served first, but not for
ever). A kept result expires (WF). A call of get_valid_access_token runs on (WF
of its steps), and `asyncio.Lock` is fair (SF of `Acquire`). In
`NotesText` the WF is of the steps of a run that has started; `NewRun` and
`Regenerate` have none.
No fairness is assumed of faults, users or
new events.

## 4. Proofs

`EventIngestionProofs` proves, for every number of handlers, messages, users,
conferences and aborts, from `IngestionAssumption` alone:

| Theorem | Property |
|---|---|
| `TypeCorrect` | `TypeOK` |
| `LedgerAdmitsOnce` | `AtMostOnce` |
| `NothingAckedUnseen` | `AckedIsRecorded` |
| `OneRowPerConference` | `RowsSound` |
| `EnqueueAfterTranscript` | `EnqueuedSound` |
| `TranscriptNeverErased` | `TranscriptKept` |

None of the properties but `TypeOK` is inductive. `IInv` (theorem `Invariance`)
has three layers. *Base*: the types, that what is acknowledged is in the ledger,
and what the locals of a handler have in common with its stage. *Once*: a
handler past the ledger is the only one with its message and has not enqueued.
*Rows*: a row's id is a message that is in the ledger; a handler that has not
inserted yet has no row with its message as id (so ids are never reused); a
handler that is going to refresh or enqueue holds a row that is its event's
conference and, if the event announced a transcript, has one. The last part is
what makes `EnqueuedSound` hold across the race of two inserts: between
`InsertConference` and `Enqueue` anybody may write the row, but nobody writes
`None` into it. Each layer has one lemma per kind of step and a frame lemma for
the steps that do not touch what it speaks of. TLC checked `IInv` before it was
proved.

`ConnectionTokensProofs` proves, for every number of callers, callbacks,
disconnects, processes and tokens, from `TokensAssumption` alone:

| Theorem | Property |
|---|---|
| `TypeCorrect` | `TypeOK` |
| `OneRefreshPerProcess` | `SingleFlight` |
| `WaitersReuseToken` | `NoDoubleRefresh` |
| `ReturnsFreshToken` | `FreshAnswer` |

`SingleFlight` has to hold although two calls may hold two locks of one
connection at once. The argument: a lock is dropped after its row is gone, a
consent brings an id nobody had, so the lock of a connection that exists was
never dropped (`LockLives`, from `ConsentsNew`); a call that goes on to Google
found its row, so its lock is the first one (`LocksSound`), which has one holder
(`OneHolder`). `NoDoubleRefresh` follows from that and from `ConsentsNew`;
`FreshAnswer` from `HandsFresh`, what tokens in hand and just stored are. The
steps are translated once into what they change (`Does`), and the lemmas for the
parts of the invariant speak of that only.

`SubscriptionsProofs` proves, for every number of callbacks, disconnects and
faults, from `SubscriptionsAssumption` alone:

| Theorem | Property |
|---|---|
| `TypeCorrect` | `TypeOK` |
| `NothingElseLeaks` | `LeaksExplained` |
| `RowsNameNoDeleted` | `RowNotDeleted` |

The argument for leaks: a subscription becomes an orphan when its name is
replaced or its row goes. Whoever does that has loaded a row and deleted what it
named (`Unsubscribed`, unless that failed); that it is still the name in the row
is `Aware`: a request that runs alone knows the rows as they are, and one that
does not know the current name has met the callback that stored it. `Settled`
says that ids and names are never reused, so that a loaded row and the stored one
with its id or name are the same.

`MeetingsProofs` proves, for every number of requests and accounts, from
`MeetingsAssumption` alone:

| Theorem | Property |
|---|---|
| `TypeCorrect` | `TypeOK` |
| `NotesAreBacked` | `NotesBacked` |
| `NothingElseStrays` | `StraysExplained` |
| `RowsKeepEvents` | `RowsHaveEvents` |

`Creating` is what a creation has established at each stage, `Done` that only a
finished creation can be deleted, `Dropping` that a deletion about to drop its row
has deleted the event, failed, or went to another account. From `Dropping`,
`StraysExplained` is inductive. `RowsHaveEvents` has two parts, `EventsLive` and
`RowsGone`; the second holds because only a creation inserts a row, and `Done`
says that a deletion that found one came after it.

`NotesTextProofs` proves, for every listing, page size, budget and number of
failures, from `TextAssumption` alone:

| Theorem | Property |
|---|---|
| `TypeCorrect` | `TypeOK` |
| `StoresTranscript` | `TextIsTranscript` |
| `ChunksKeepBudget` | `ChunksFit` |
| `NothingLeftOut` | `NotesOfWholeText` |

The invariant says of each loop what it has done so far: the listing has the
items before its token; the lines assembled are contiguous and of the first
entries; the chunks together with the one being filled take up the text from its
start to the position the loop is at, and `size` is the length of the current
chunk with a line break after each piece. `ChunksFit` needs the last part with
its off-by-one: a piece is added when `size` and its length fit, and the break
after it is not part of the joined chunk. `NothingLeftOut` then says that the
summaries are of the chunks, in their order.

`NotesPipelineProofs` proves, for every number of workers, requests, conferences,
transcripts and meetings and any faults, from the assumptions of `NotesPipeline`:

| Theorem | Property |
|---|---|
| `TypeCorrect` | `TypeOK` |
| `OneRun` | `OneRunPerConference` |
| `StateBacked` | `StateIsBacked` |
| `NoOrphanRows` | `NoOrphans` |
| `Refines` | `ImplementsLifecycle` |

*Runs*: a worker that is not idle is the one its conference's job names. *Held*:
what a process has loaded fits its stage. *Backed*: what a state shows is there,
also in the hands of a worker that is about to write the state: the row it has
just committed stays until the conference goes. *Rows*: nothing outlives the row
it hangs from. *Unfinished*: who writes a transcript does so in a conference that
shows no notes as final; that is where one run at a time is needed. The
refinement maps an artifact to what a reader sees of the rows; `StepRefines`
takes each step's effect to a step of `NotesLifecycle` or a stutter. Like in the
other proofs, the actions are translated into their effects once (`Does`).
`NotesAreCurrent` proves `NotesMatchTranscript` of the pipeline where no
regenerate request runs (`Requests = {}`): what a run holds and has written is
the stored transcript (`Current`), and the stored one is replaced only in a run
that has no notes yet.

`ParsedEventsProofs` proves, for any push bodies and everything
`EventIngestionProofs` leaves open, from `PushAssumption` and the assumptions of
`EventIngestion`:

| Theorem | Property |
|---|---|
| `TranscriptsMatch` | `TranscriptOfConference` |

Every transcript in a row came in an event of the row's conference (`Sourced`):
that is the webhook's part, and rests on `IInv` of `EventIngestion`, which says of
a handler that its row is its event's. `ConferenceOfTranscript` is the parser's
part: of an event with a transcript it reads the conference the transcript's name
begins with. A row's name is one the parser read (`Named`), which is a bare record
name and so made out by the conference's id (`RecordCut`, `RecordById`); that two
rows have not the same name is `RowsSound`.

`MeetNotesProofs` proves, for every number of handlers, messages, users, workers,
requests and meetings, with or without Redis, from `MeetNotesAssumption` and the
assumptions of `NotesPipeline`:

| Theorem | Property |
|---|---|
| `RefinesIngestion` | `ImplementsIngestion` |
| `CommittedRows` | `JobsAreOfCommittedRows` |
| `SystemOneRun` | `OneRunPerConference` |
| `SystemStateBacked` | `StateIsBacked` |
| `SystemNoOrphans` | `NoOrphans` |
| `SystemNotesCurrent` | `NotesMatchTranscript`, where `Requests = {}` |
| `RefinesLifecycle` | `ImplementsSystemLifecycle` |

The first two rest on `LinksInvariance`. Every step but one is a step of `EventIngestion` as it stands. The deletion of a
meeting is one only if the rows that go were enqueued before and belong to a user
who deletes. That needs both sides: *Owned*, a handler and a row belong to the
connection whose subscription the event came under; *Queued*, whatever the
pipeline knows of a row (a job, a run, a mapped meeting) it has from an enqueue
(`Filed`), and a row that was enqueued is there or its user took it away
(`Explained`). `StepMoves` says once what the pipeline's steps do to jobs, runs
and mappings, `HandlersStep` what the webhook's do to rows. `CommittedRows` is
`Explained` of every row with a job.

The others take the pipeline's own invariant to the whole (`SystemInvariance`).
`NotesPipeline` starts with its rows in place and only loses them; in `MeetNotes` a
handler may insert one at any time, and a row that came back under a run that
found its row deleted, or over a used state, would break `IInv`. That no handler
does is `Uses`: an id the webhook or the pipeline has to do with (`Received`,
`Begun`) is used up, because only the one handler that got the message past the
ledger may insert it (`Sole`, from the ledger's unique key), and it does so once.
`RowsAppear` then says that `IInv` does not mind rows of which nobody has heard,
and `SystemDoes` that every other step has an effect (`Does`) the pipeline's proofs
already deal with: `DoesKeeps`, `StepRefines` and `MatchStep` of
`NotesPipelineProofs` are cited, not repeated. In the refinement `PipelineReads`
translates the pipeline's steps, and `WebhookReads` those of a handler, of which
the reader sees at most that an id is used up without a row.

`SystemNotesCurrent` needs `Requests = {}` as the theorem of the pipeline does: a
regenerate request that has read a transcript may write notes of it after a
later run has stored another transcript and its notes.

In all these proofs the theorem `Invariance` (here `SystemInvariance`) is the
inductive invariant; TLC checked each on its run's instance before it was proved.

Only model-checked is liveness (`EventHandled`, `JobEnds`, `ReadyJobDelivers`,
`NotesFollowTranscript`, `NotesEventually`, `CallEnds`), for which the prover has
no rules. Every other property that a run finds to hold is proved.

## 5. Where documents and code disagree

- **A 500 does not retry.** `webhooks.py:46` says a NACK makes Pub/Sub retry;
  the ledger was committed first (`event_service.py:40`), so the retry is taken
  for a duplicate and acknowledged. `event_service.py:29-32` knows and leaves
  it to a sweeper that does not exist yet. Run `ingestion_retry`.
- **A lost wake-up.** "conference started" enqueues the conference; the enqueue
  of "transcript ready" is dropped while that job's id is taken
  (`worker.py:76-79`), and the job read the row before the transcript was in it.
  `docs/LIVE_SETUP.md:10-11` promises notes hands-free. Run `system_wakeup`.
- **Regenerate does not resume.** The design (`:288-289`) calls a failed
  conference resumable via `:regenerate`; the route never touches
  `pipeline_state` (`notes.py:133-138`). Run `pipeline_resume`.
- **A good consent that needs reconnecting.** `docs/LIVE_SETUP.md:302` says
  `needs_reconnect` means a revoked or expired refresh token. A refresh of the
  old token that is rejected while a new consent is stored marks the new one
  (run `tokens_consent`). Any 4xx but the rejection of the token does so, too,
  429 included (`connection_service.py:98`; with `OtherErrors` the model has it).
- **A failed call is not tried again.** The plan of the pipeline
  (`docs/superpowers/plans/2026-06-11-phase5-notes-pipeline.md:1726`) says that
  "the arq worker's `max_tries` (Task 9) re-invokes `run_pipeline` on failure".
  `run_pipeline` re-raises what a stage raised (`pipeline.py:79-89`), which is no
  `arq.Retry`, so arq ends the job; `max_tries` (`worker.py:63`) counts the runs a
  crashed worker left behind. After one answer of 503, or one that is cut off, the
  conference is failed until another event or a person enqueues it. The models
  follow the code: `RecordFailure` ends the job, `ReadyJobDelivers`,
  `NotesFollowTranscript` and `NotesEventually` promise notes only where no call
  raises.
- **Some malformed bodies are not acknowledged.** `webhooks.py:38-39` says "Ack
  poison messages (bad JSON or malformed CloudEvent) so Pub/Sub stops redelivering
  them". A body that is no object, data that is no string, or a name or attribute
  that is none, raises an `AttributeError` or a `TypeError` in `parse_push`
  (`parser.py:40`, `:52`, `:60-73`) that `webhooks.py:37` does not catch: a 500,
  again with every delivery. `Crashes` and `Untyped` have it.

## 6. Not modelled

OIDC and JWT verification, password hashing and encryption (library calls),
schemas, settings, migrations and the proof-run script (no behaviour of their
own), the read routes beyond what `NotesLifecycle` shows of them, wording and
logging. Registration and login are single statements: the unique key on
`users.email` decides the one race there is. Routes such as
`get_meeting_notes` (`notes.py:93-111`) show the newest occurrence only; nothing
says what they should show while that one has no notes. The fallback to
`NullJobQueue` (`main.py:27-32`) is in `MeetNotes` as `RedisConfigured`, but no
run takes it as FALSE: every enqueue is dropped then and nothing more happens.
The language of a transcript and the speakers' display names are data no
property tells apart. Recursive definitions are avoided: loops are state
machines, so that they can be proved about.

## 7. Plan

All modules planned are written. What would come next, in this order:

1. `Subscriptions` composed with `EventIngestion`: events that arrive between the
   creation of a subscription and the commit of its row.
2. When the sweeper and the delivery of documents and mails are written: their
   runs beside the pipeline's, and stages whose effects outside cannot be repeated
   (`pipeline.py:20-24`).
