# TLA+ models of front_server

The repository holds an echo server on libevent (`server/`), a capture tool
that cuts HTTP messages out of TCP traffic (`tools/cgidump`), a pool of MySQL
connections with a connector on top (`utils/database`), a background sender of
chat messages (`utils/ding_talk`, with the HTTP client `utils/curl_op`), and the
style checker the code is kept with (`utils/tools/cpplint.py`, Google's cpplint
with suppressions of its own, `GLOBAL_NOLINT`). `thirdparty/` is vendored.

## Inventory

| Component | State | Operations | What is hard | What makes it correct |
|---|---|---|---|---|
| `TcpBuf` | ring `m_buf`, `m_start`, `m_end` | `InputTcpPkg`, `PreOutputTcpPkg`, `OutputTcpPkg` | wrapping at every offset, full against empty | a bounded FIFO of bytes |
| `HttpBuf` | one `TcpBuf` per direction | `InputTcpPkg`, `ParseHttpPkg`, `GetHttpHeaders` | segments cut anywhere, the first word of a message included, several messages in one segment, messages without Content-Length, the fixed `read_buf` | messages are cut where they end, whole and in order |
| `ParsePkg`, `Session` | map of sessions by client, two `HttpBuf` each | `Init`, `InputPkg`, `GetClientAddr`, `InputPkg2Session` | interleaved clients and directions, lost, repeated and malformed segments, capture that begins late | no stream disturbs another |
| `DatabaseConnectionPool` | `m_conns_in_use`, mutex, condition variable, the base class's connections | `grab`, `create`, `release`, destructor | waiters, notifications, failing creation, exceptions, idle expiry | exact count, exclusive use, bounded connections, no lost wake-up |
| `DatabaseConnector` | the pool, each call's `retry_time` and flags | two `ExecuteQuery`, `Execute`, `Escape` | retries, lost replies, exceptions between two statements, outages | charset restored, success is real, calls return |
| `DingMsgSender` | queue `m_msgs`, `m_stop`, the sending thread | `PushMsg`, the thread's loop, destructor | notification only on the first message, `m_stop` without the lock, exit with a queue | order kept, no sleep on a message, exit terminates |
| `DingTalk`, `DingStreamBuf` | a stream's buffer | construction, `<<`, destruction | when a message is sent | one message per stream |
| `CurlOp` | reply buffer | `GetHttpReturn`, `OnHttpData` | replies in several chunks, no time limit | the reply is the concatenation of its chunks |
| `Server` (libevent) | listener, bufferevents, signal event | the callbacks, `InitEventServer` | partial reads, errors, exit while connections are open | every connection answered and closed once |
| `Server` (epoll) | descriptors | `InitServer` | edge-triggered events | no connection is missed |
| cpplint: `_NestingState` | stack of blocks, stack of preprocessor conditions | `UpdatePreprocessor`, `Update`, `CheckClassFinished` | nested and unmatched conditions with checkpoints, heads without body, assembly over several lines | the stack is that of the text outside `#else`, one entry per open brace |
| cpplint: `_IncludeState` | list of scopes, all scopes ever pushed | `CheckIncludeLine`, `CheckForIncludeWhatYouUse` | includes in branches, unmatched directives, what is remembered of a closed branch | verdicts depend on the own branch only, no header is forgotten |
| cpplint: run and reports | options, filters, counts, suppressions, `_FunctionState` | `ParseArguments`, `ProcessFile`, `ProcessLine`, `Error`, `NOLINT`, `GLOBAL_NOLINT` | global state over several files, complaints made before or long after their line | a complaint is swallowed only for a reason, the exit status tells what was found |
| cpplint: searches | none | `CloseExpression`, `_GetTextInside`, angle brackets, comments, `CheckBraces` | texts over several lines, unbalanced brackets | each search finds what it is said to find |
| cpplint: checks of one line | none | `CheckStyle`, `CheckLanguage`, ... | - | - |
| flags, `helper`, `ZookeeperProxy`, `time` | none | - | - | - |

Interactions: `ParsePkg` owns `Session`s, a `Session` owns two `HttpBuf`s, an
`HttpBuf` one `TcpBuf`; all run in the one thread of the capture loop. The
connector's calls come from any number of threads and meet in the pool's mutex.
`DingTalk` streams are destroyed in any thread and meet the sending thread in
`m_msgs_mtx`; the sender calls `CurlOp` without holding it. The echo server uses
none of the others. In cpplint `ProcessLine` hands each line to the parsers of
`NOLINT`, `_NestingState`, `_FunctionState` and `_IncludeState` and then to the
checks, all of which complain through `Error`; one thread does everything.

## Modules

| Module | Models | Notes |
|---|---|---|
| `ByteQueue` | what a stream buffer promises | abstract specification |
| `TcpBuf` | `tcp_buf.cpp` | indices, wraps and the NUL as in the code |
| `HttpBuf` | `http_buf.cpp` | operators: which packets are dropped or refused, when and where a message is cut |
| `ParsePkg` | `parse_pkg.cpp`, `session.cpp`, the decisions of `http_buf.cpp` | the traffic is the environment |
| `DatabaseConnectionPool` | `database_connection_pool.cc` | one action per critical section, two where `create()` or `remove()` runs inside it |
| `DatabaseConnector` | `database_connector.cc` | extends the pool: its actions contain the pool's |
| `DingMsgSender` | `ding_common.cc`, `ding_talk.cc` | the producers, the sender and the destructor |
| `NestingState` | `_BlockInfo` to `_NestingState` in `cpplint.py` | `Update` in four kinds of steps |
| `IncludeState` | `_ScopedIncludeState`, `_IncludeState`, `CheckIncludeLine`, `CheckForIncludeWhatYouUse` | one action per kind of line |
| `CppLint` | `ParseArguments` to `main`, `Error`, suppressions, `_FunctionState` | what the checks of a line find is given with the line |
| `LineScan` | the searches in the text | functions of the text, compared with definitions |
| `MC...` | - | values of constants, and symmetry for the pool, for TLC |
| `..._proofs` | - | theorems, checked by TLAPS |

**TcpBuf.** `m_buf`, `m_start`, `m_end` are the members. `Written`, `Advance`
and `CopyOut` are the one or two `memcpy` and the index arithmetic;
`RemainSize`, `GetDataLen` are the functions of that name. `out` is the
caller's array, `ok` the return value and `call` the last call with its
argument: they are what `ByteQueue` sees, so that a store of other bytes than
the ones passed is not mistaken for a store of those. `ImplementsByteQueue`
maps the ring to the sequence of its bytes from `m_start` on.

**HttpBuf, ParsePkg.** A stream is a client and a direction. Its bytes are
abstracted to the symbols the parser tells apart, each counting as one byte:
`Start(i)` and `Word` are the first word of message i and its last byte, `Text`
any other byte of the header, `Length(k)` the newline of the Content-Length
line, `BlankLine` the last newline of the header, `BodyByte` a byte of the body.
A segment may end between any two of them, so a header may be cut anywhere; one
that ends within `POST`, `GET` or `HTTP` ends behind `Start`. `IsHttpHeader`
compares three or four bytes whatever the length is, so its answer for such a
segment depends on what lies behind it in memory, and a body or a header line
may read like a beginning: `IsHttpHeader` is the set of answers it may give.
`Dropped`, `Refused` and `Parses` are the three decisions of
`HttpBuf::InputTcpPkg` and `ParseHttpPkg`; incomplete headers give a `RemainPos`
one behind the data, as in the code, and the map of headers keeps the last
Content-Length. The `TcpBuf` below is a sequence with a capacity, which is what
`RingImplementsByteQueue` justifies. When a message longer than `read_buf` is
copied into it, the outcome is undefined: the process goes on or dies
(`running`). `InputPkg` is the whole handler: initialisation test, ethernet and
VLAN type, IP and protocol test, client address, the length of the data (zero is
returned for, a negative one is passed on and ends in a `memcpy`,
`InputNegative`), session lookup or creation, and the `HttpBuf` of the
direction. The environment sends messages of any of the `Shapes`, captures
prefixes of what is in transit as segments, loses segments, captures some twice,
sends a malformed one, and begins capturing before or after `Init`.

What can be promised of a stream depends on what has happened to it, which
`status` remembers: `whole`; `gaps` when bytes are missing, but only where
nothing was buffered (a capture that begins late, a loss between messages, a
message whose first segment was dropped for ending within the first word);
`refused` when the ring had no room for a segment; `torn` when bytes are missing
behind a buffered one or came twice, or when a segment from the middle of a
message was taken for a beginning. Nothing is promised of a torn stream but that
the others do not suffer. The properties are also conditional on the messages
sent: on headers that fit `read_buf` (`HeadersFit`), on messages that fit it
(`MessagesFit`) or fit the ring. Messages and headers beyond these sizes are
part of `parse_stream`.

**DatabaseConnectionPool.** `at` says where a thread is in `grab()`: at the
lock, waiting, woken and at the lock again, in `create()` with the mutex held,
setting the charset, holding a connection, or inside the second half of
`release()`: of a bad connection the thread keeps the pointer and the mutex from
`release()` of the base class until `remove()`, while the connection counts as
idle (`Release`, `Remove`). `pool` is what the base class
`mysqlpp::ConnectionPool` (external) knows of each connection; any subset of
the idle connections may be too old when `grab()` is called. `wait()` may
return spuriously. `NotifyOne` wakes any one waiter. `DbDown` and `DbUp` are
the outside world, `MaxOutages` bounds them.

**DatabaseConnector.** `stage` says where a call is in its loop; the actions
`InGrab`, `ReleaseGood`, `ReleaseBad` and `RemoveBad` contain the pool's. Any statement may
throw, `Execute()` may lose the reply of a statement that was applied, and no
statement succeeds while the database is down. The constructor does not store
`db_name`, so `Init()` always clears the default charset; `ConnInit` says so.
`applied`, `seen` and `calls` are histories and bounds.

**DingMsgSender.** The test of the wait predicate and the blocking are two
actions because `m_stop` is written without the mutex. `Timeout` is the one
second of `wait_for`. `PushMsg` is the destructor of a stream's buffer.
`pushed`, `taken`, `posted` and `atStop` are histories.

**NestingState.** A line is its directive and the tokens `Update` reacts to, in
their order; names and other text are left out. `ReadLine` is `Update` up to the
assembly test, `NamespaceDecl` an iteration of the first loop, `ClassDecl` the
part between the loops, `ConsumeToken` an iteration of the second loop. Nothing
comes between these steps in the program. `live`, `depth` and `odd` are
histories: the stack and the braces of the text outside `#else` branches, and
whether that text has a head without a body before another head or a `}` (there
the heuristics of the code give up, and so does `BlocksAreBraces`). The
complaints of `CheckBegin` and `CheckEnd` change nothing and are left out.

**IncludeState.** `include_state` is the list, as indices into
`all_scoped_include_state`. A header carries what `_ClassifyInclude` and the
alphabetical order look at; a canonical path is its rank. The `pop()` that
raises on an unmatched `#else` or `#endif` is the status `crashed`. `ProcessLine`
returns before `CheckLanguage` on a line inside inline assembly: `AsmLine` is
such a line, whatever stands on it, so that neither its directives nor its
`#include`s reach the list. `log`, `branches` and `unbalanced` are histories and
speak of the lines that do: a file whose conditions balance, but one of which
begins inside an assembly statement and ends behind it, is `unbalanced` here,
and the code pops the scope of another condition or raises. Complaints about the spelling of a
path are left out.

**CppLint.** A line carries its `NOLINT` and `GLOBAL_NOLINT` marks, its part in
a function, whether it is inline assembly, whether `CheckIncludeLine` raises an
IndexError on it (what module `IncludeState` calls crashed), and the complaints
the other checks have about it, each with the moment it is made: `early`,
`guard` and `open` before the lines are processed, `now` with the line, `late`
after all lines; a complaint may be about a line further down. That is enough to
ask which suppressions are known when a complaint is made. `Error` is the path
of every complaint: suppression, verbosity, filters, counts. `GLOBAL_NOLINT`
adds filters that stay for later files. A line that raises ends the run with
status 1 at once, whatever was printed. `texts` and `calls` are histories.

**LineScan.** The state is a text that grows by one character of a small
alphabet, so a run sees every text up to a length. Each search is a function of
it and is compared with a definition in other terms: depths of brackets,
grammar of template arguments, a scanner of comments. Loops over lines
(`RemoveNextComment`, `JoinLines`) are rounds, as many as there are lines: each
goes on by a line or more, and the upward search of `CheckBraces` then stands
above the first line, where it finds the same empty line again and again. What
`strip()` does to a line before the search for a comment is part of
`StartsComment` and `EndsComment`. The run leaves out `[` and `]`, which the
searches treat like the parentheses, and one letter stands for all characters
that none of them looks for; the proofs are about all alphabets.

The modules contain operators that are slips of the kind a change to the code
could introduce, at the beginning or beside the definition they vary; replacing
the definition by its slip makes TLC report the property named for it in
`PROJECT.json`.

## Runs

| Run | Configuration | Shows |
|---|---|---|
| `tcp_buf` | ring of 5, packets of 0 to 4 bytes of two values, reads of 0 to 5 | `TypeOK`, `NeverFull`, `ImplementsByteQueue`: every offset, exact fit, wrap and refusal occurs |
| `parse_stream` | one stream, two pipelined messages of 4 to 7 bytes, with headers of 4 to 6, or without Content-Length; ring of 7, read buffer of 5, one fault | cuts fall between messages (`FramedRight`), also when capture begins late or a message is dropped for its first cut; only messages longer than `read_buf` overrun it; a message without length blocks its stream for good |
| `parse_sessions` | three streams of two clients, two messages each, not pipelined, ring and read buffer of exactly one message | each message is printed with its last byte wherever it is cut, whatever the other streams do; nothing is refused |
| `pool` | 4 threads, limit 1 (two slots), 2 outages, 2 attempts, a default charset | exact count, exclusive use, bound max + 1, no lost wake-up before the first outage |
| `connector` | 2 threads, 2 calls each of all four operations, one slot, 2 attempts, 1 outage, fair | charset restored or connection removed, success was applied, at most `db_retry_time` applications, no false alarm of `is_db_unreachable`, every call returns unless connecting fails |
| `connector_stranded` | 3 threads, one call each, one slot, 1 attempt, 1 outage, fair | **violated**: a waiter is never woken |
| `ding` | 2 producers, 2 messages each, fair | order, no sleep on a message, at most one message after `m_stop`, every message taken, destructor returns |
| `lint_nesting` | files of 5 lines of 15 kinds | `#else` branches leave no trace, one stack entry per open brace |
| `lint_includes` | files of 5 lines, 6 headers, two of them used | scopes follow conditions; duplicates, order of system headers, alphabetical order per branch; the headers asked for |
| `lint_file` | up to 3 files with 5 lines and ends together, 5 command lines | silence has a reason in the files so far or the options, `NOLINT` is honoured, what the exit status tells, function size |
| `lint_global` | the same | **violated**: a file with a bare `GLOBAL_NOLINT` has its complaints printed |
| `lint_scan` | texts of six alphabets of 2 to 6 characters, lengths 6 to 10 | closing brackets, text inside brackets, template arguments, comments, end of the upward search |

The bounds are the smallest at which each case happens. Four threads on two
slots give a holder, two waiters or a waiter and an overtaking thread at the
same time; a second outage lets `create()` fail after recovery. Two calls per
thread and two attempts let a connection that was switched be seen by another
call. A ring of five has all relations between `m_start`, `m_end` and the end.
Two messages per stream show what the first leaves behind, and what becomes of
a stream that was cut wrongly. The shapes of `parse_stream` have text before and
behind the Content-Length, and lie on both sides of the size of `read_buf`. Five lines hold an `#if` with `#elif` and `#else`
around a block that is opened in one branch and closed in another, or two
includes in each of two branches, or an assembly statement over a checkpoint.
Three files show what a file leaves behind for the next with a skipped one
between them; triggers of 1 and 2 lines stand for 250 and 400. The runs of
cpplint and `parse_*` end when the input ends (`CHECK_DEADLOCK FALSE`).

Each violated run is a disagreement between the code and a comment of the
repository, quoted under "findings" in `PROJECT.json`:

- `connector_stranded`: a notified thread whose `create()` fails swallows the
  notification, and another waiter is never woken.
- `lint_global`: a `GLOBAL_NOLINT` without a category, commented "suppress all",
  ends the search and suppresses nothing.

The code departs from its comments, docstrings and usage texts in more places.
The properties there say what the code does, and their comments say where that
is not what is promised:

- The flag `pool_max_db_cons` is "the max connections in a database pool"; the
  test in `grab()` lets one more through (`OpenBounded`).
- `m_conns_in_use` is the "Number of connections currently in use"; a connection
  whose default charset cannot be set stays counted, and is never used again
  (`CountIsUsed` compares two counts that both have it; the connector never sets
  a default charset).
- "Inside inline assembly block" (`_INSIDE_ASM`): parentheses are counted for
  the block that is innermost at the start of a line, so one that closes an
  assembly statement behind an inner block is missed, and the rest of the outer
  block stays unchecked. The model does the same; no property is about it.
- The comment in `CheckIncludeLine`, "complains if we see a lower type after
  that", is true of system headers only (`SystemHeadersInOrder`): the own header
  after another one is not complained of.
- "NOLINT or NOLINT(*) suppresses errors of all categories on that line": not
  those made before the line is processed (`NolintHonoured` is about the others).
- A `NOLINT` is meant to be that of the source the complaint is about: the
  complaint about a `GLOBAL_NOLINT` is made before the suppressions of the file
  before are reset and may be swallowed by them (`SilenceHasReason` leaves it
  out).
- "+FOO" is to print a category, filters being evaluated left to right; the
  filters of a `GLOBAL_NOLINT` stay for later files and override the command line
  there (`SilenceHasReason` counts them as a reason).
- A filter without a sign, documented and shown in an example, ends the run with
  a ValueError (`ParseArguments`).
- "NOLINT *on the last line of a function* disables this check": every later
  unindented brace repeats the complaint about the size of a function until
  another one begins. `FnSizeByBody` is about the brace of the function itself.
- `CloseExpression` promises a "pointer *past* the closing brace"; it goes past
  an end whose line opens another bracket (`CloseFindsMatch` says exactly when).
- `RemoveMultiLineComments` "Removes multiline (c-style) comments": behind one
  that ends in the middle of a line, code disappears too. `CommentsRemoved` is
  about texts in which comments begin and end with a line.

What the models show beside their properties:

- A message of more than 4096 bytes is copied over the end of `read_buf` (the
  ring holds up to 8190); `ReadBufSuffices` says that no other is.
- A segment that ends within the first word of a message is dropped, and the
  message with it, unless memory behind it happens to complete the word.
- A frame whose headers are longer than its length reaches `memcpy` with a
  negative size.
- `is_db_unreachable` stays false when dead pooled connections use up the
  retries; `UnreachableIsReal` states the other direction.
- A stream's message is sent without `std::endl`.
- An `#else` or `#endif` without `#if` ends cpplint with an IndexError, although
  `_NestingState` tolerates it; so does an `#endif` behind an assembly statement
  in which the condition began.
- An out-of-order system header is kept as the last header, so that the next line
  is compared with a header of another section (`AlphaWithLineBefore`).
- A `.cpp` file is never asked for headers, because `FilesBelongToSameModule`
  knows `.cc` only (`AsksForMissing` says so).
- A comment without an end is reported one line below its beginning.
- The upward search in `CheckBraces` does not end when it reaches the top of a
  file whose first line begins with a blank and a brace (`SearchUpEnds` states
  for which texts it ends).

Hazards that no property covers, and why, are listed with a note in
`PROJECT.json`: a port that is used again, stale pooled connections, a leaked
connection, a negative length, an assembly statement with a block in it, a
comment that ends in the middle of a line, and those of the parts that are not
modelled. Starvation by overtaking is another: see the fairness below.

## Fairness

`connector`, `connector_stranded`: weak fairness of each call's own steps: a thread inside a call is
scheduled, statements and connection attempts end (they return or throw), and
the mutex is eventually obtained when it stays free. Nobody has to call, and
the database owes nothing. The number of calls is bounded (`MaxCalls`):
`std::mutex` does not promise that a woken thread is not overtaken for ever.
`ding`: weak fairness of the sender (the scheduler runs it, the second of
`wait_for` passes, posts return), of a producer inside `PushMsg`, and of the
destructor once begun. That posts return is an assumption on the network: the
code sets no time limit. cpplint is a sequential program; its models have no
fairness and no liveness properties, the end of its one unbounded search is a
property of the text.

## Proofs

Everything below is proved for all values of the constants under the named
assumptions of the modules (`SizeAssumption`: at least 2 cells; finite sets of
threads and connections, more connections than the limit; lines made of tokens;
headers with the fields of `HeaderRecord`; for `CppLint`, files, lines and
filters with their fields, and marks that are not categories). Hypotheses of
single theorems are named with them.

The library's induction theorems take an operator and cannot be used, so
inductions go over a set of numbers: `LeastExists` takes the least number that is
not in it from the well-foundedness of `<` (`UpTo` in `CppLint_proofs` and
`LineScan_proofs` puts it as an induction). What a fold computes follows from the existence of its
recursive function, which `FoldExists` builds position by position.

- `TcpBuf_proofs`: `RingInv` is `TypeOK` and `NeverFull` together. The index
  bounds need the free cells, since a packet shorter than the ring moves `m_end`
  around it at most once, and the free cells need the index bounds. From it:
  `TypeCorrect`, `RingNeverFull`, and by step simulation
  `RingImplementsByteQueue`: `StoreIsAppend`, `ReadIsPrefix` and `ConsumeIsDrop`
  compare ring and queue cell by cell.
- `DatabaseConnector_proofs`, the pool: `PoolInv` adds to types, `CountIsUsed` and
  `ExclusiveUse` where a thread stands when it holds a connection or the mutex,
  that a connection about to be removed is idle and the mutex held meanwhile, and
  that nothing is idle and the limit not reached while `create()` runs.
  The last part is what makes `OpenBounded` follow. `PoolNoLostWakeup` uses the
  further invariant `WakeupInv`: before the first outage a thread inside
  `create()` has an attempt left, so a woken thread always ends with a
  connection.
- `DatabaseConnector_proofs`, the connector: every step of it is a step of the pool
  or leaves it alone (`ConnectorImplementsPool`), so the pool's theorems carry
  over (`ConnectorExclusiveUse`, `ConnectorOpenBounded`);
  `ConnectorCharsetRestored` adds an invariant that ties a call's stage to the
  charset of the connection it holds and to `original`. For
  `ConnectorSuccessWasApplied` and `ConnectorUnreachableIsReal`, `RetryInv`
  bounds the applications by the attempts used so far (`AttemptsInv`), says at
  which stages the current attempt has been applied (`AppliedInv`), that a call
  under way has reported nothing yet (`SilentInv`), and that a call which failed
  to connect has seen the outage (`SeenInv`).
- `DingMsgSender_proofs`: `DingInv` adds to the three properties that the sender
  owns the mutex from its test of the predicate until it blocks (so no message
  arrives in between) and that, once `m_stop` is set, a sender inside its loop
  has taken nothing since (`StopInv`): `AtMostOneAfterStop` alone would allow a
  second message. From it: `DingTypeCorrect`, `DingTakenInOrder`,
  `DingNeverSleepsOnMsg`, `DingAtMostOneAfterStop`.

- `NestingState_proofs`: `NestingInv` is `TypeOK`, `ElseTransparent` and two
  strengthenings. `BlocksAreBraces` speaks of the stack
  outside `#else` branches and is not inductive, since nothing would be known
  of the stack that an `#endif` restores: `LiveBalanced` keeps the balance for
  `live` at all times, and `ElseTransparent` brings it back to the stack.
  `UnfinishedCounted` ties the verdict of `CheckClassFinished` to the stack.
  Each operation on a stack has a lemma on what it does to types and balance,
  used for the stack and for `live`. From it: `NestingElseTransparent`,
  `NestingBlocksAreBraces`, `NestingTypeCorrect`.
- `IncludeState_proofs`: `IncludeInv` adds to the properties that every scope on
  the list has exactly the headers of its own branch (`Matches`: positions of
  the list are aligned with the open branches, shifted by one once the file
  itself has a scope, and branches are told apart by increasing lines), and
  that all scopes together have the headers written so far (`Collected`).
  Push, pop, the first scope and an `#include` each have a lemma on `Matches`.
  From it: `IncludeScopesMatch`, `IncludeDuplicates`, `IncludeAsksForMissing`,
  `IncludeTypeCorrect`. `JudgedInv` is about the order: each scope on the list
  remembers its branch (`Tracks`, `Remembers`: `section` is the highest rank
  among the headers that were not duplicates, `last_header` and the line are
  those of the latest), and the log is in the order of lines. From it:
  `IncludeOrder` and `IncludeAlphabetical`. All are about files whose directives
  balance as `CheckIncludeLine` sees them, and a line of inline assembly changes
  none of what they speak of.
- `ParsePkg_proofs`: `ParseType` gives `ParseBlockedForGood` by itself, since a
  blocked buffer only grows at its end. `FramedInv` says where each stream that
  is whole or has gaps, and whose headers fit `read_buf`, stands (`Follows`): of
  all bytes sent, with the offsets of the messages (`Offsets`), the buffer holds
  those from b to w and the wire those from w on (`Standing`); what is printed
  are some of the first k messages, in order, all of them if nothing is missing,
  and b is where message k ends, or the buffer is empty and bytes behind that
  are missing (`Placed`, `Picked`). That a cut falls on the end of a message
  needs the buffer to begin with one, which is what the invariant keeps; a
  stream picked up late, or after a dropped beginning, begins at the next
  segment that begins a message. `Moves` is what any step does to one stream,
  proved once for all actions, so that other clients, losses and repetitions are
  out of the way. From it: `ParseFramedRight`. `ParseSentForms` says that only
  messages of the given shapes are sent, and with it `ParseReadBufSuffices`
  needs no hypothesis on sizes: a length that is found in a buffer that begins
  with a message is that of the message, and its condition is on the messages
  sent. `ParsePrintedWhenComplete` and `ParseNothingRefused` are about the
  traffic the tool is written for: no message before the last was captured
  (`~Pipelining`) and a Content-Length in each (`~Bare`). Then the buffer and the
  wire together are within one message (`OrderlyInv`).
- `CppLint_proofs`: `LintInv` says that the filters switch off what the options
  and the `GLOBAL_NOLINT` marks of all files so far ask for (`FilterInv`; the
  fold of `IsFiltered` is "the last filter that matches", `FilteredIsOff`), that
  the suppressions come from lines of the current file and include those of
  every line processed (`SuppressionInv`), that every complaint was judged by
  the texts (`AllJudged`), and that the counts are those of the printed ones
  (`CountInv`, which ties the exit status to them). The properties alone are not inductive: nothing in them speaks
  of the filters and the suppressions by which the next complaint is judged. A
  `NOLINT` speaks of its own line or the next, so the lines up to `n` decide
  about line `n` (`CollectedUpTo`). From it: `LintSilenceHasReason`,
  `LintNolintHonoured`. `HeardInv` adds that no line processed so far raised,
  unless the run ended with status 1, and that whatever its checks find has
  become a complaint (`Survived`, `Heard`); with the judgement of complaints it
  gives `LintExitTells`. `LintSilenceHasReason` leaves out the complaint about a
  `GLOBAL_NOLINT`, for which it is false. `FnInv` is about functions: while
  a file is read, `in_a_function`, `lines_in_function` and the trigger are what
  the lines before the next one say (`Tracks`: the last start, whether an end
  followed it, the code lines before that end), no complaint is dated later
  than the last line processed, all lines of a file were processed when the
  next one is opened, and the reports so far are right (`SizesRight`). From it
  and from what the powers of two and their logarithm are (`PowerDefined`,
  `LogBounds`): `LintFnSizeByBody`. It uses that the verbosity is a natural
  number (the usage text asks for 0 to 5; a negative one is not modelled) and
  that no other check complains under `readability/fn_size`.

- `LineScan_proofs`: the properties are about the text of one state, so the
  invariant is its type (`TextOK`) and the work is in what the searches compute.
  Each fold goes through a series of values, one per character, line or round
  (`OpenSteps`, `PunctuateSteps`, `NextSteps`, `PreviousSteps`, `ScanSteps`,
  `ScanLineSteps`, `RemoveSteps`), along which the inductions go.
  - `LintCloseFindsMatch`: the brackets between two places are counted line by
    line (`BetweenFirst`, `BetweenNext`), so `num_open` after a line is what the
    lines up to it leave open (`NumOpenIs`). The depth falls by one at a time
    and at end characters only, so the search in a line finds the first position
    where nothing is open (`EndInLine`). The first line that leaves nothing open
    has such a position; an earlier one that has it opens another bracket
    behind it (`ReopenedWhere`).
  - `LintTextInsideNested` and `LintBracketsRecognised` share a theory of the
    stack: `Nesting` is the depth after each position, and the stack holds,
    level by level, the brackets whose depth has not been undercut since
    (`Levels`, `OpenAt`, `ClosedAt`). For the search from the right the same
    theory is used on the reversed text, where opening and closing brackets have
    changed their parts (`BackNesting`, `BackClosed`).
  - `LintCommentsRemoved`: the scanner at the start of a line has forgotten
    everything but whether it is in a comment (`Fresh`), so that in a clearly
    structured file the lines alone say which lines start in one
    (`OpenStructure`). The loop goes on outside of comments with the lines of
    all comments above replaced, or has returned (`GoesOn`, `Returned`); each
    round keeps this and passes a line, so there are enough rounds.
  - `LintSearchUpEnds`: joining lines from above keeps the indented brace of the
    topmost line that is not blank and any `};` below it (`IndentedConcat`,
    `BracesConcat`), so the search goes on exactly as long as the lines above
    begin with an indented brace and have no semicolon.

Only model-checked are `ReturnsWithoutOutage`, `EveryMsgTaken` and
`DestructorReturns`: liveness under fairness is out of the prover's reach. Every
invariant and action property of the
passing runs, and the refinement of `ByteQueue`, is the statement of a theorem; the
theorems of `ParsePkg_proofs` and `CppLint_proofs` that carry a hypothesis name
it above.

## Plan

Done, in this order: the ring and its abstract queue, the pool, the connector
over the pool, the sender, the sessions over the queue, the four parts of
cpplint, the comparison with comments and usage texts, and the proofs above.

Left, modelling: `GetHttpHeaders` as a loop over characters, a second connection
from the same client in `ParsePkg`, `CurlOp` composed with `DingMsgSender`, the
callbacks of `Server`.

## Not modelled

- cpplint: the checks of a single line (`CheckStyle`, `CheckSpacing`,
  `CheckLanguage`, `CheckCStyleCast` and the like), about half of the file, are
  regular expressions applied to one line and keep no state; a model would
  repeat the expressions. `CppLint` takes their complaints as given.
  `CleansedLines` and `CollapseStrings`, regular expressions too, and the path
  functions of `FileInfo`, which ask the file system.
- cgidump: `ParsePkg::GetHttpHeaders` and `ParsePkg::ParseHttpPkg` (not called),
  printing and hex dumps, libpcap set-up, a port that is used again.
- `CurlOp` and both servers: their state is that of libcurl, libevent and the
  kernel; see the plan.
- Command lines and flags of the C++ programs, `GetAddressBySocket`, the empty
  `ZookeeperProxy`, `time.cc`, the unused copy
  `utils/database/src/database_connector.cc`, and vendored code.

Text and SQL are left out everywhere; so is the part of a chat message that
uninitialised memory may add.
