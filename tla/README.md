# Verification of the DB coursework program

The program is a Qt desktop client for PostgreSQL databases. The user lists
servers in a settings dialog; the list is kept in QSettings; the main window
opens one connection per listed server, each in a thread of its own, and
closes and reopens them when the dialog was used. The code is about a thousand
lines in `src/*.hxx`, `src/*.hpp` and `src/main.cpp`, and a vendored copy of
libpqxx 7.4.2 in `src/Libs/pqxx`, which is built with it.

The tree as committed does not compile: `MainWindow.hxx` calls
`SettingsDialog::loadServers`, `getServers` and `constructServerListString`,
which the last commit moved to `ServerManager`. The model resolves each call to
the only function of that name; `getServers` gets the dialog's own list, which
is the list it had before the move.

## 1. Inventory

### Server list and storage (`server_manager.hpp`, `saveServerList`)
* State: a `QList<Server>`, and the QSettings array `db/servers`: a size and one
  group of keys per index.
* Operations: `operator==`, `constructServerListString`, `loadServers`,
  `getServers` (loads only if the list is empty), `saveServerList`.
* Hard: the array is written over a longer one; equality ignores the password
  (`password == password`); the printed string need not identify a server.
* Correct when: what was saved is what is loaded.

### Settings dialog (`settingsDialog.hxx`)
* State: the list, the list it opened with, the item model and its current row,
  the line edits, which of the five buttons are enabled, and whether the form
  adds or edits.
* Operations: the constructor, `checkFormFill`, `clearInputFields`, `addServer`,
  `fillInputFields`, `saveServerEdit`, `removeServerFromList`,
  `enableEditAndRemoveButtons`, `fillServerList`, `closeEvent`.
* Hard: everything hangs on the order of clicks. Servers are found by what their
  row prints, at the time of the click, and the current row changes by mouse,
  keyboard, removal and rebuilding.
* Correct when: the view and the list agree, the buttons agree with the form, a
  change hits the selected server, and nothing is lost without a question.

### Main window (`MainWindow.hxx`, `main.cpp`, `Functions.hpp`)
* State: the wanted list and `active_connections`, a list of futures; behind each
  future a connecting thread; for each a terminating thread with a pointer to
  the list's node.
* Operations: constructor, `openSettings`, `setupConnections`,
  `tryConnectingToServer`, `terminateConnections`, `terminateConnection`.
* Interaction: `openSettings` runs the dialog, takes its list, terminates, sets up
  again; `main` terminates after the event loop.
* Hard: a thread holds the address of a list node; the GUI thread blocks on
  threads which block on the network; `get()` is called twice; sessions at the
  database outlive their futures; the program may crash while it terminates.
* Correct when: no thread outlives its node, rounds of connections do not
  overlap, the window comes back, each listed server has one attempt.

### libpqxx (`src/Libs/pqxx`, vendored)
The program uses `connection`'s constructor, `close` and `is_open`. The library is
nevertheless part of the tree, nine tenths of its code, and has the more delicate
protocols. `PROJECT.json` lists its parts one by one; these are modelled.

* Transactions: the status machine, the focus, the pending error, nesting, COPY.
* `robusttransaction` and `perform`: a commit whose answer is lost, the question
  after its outcome, and what is tried again. Hard: the server goes on by itself.
  Correct when the work is done at most once and the program is told the truth.
* `pipeline`: a map of queries with three iterators into it. Hard: results are told
  apart by their order only, and a batch that fails is run again. Correct when each
  query gets its own result and none runs twice.
* Notifications: receivers in a multimap, called while `get_notifs` iterates over it.
  Hard: they may register, destroy, throw and execute. Correct when each is called
  once for its notification and no iterator dangles.
* `connection`: the handle, the chain of error handlers, the slot of the transaction,
  all of which move with it. Correct when each handle has one owner and no pointer
  is left to an object that was moved from.
* Cursors: `sql_cursor` reckons its position; iterators of an `icursorstream` read
  for each other. Correct when the reckoning is the server's.
* Large objects: `blob` owns a descriptor; `largeobject_streambuf` buffers a file.
  Correct when descriptors have one owner and the stream is a plain file.
* Results: rows, slices, iterators in both directions; SQLSTATE to exception.
* Texts: the glyph scanners, arrays and composites, COPY lines, numbers, binary data.
  Hard: a byte of a longer character may look like a quote; numbers overflow.
  Correct when what is written is what is read.

## 2. Plan

| # | modules | of | state |
|---|---------|----|-------|
| 1 | `ServerStore`, `SettingsDialog` | the dialog and its storage | checked; all but the violations proved |
| 2 | `ConnectionRounds`, `MainWindow` | the window's threads, and their abstract specification | checked; invariants and refinement proved |
| 3 | `Coursework` | dialog, window, disk, crash and restart | checked; both invariants proved |
| 4 | `PqSession`, `PqTransaction` | `transaction_base`, `basic_transaction`, `subtransaction`, focus, pending error, registration | checked; types and registration proved, the order properties for disciplined programs |
| 5 | `AtMostOnce`, `PqRobust` | `robusttransaction` and `transactor`, and their abstract specification | checked; invariant and refinement proved |
| 6 | `PqPipeline` | `pipeline` and the server's side of it | checked; all three invariants proved |
| 7 | `PqNotify`, `PqConnection` | receivers; handles, error handlers and moves | checked; all safety properties proved |
| 8 | `PqCursor` | `sql_cursor`, `stateless_cursor`, `icursorstream` and its iterators | checked; all three invariants proved |
| 9 | `PqBlob`, `PlainFile`, `PqLoStream` | `blob`; `largeobject_streambuf` and its abstract specification | checked; invariants and refinement proved |
| 10 | `PqResults` | rows, slices, iterators, error classes | checked and proved |
| 11 | `PqEncodings`, `PqArrays`, `PqCopyText` | texts in encodings | checked; `PqCopyText` proved |
| 12 | `PqConversions` | texts of numbers, binary data and arrays | checked and proved |
| 13 | `ConnString` | `constructConnectionString` against libpq's reader | then |

Of the passing runs' safety properties there are theorems but for the one about arrays and
composites (`PqArrays`), which stays with TLC.

## 3. The modules and the code

Each module says at each definition what it stands for; `PROJECT.json` gives the
lines. This is how the state corresponds.

**`ServerStore`** has no variables. A server is an address (host, port, user and
database, the strings that are printed and compared together) and a password.
`ServerEq` is the comparison as it is written, blind to the password. `ListString` is
a constant function, so that two addresses may print alike, as user `a@b` at host `c`
does like user `a` at host `b@c`. A `Store` is an array as QSettings keeps it: groups
beyond the size survive.

**`SettingsDialog`**. `servers` and `initial` are the member and the copy the close
event compares with; `rows` and `current` are the item model and the view's current
row; `form`, `mode` and `enabled` are the line edits, which of Add and Save is shown,
and the enabled buttons. One action is one event with everything it sets off: the
`textChanged` signals that `clear()` raises are part of the handler that called it
(`SetForm`). `ClickRow` is the mouse, which the dialog listens to; `MoveCurrent` is
the keyboard, which it does not. `opened` and `onlyAdded` are history.

**`ConnectionRounds`** is the abstract specification of the window: connection
attempts come in rounds, a round is for one list, and it is dropped as a whole before
the next begins.

**`MainWindow`**. `pc` and `k` are the place and the loop index of the GUI thread. A
task is one `std::async`: its worker (`tryConnectingToServer`), its future, and the
thread of `terminateConnection` that has a pointer to the future. `active` is the list
`active_connections`. `sessions` is the database's side, and the reason it is there:
after `get()` was called, no variable of the program knows the connection any more.

**`Coursework`** composes instances of `SettingsDialog` and `MainWindow` over one
store, and adds the disk. The dialog lives inside `openSettings`, and so does its
QSettings, which is why `SetupDone` and not `CloseSettings` writes to the disk for
sure. `Restart` begins a new process.

**`PqSession`** is the server's end of a libpqxx connection, and external: a block,
its savepoints with what was written since, a COPY, and what is durable. A command is
an operator from a session to the set of its answers; `Over` adds the two ways in
which a connection breaks, before the server did its work and after.

**`PqTransaction`** is libpqxx's end. `tx[t]` has the members of `transaction_base`
(`m_status`, `m_registered`, `m_focus`, `m_pending_error`), `slot` is
`connection::m_trans` and `open` what the library knows of the socket. A call runs to
its end. `parent` and `root` say who a subtransaction belongs to. `done` is history:
the writes of which the program was told that they succeeded, but for late ones. A write is `late` if its
object, or the block it belongs to, was closed when it was sent; the properties do not
speak of those (see section 7).

**`AtMostOnce`** is what `perform` with a `robusttransaction` promises: the work takes
effect at most once, and an answer other than "in doubt" is true. **`PqRobust`** is
`perform` around a callback that opens a connection, works and commits. `pc` is the
place in `do_commit` and around it, `left` and `checks` are the two loop counters,
`server` has one transaction per call of the callback. The server's steps are its own:
it finishes a COMMIT whose sender is gone, or takes its time to notice the loss.
In doubt the link may be alive: a `broken_connection` is thrown for SQL errors of class 08
and for results without SQLSTATE, too (`SqlError`). `unfounded` is history: what `commit()`
tells has no ground, since `query_status` failed, or since it found "aborted", `do_abort`
succeeded over a link that is alive, and `do_commit` returned as after a success.

**`PqPipeline`**. `pipe` has the members of `pipeline`: `queue` is `m_queries`, `first`
and `second` the issued range, `waiting`, `retain`, `error`, `dummy` and `registered` the
rest. `kind` is what will become of each query, chosen at the start and never changed, and
what the server has run is in `ran`. `block` is the kind of transaction, for in a
`nontransaction` a batch is its own. `told` is what `retrieve` returned, if it did: it may
have the result and still throw, when it goes on to issue what waits and finds a result
that a `cancel` left on the wire; the query stays in the map then. `Cancel` goes turn by
turn: each sends a request, which may throw, and erases a query. `cancelled` is history:
"whole" if each cancel came to its end, "halfway" since one threw between two turns, and
"astray" for good if a call other than `cancel` came next. `KeyOf` is what `obtain_result`
reads through an iterator at the end of the map, which only happens then (section 7). Loops (`Replay`,
`ObtainUpTo`, `FurtherResults`) are recursive functions of the turn.
`PipelineInv` is the inductive invariant that section 8 describes.

**`PqNotify`**. `receivers` is the multimap as a sequence, in order of channels.
`loops` is the stack of `get_notifs` calls, each with the iterators `at` and `stop`;
nested ones come from callbacks that execute something. `Liberties` are things that a
program may do in a callback and that the passing run leaves out: they break properties
(section 7).

**`PqConnection`**. `conns` are the objects, with `handle`, `handlers` and `trans`;
`handles` are libpq's, each with the object its notice processor points to; `home` and
`user` are the pointers back, of error handlers and transactions. `named` is history.

**`PqCursor`**. `cursor` has `m_pos`, `m_endpos` and `m_at_end`; `served` is where the
server's cursor is. `stream` and `iters` are an `icursorstream` and the intrusive list of
its iterators, with `prev` and `next` as in the code. `use` says which of them a behaviour
is about.

**`PqBlob`**. `blobs` are handles, `fds` the server's descriptors, `sizes` the objects; the
data are a length. **`PlainFile`** is a file with a position, and **`PqLoStream`** the
stream buffer over a large object: `area` has the get and put areas, `offset` is the
server's position. The refinement maps the put area into the file and the unread part of
the get area before the position.

**`PqResults`** has a result by its column names and numbers of rows; `row` is a slice as
the code has it (`m_begin`, `m_end`) and `cells` what it should be; `walk` is an iterator by
its index, reverse ones one place off as in the code; `failure` goes from SQLSTATE to an
exception class to what `perform` does with it.

**`PqEncodings`** has no variables: the scanners by how many bytes the next character has,
one for each family of encodings. **`PqArrays`** makes texts from a shape and characters
and parses them, one `get_next` or field to a step. **`PqCopyText`** sends rows through
`stream_to`, the server and `stream_from`, in one client encoding. The target's server may
have another (`converts`): it converts lines, but the octal codes that
`escape_field_to_buffer` writes for all but ASCII are its own bytes, and what it makes of
them may be any text (`Understood`), or none, for which it refuses the COPY.
`given.passed` has the rows that came from the other stream. `ParseNext` is a round of the
loop in `parse_line`, `Parsed` the loop as a recursive function of the round, and the
server's `Stored` and `ShownField` are made alike. **`PqConversions`** reads and
writes numbers digit by digit, in both builds (with `std::from_chars` and without), in
types of a few bits whose arithmetic overflows like the real ones; binary data byte by
byte; and counts the room that an array gets.

**`MCPqCalls`** and **`MCPqData`** put modules that share no state side by side, so that
one run checks several. The variable `part` says whose behaviour it is; the other
modules' variables rest.

## 4. The runs

Runs that pass:

* `dialog_rows`: three addresses, two of which print alike, up to three servers. The
  rows and the list hold the same servers, though Remove makes their orders part; the
  buttons follow the form.
* `dialog_store`: over every stored list of up to two servers, with two passwords. What
  is saved is what is loaded, over a longer list too; the close event asks. The latter
  holds although `operator==` ignores passwords, but only because the dialog compares
  with the empty list it starts from: the mutant that loads the list, as a TODO in the
  constructor wants, breaks it with a changed password.
* `window_rounds`: up to two servers, the settings opened twice, so three rounds. The
  inductive invariant, the two safety properties, the return of the window, and the
  refinement of `ConnectionRounds`.
* `program_stored`: the composition, with crashes and restarts.
* `pq_order`: three transaction or subtransaction objects, nested as the library's
  documentation tells a program to, two writes each, over a connection that may break
  at any command. No block is inherited, what is durable was never reported aborted,
  and what succeeded in one object is durable as a whole or not at all.

* `pq_calls`: `PqRobust`, `PqPipeline`, `PqNotify` and `PqConnection`.
  - `ImplementsPromise`: `perform` refines `AtMostOnce`. An answer that is `unfounded`
    counts as "in doubt" and is not held against the work: there are two such, when the
    status could not be asked for, and when it was found to be "aborted" over a live
    connection. That neither is given as such, but as a success, is `robust_doubt`.
    `EachPerformReturns`: it comes back, also when the server never finishes.
  - `QueueIsSound`, `ResultsAreOwn`, `QueriesRunAsTold`: iterators, counter and focus of
    the pipeline agree, each query gets its own result or that of its refused batch,
    nothing runs twice and a success was one. The first, and that nothing runs twice, hold
    in all states; that results are the queries' own, and a success one, until a call other
    than `cancel` follows a `cancel` that threw between two turns: see section 7.
  - `ReceiversAreCalled`, `LoopsAreValid`, `ListensForReceivers`, `LoopsReturn`: whatever
    receivers do, short of the `Liberties`, each is called once, no iterator dangles,
    LISTEN and UNLISTEN follow the receivers, and `get_notifs` comes to an end.
  - `HandlesAreOwned`, `MovesAreWhole`, `BreaksAreTold`: no leak and no double
    `PQfinish` through any moves; everything that points to a connection points to the
    one that has the handle; a broken connection is told as one.
* `pq_data`: the modules of cursors, large objects, results and texts.
  - `CursorIsExact`, `StreamIsSound`: the reckoned position is the server's, from an
    adopted cursor too; the list of iterators is a list, and each has the block at its
    position.
  - `BlobsAreSound`, `FailureLeavesNothing`, `IsPlainFile`: one owner per descriptor; a
    `from_buf` that fails leaves no object if it was given an oid (with the default, 0, it
    does: section 7); the stream refines `PlainFile`.
  - `ResultsAreFaithful`: slices, names, iterators, and which errors are retried.
  - `TextsAreParsed`, `CopyIsExact`, `ConversionsAreExact`: what was meant, written or
    sent is what is read, and no other text is taken for anything. `CopyIsExact` is so of
    all that is read and passed from stream to stream; of what the program streams itself,
    if the server has its encoding, and else of plain (ASCII) fields and nulls.

Several of these properties are conjunctions of named parts, each with a comment of its
own in the module.

Runs that end in a violation, each of what a comment or message of the code says:

* `dialog_edit`: Save overwrites a server other than the one in the form.
* `dialog_keep`: adding one server to a stored list loses the list.
* `window_sessions`: terminating closes no connection.
* `pq_left`: `abort()` with a pending error sends no ROLLBACK.
* `robust_doubt`: when the status query cannot be made, `commit()` of a robusttransaction
  reports success, against the comment at the very line. (`SuccessIsDurable` fails in the
  other way of section 7, too; the trace that TLC shows is the shorter one.)

## 5. Bounds

* Dialog: `MaxServers` is 3 where two servers print alike, so that there is a third
  that does not and rows on both sides of the removed one; 2 elsewhere, where a list
  and a longer stored one suffice.
* Window: `MaxOpens` 2 gives three rounds; an overlap of rounds, or a future left
  over, needs two. Two servers give a loop with a first and a last step.
* Program: one address with two passwords, one server, two visits. A crash between
  a save and its write, a restart and another visit all fit.
* Transactions: three objects give a transaction, a subtransaction and another in it,
  as well as two that follow each other with a subtransaction in one. Two writes are
  what "all or nothing" needs. Objects differ in their names only, which makes the
  symmetry sound; the run checks no liveness.
* `PqRobust`: three calls, so that there is one between the first and the last, and three
  questions (`max_attempts` is 500: a counter, of which only the end matters).
* `PqPipeline`: three queries and a retention of up to one give a batch, a query behind it
  and a failure in any place of either.
* `PqNotify`: three receivers, two of which share a channel, two notifications, loops
  nested to `MaxDepth` 2.
* `PqConnection`: two objects, two handles and two transactions: a move onto a connection
  that has one of its own.
* `PqCursor`: three rows, strides to 2, three iterators: a full block, a partial one and
  none; an iterator before, in and behind the others in the list.
* `PqBlob`, `PqLoStream`: two handles, objects of at most two chunks; buffers of two
  characters and files of three, so that areas fill up in the middle.
* `PqResults`: up to three columns of two names, two rows. The SQLSTATEs have one of each
  class that the code tells apart.
* Texts: two characters per value from alphabets that have each special one and, per
  encoding, characters whose second byte looks like one. Integers of 6 and 5 bits, all
  texts of up to four characters over the digits 0 to 4, a minus, a blank and a letter:
  enough to exceed each limit by one digit and by one unit.
* `CHECK_DEADLOCK FALSE` where the program ends (`exited`) or has used up its objects.

Proofs do not depend on any of these.

## 6. Fairness

`MainWindow`, `PqRobust` and `PqNotify` have liveness.

In `PqRobust`, `WF_vars(Perform)`: a command is answered or its connection breaks. The
server has no fairness, so a COMMIT may be "in progress" for ever, and that the question
fails (`QueryFails`) is not counted on. In `PqNotify`, `NotifyFairness`: `get_notifs` and
the callbacks go on; nothing makes a notification arrive, so `LoopsReturn` excepts
`await_notification`, which may wait for one.

In the window, `WF_winVars(Running)` says that the program's own
threads are scheduled and that an attempt to connect ends; the latter is
`connect_timeout=4` in `constructConnectionString`. The user's actions (opening and
closing the settings, quitting) have no fairness, and `WindowReturns` asks nothing of
them. Weak fairness of the whole disjunction is enough: every step of `Running` uses up
a finite supply.

## 7. What the code does that no property claims

Known divergences between the code and what it says, which have no run of their own:

* Remove takes the current row, but the first server that prints like it
  (`settingsDialog.hxx:203`): of two that print alike the wrong one may go.
* Escape hides the dialog through `QDialog::reject`, and `closeEvent`'s question is
  not asked (`settingsDialog.hxx:346`).
* After "no", the window still connects to the edited list (`MainWindow.hxx:61`).
* A crash while the connections are terminated may lose the list just saved, as the
  dialog's QSettings may still hold it (`MainWindow.hxx:62`). `StoredWhenIdle` speaks of a
  window that waits for its user, and so does not cover this.
* `commit()` of a transaction in which a statement failed, and whose exception the
  program swallowed, returns as if it had succeeded: the server answers ROLLBACK and no
  error (`transaction.cxx:61`). `AllOrNothing` holds then, for nothing is durable.
* `exec_params` and `exec_prepared` run on a closed transaction
  (`transaction_base.cxx:318`), outside any block or in the next one's. Such writes are
  `late`.
* Without the discipline of `Disciplined`, `OpenBlockIsOwned` fails in two ways: a
  transaction aborts with a pending error and leaves its failed block, and then a live
  subtransaction of it aborts and its ROLLBACK TO SAVEPOINT opens that block again, owned
  by nobody; and a stream that outlives its aborted transaction ends the next one's COPY.

* The branch "how could this even happen?" (`settingsDialog.hxx:259`) happens: after Save
  the model is rebuilt, no row is current, and Edit is still enabled
  (`settingsDialog.hxx:270`). `LookupNeverFails` of `SettingsDialog` states it.
* A live subtransaction does not keep its parent from executing or committing
  (`subtransaction.cxx:29`); without `Disciplined`, `AllOrNothing` of `PqTransaction` fails.
* A subtransaction that fails to commit leaves its parent's block failed
  (`transaction_base.cxx:156`), against `subtransaction.hxx:54`: `SubAbortHeals`.

In the rest of libpqxx:

* `robusttransaction`: any `broken_connection` from COMMIT puts `do_commit` in doubt
  (`robusttransaction.cxx:152`), and one need not mean that the connection is gone: an SQL
  error of class 08 is thrown as one, and so is a result without SQLSTATE
  (`result.cxx:161`). If the status then is "aborted", `do_abort` succeeds over the live
  connection and `do_commit` returns (`robusttransaction.cxx:198`): `commit()` reports
  success for work that the server aborted.
* Pipeline: a `cancel` whose request throws between two turns (`pipeline.cxx:125`) has erased
  some queries whose results are still on the wire. Unless it is called again at once and
  comes to its end, the next pending query gets the result of an erased one, and may be told
  a success that is not its own. If the dummy's result was cut off, the batch is replayed,
  and in a `nontransaction` with success: for the rest of the call the issued range is past
  its end and out of the focus, until `obtain_result`, with nothing on the wire, sets it
  right and reads the key of its first iterator for the error (`pipeline.cxx:238`). That may
  be the end of the map, which has none; the model has what libstdc++ gives there, the size
  of the map. With this value no iterator dangles afterwards; with another, nothing is claimed.
* Pipeline: `flush` leaves the number of the first failed query, against "any error state
  will also be cleared" (`pipeline.hxx:93`, `pipeline.cxx:109`; `FlushClearsError`).
  `cancel` leaves results and the dummy's on the wire. `obtain_dummy` unregisters and
  does not register again. In a `nontransaction` a query that came before the failing one
  may be told "ok" though the batch was rolled back and only the replay ran.
* Notifications: a callback that registers a receiver may be called for a channel that is
  not its own (`connection.cxx:456`; `OnlyItsChannel`), and one that destroys itself makes
  the loop's iterator invalid; these are the `Liberties`. A LISTEN in a block that is
  rolled back is lost. Nested execution delivers notifications out of order.
* Errors of `prepare` name the first statement that was ever prepared, for the text is static
  (`connection.cxx:617`); `connection_string` does not quote its values; `esc_like` does not escape the escape character.
* Cursors: iterators made after the first read equal the end until they are used; a
  stateless cursor that is asked from "one row beyond the end" reads backwards one row too
  many (`cursor.hxx:188`; `RetrievesFromEnd`).
* Blobs: `append_to_buf` takes the -1 of a failed read for a size and cuts the last byte off
  what the buffer had (`blob.hxx:162`, `blob.cxx:287`; `AppendKeepsBuffer`). A `from_buf` that fails and was not
  given an oid removes object 0 and not the one it made (`blob.cxx:234`). A short write is not noticed. A handle that is used after its
  transaction may have another's descriptor (`strayed`).
* Large object streams: seeking neither writes the put area nor drops the get area
  (`crossed`), and `sync` goes back to the beginning of the get area, and reports a failure
  if the stream was opened for reading only.
* Encodings: the test of GB18030's second byte is inverted; JOHAB's tests the first byte
  twice; that of MULE reads a byte beyond. These are modelled as they are, and the run's
  encodings are those which are right.
* Arrays: `;` separates values as `,` does; a value that begins with an apostrophe is
  refused; unquoted values do not have their escapes taken; `parse_composite` refuses an
  unquoted field that begins with a longer character, against `composite.hxx:22`
  (`HandlesBackendText`); `composite_into_buf` of one field ends in ",)".
* COPY: a row whose writing throws leaves its first fields to the next, against
  `stream_to.hxx:239` (`EachRowIsItsOwn`). `stream_to` writes all but ASCII as octal codes
  of the client's bytes (`stream_to.cxx:122`), which a server converts from no encoding but
  reads as bytes of its own: if it has another encoding than the client, as it always has if
  the client's is BIG5, GBK, JOHAB, SJIS or UHC, it stores another text than was written, or
  refuses the COPY. `stream_from` does not read octal escapes.
* Conversions: `size_buffer` of an array does not suffice with a null or two elements of
  least size (`strconv.hxx:324`, `conversions.hxx:946`; `EstimateSuffices`), by as much as
  `ShortByCommas` says. "Inf" is not read, trailing text behind a float is, and the build
  without `from_chars` does not stop at the end of a `string_view` that has no zero behind.
* Results: `to()` of a slice reads the row's first fields (`row.hxx:502`; `TuplesAreRows`),
  `as<>()` does not. An error 42501 has no SQLSTATE. `swap` leaves the encoding. `at` takes
  negative indices. `row::table_column` answers beyond a slice. 08007,
  "transaction resolution unknown", is a `broken_connection`, which `perform` retries.

Left out: a connection that breaks under a pipeline, where `consume_input` or the sending of a
batch throws, which no call after it survives; layout, labels, logging and the status bar; the text of the list and the
connection string (planned); `nontransaction`, `set_variable`, `statement_completion_unknown`
raised by anything but SQLSTATE 40003; floating-point texts, SQL-building headers, `params`,
and the other parts `PROJECT.json` marks `not_modelled`, each with its reason.

External assumptions: a QSettings may hold its values back until it is destroyed and
shares them within a process; Qt's choice of the current row after a removal;
`future::get` on a taken result throws (libstdc++, MSVC) or crashes (libc++); the
answers in `PqSession`; and the program sends no BEGIN, COMMIT or ROLLBACK as a
statement of its own.

## 8. What is proved

All for every value of the constants, from the named assumptions in the modules. Most say
that constants are sets of the right kind (`StoreAssumption`, `DialogAssumption`,
`WindowAssumption`, `CourseworkAssumption`, `SessionAssumption`, `DisciplineAssumption`,
`RobustAssumption`, `ConnectionAssumption`, `CursorAssumption`, `BlobAssumption`,
`PipelineAssumption`, `ResultAssumption`, `ConversionAssumption`, `CopyAssumption`). Four
say more: `LoStreamAssumption` that the end-of-file mark is not a character, as
`traits_type::eof()` is not, and that the objects there may be at first are no longer than
the bound on those the program may make; `NotifyAssumption` that the mark for the end of the
multimap is no receiver; `ConversionAssumption` that an array element of a safe type is no
longer than any text of its type may be, and that no element has more escapes than
characters; `CopyAssumption` that a table has columns, and that its fields are texts in
which the scanner of the encoding finds a character at every place where one begins: for
others `parse_line` throws. Where a theorem needs something of the *program*, its statement
says so: `Disciplined`, a liberty that the program does not take, or `Delimiting`, the
encodings that it does not use. The passing runs have the same values.

* `SettingsDialogProofs`: `TypeCorrect`, `ButtonsAlwaysMatchForm`,
  `RowsAlwaysMatchServers`. The three are inductive together. That `servers` is a
  sequence of servers needs the buttons, since only they keep an incomplete form out;
  that a row's server is found needs the rows. The lemmas count how often a text occurs
  in a sequence after Append, RemoveAt and a replacement. `SavedAlwaysLoads` and
  `CloseAlwaysAsks` are the two action properties. The former is that groups left over
  from a longer array are not read; the latter needs `NothingLoaded`, that the list the
  dialog compares with is empty, for else the password that `operator==` ignores would count.
* `MainWindowProofs`: `TypeCorrect`; `LoopsStayInStep`, the inductive invariant
  `WindowInv`, which says how far each loop of the GUI thread has come; from it
  `ThreadsAlwaysListed` and `IdleAlwaysServesList`; and `WindowImplementsRounds`, that
  every step of the threads is a step of `ConnectionRounds` or none. Neither safety
  property is inductive: that a thread is listed when the list is cleared depends on
  every closer before `k` having been joined.
* `CourseworkProofs`: `WindowAlwaysServesStored` and `AlwaysStoredWhenIdle`, from
  `CourseworkInv`. It takes the dialog's invariant over as it is (an INSTANCE's theorems
  hold of the variables substituted), and adds what only the composition has: the dialog is
  open exactly while the window is at "dialog"; the disk holds what was saved unless the
  window is on its way from the dialog to `SetupDone`; the window's list is the stored one,
  or the user declined.
* `PqTransactionProofs`: `TypeCorrect` and `SlotAlwaysAlive`, with no assumption on how
  the program nests things. Every call changes one object; the lemma `ObjectStep` shows
  that the slot stays right if it follows that object's registration, and each call is
  shown to be of that form. Beneath are the lemmas that the server's answers are
  sessions. For a program that nests as `Disciplined` describes, and only for that:
  `OpenBlockAlwaysOwned`, `DurableWasAlwaysCommitted` and `AlwaysAllOrNothing`, from
  `OrderInv`. Its core is a correspondence of two stacks that no single variable shows: the
  chain of live objects from the slot's transaction to the innermost subtransaction, and
  the server's block with its savepoints. What an active object wrote lies between its
  savepoint and the next one's, and what a committed subtransaction wrote lies in one
  level, as a whole or not at all. A focus goes with a COPY under way, and a pending error with a block that
  is not open. The library documents the discipline and does not check it; section 7 says
  what happens without it.
* `PqCallsProofs`, of `PqRobust`: `PlacesAlwaysFit`, the inductive invariant `RobustInv`; from it
  `RetriesAlwaysSafe` and `PerformImplementsPromise`, that every step of a call of
  `perform` is a step of `AtMostOnce` or none. A retry is safe only because of where
  `perform` stands when an exception reaches it: `PlacesFit` says which states of the
  server's transaction each place goes with, which in doubt is whatever one, over a link that
  is alive or not. The refinement has the exceptions of section 4: an answer that is
  `unfounded` maps to "in doubt". A step of the client then has no effect,
  and a step of the server at most one, in an attempt that no other has followed.
* `PqCallsProofs`, of `PqConnection`: `HandlesAlwaysOwned`. `HandlesAreOwned` is inductive with the
  types of the fields it is about (`Shape`); handlers and transactions may be anything.
  Two lemmas carry it: an object loses its handle, which is finished
  (`OwnerCloses`), or a handle goes from one object to another (`OwnerMoves`).
  `ConnectionTyped` and `MovesAlwaysWhole` come from `MovesInv`, which adds to those and to
  `MovesAreWhole` itself that the names of a session are behind its counter
  (`NamesAreBehind`): without it a move could bring a counter that repeats a name.
  `BreaksAlwaysTold` needs no invariant: it is about the order of the tests in one call.
* `PqDataProofs`, of large objects: `BlobsAlwaysSound` and `FailuresLeaveNothing`, from `BlobInv`
  (types; each descriptor has one owner while a transaction is open, for descriptors are
  numbered anew in each; the buffer holds what the last call said it read).
  `StreamIsPlainFile` is the refinement of `PlainFile`, for any buffer size and any
  alphabet: `LoInv` says that the get area is a part of the object that ends where the
  server stands (`AreaIsInObject`), and `PutIsPutAt` that to write the put area in one go is
  to write its characters one by one. The first attempt found the type of `lastCall` in
  `PqBlob` too narrow: `before` may be the size of a buffer, not only of an object.
* `PqDataProofs`, of cursors: `CursorsTyped`, `CursorAlwaysExact` and `StreamAlwaysSound`, for result
  sets, strides and iterators of any number, from `StreamInv` (`CursorsAlwaysRight`). Of
  its three parts `CursorInv` is about positions: `Reckons` says what `m_pos`, `m_endpos`
  and `m_at_end` may be when the server's cursor is at a place, also after `m_pos` was not
  known. It is the invariant of `adjust`, which has only the number of rows a move fell
  short by. `Fit` is about the blocks: attached iterators are a stride apart, none is
  further than the stream was asked for, and the stream at most one read further; hence the
  loop of `service_iterators` reads each block once and in order. `Linked` says that `first`
  and the links are a list of the attached iterators, forward and back; the lemmas of
  `insert_iterator` and `remove_iterator` show it for a list of any length. The loop is a
  recursive function, so two facts had to be proved first that the prover does not know:
  that it is one (`StepsDefine`: finite approximations agree, so their union is a function)
  and that it keeps what each turn keeps (`AllNumbers`, induction over a set of numbers).
  To reason about the loop at all, `Serviced` is written as a function of the position and
  not with a fold, and `IteratorsAreLinked` says that there is a chain and does not follow
  the links by recursion; both say the same of every state.
* `PqCallsProofs`, of `PqNotify`: `NotificationsTyped`; `LoopsAlwaysValid`, if no callback destroys a
  receiver; `AlwaysListensForReceivers`, if no receiver is made inside a transaction block;
  `ReceiversAlwaysCalled`, if callbacks neither make nor destroy receivers. Each excludes
  only the liberties that break it: receivers may be added while a loop runs and no
  iterator dangles. The types include that the multimap is ordered, from which
  `LowerBound` and `UpperBound` get their meaning. `ReceiversAreCalled` is far from
  inductive. `CallsFit` says that notifications come in the order they were sent, of each
  loop, the ones that wait beneath another included, how far it is with its notification:
  those before its iterator were called once, those behind it not yet; that no two loops
  have the same notification; and that none is called for one that is still queued.
* `PqCallsProofs`, of the composition `MCPqCalls`: `CallsAlwaysFit`, that `CallsInv` holds
  whichever part moves.
* `PqPipelineProofs`: `PipelineAlwaysFits`, that `PipelineInv` is an invariant for any
  number of queries and any retention; from it `QueueAlwaysSound`,
  `ResultsAlwaysOwn` and `QueriesAlwaysRunAsTold`, all of the states that no call other than
  `cancel` has reached after a `cancel` that threw on its way. For the others `PipelineInv`
  has no more than types of the history. While `cancelled` is "whole" it says `PipeFits`;
  while it is "halfway", `HalfFits`, which has no `WireFits` but that the results of erased
  queries were not told (`ErasedFit`): enough for another `cancel` to come to its end, and
  with nothing pending the wire does not matter. None of the three properties is
  inductive. `PipeFits` is what holds between any two functions of the class, in the middle
  of a call too: the proofs follow the code, one lemma for each of `obtain_result`,
  `obtain_dummy`, the loops, `receive` and `issue`, and each call is a chain of them.
  - `QueueFits`: iterators and count. The count is exact as long as there is no error; with
    one it only is no more than what is there.
  - `ErrorFits`: after an error nothing is pending, and all before it was received. Hence
    `issue` never sends anything behind an error.
  - `ResultsFit`: what is before the pending queries has results; what is behind them has
    none and did not run. Hence `obtain_result`'s "multiple results" cannot happen, and a
    batch is never sent twice.
  - `WireFits` is the core: as long as queries are pending, the wire has their results, from
    the first pending one on and without a gap, with the dummy's before them if it is still
    awaited. This is what makes order enough to tell results apart. It does not hold once
    they are cancelled, and is not needed then: with none pending a result on the wire is an
    error and not anybody's result.
  - `DummyFits`: if the dummy failed, none of the batch took effect, and one of them will
    fail again. This is what makes the replay safe, and what makes it end in an error before
    the end of the batch or at its last query; without it the replay might end without an
    error and out of the focus, with queries still to be issued.
  - `ToldFits`: a query that was told a success is out of the map and is not run again.

  The lemmas beneath are about the map: a query's successor, what lies between two
  iterators, that a finite set of numbers has one rising list (`RisingExists`), and that
  each loop, a recursive function, keeps what its turns keep. The proof found two mistakes
  in an earlier model: `retrieve` was said to have answered when the call to `issue` behind
  it threw, and `kind` could change between a batch and its replay, though the text of a
  query does not change.
* `PqDataProofs`, of `PqResults`: `ResultsTyped` and `ResultsAlwaysFaithful`, for results
  of any size and names that repeat, from `ResultInv` (`ResultsAlwaysFit`). `RowFits` says
  that a slice's fields are those of the result from `m_begin` on, and `WalkFits` where an
  iterator is after so many steps, which for a reverse one is the place before what it
  stands for. `NumberIs` goes through the cases of `column_number`: the name is found
  before, in or behind the slice, or before it and again in it. `ThrownIs` and
  `TransientAreTried` follow each SQLSTATE through the exception classes to the clause of
  `perform` that catches it.

* `PqTextProofs`, of `PqConversions`: `ConversionsTyped` and `ConversionsAlwaysExact`, for
  integer types of any width, texts and data of any length, and arrays of any size, if what
  lies behind a text is no digit: `AbsorbPositive` looks there, and all of the library's
  texts end in a zero. `ConversionInv` (`ConversionsAlwaysFit`) says in the middle of a
  conversion what its end will be. `Writing`: what is left of a number, followed by the
  digits that are written, is the number, and the digits are so few that a power of ten
  bounds them, hence the room. `Reading`: the number read so far is the one that the digits
  so far stand for, or its negative. `OverflowIs` and `TimesTenIs` are what makes the
  thresholds right: the code refuses exactly when the next digit would leave the type, and
  when it does not, the product in the type is the product. Hence a refusal means that the
  whole text stands for no number of the type (`Continued...`: more digits never bring it
  back). `Escaped` and `HexFits` are about binary data, `ArrayFits` about what the elements
  written so far have used of their share of the estimate. Powers, numerals and estimates are
  recursive functions of a number or of the length of a sequence, again to be reasoned
  about: `StepsAlong` and `AllPlaces` are for them what `StepsDefine` and `AllNumbers` are
  for the loops.

* `PqTextProofs`, of `PqCopyText`: `CopyTyped` and `CopyAlwaysExact`, for rows of any number
  of columns, with any texts and nulls in them. What is between the two ends is a line of
  bytes, and what was to be shown is that no byte in it is taken for another thing than it
  was: a tab within a text for the end of a field, the second byte of a character for a
  backslash, an octal escape for its digits. `Tokens` are the pieces that a line may consist
  of, each with the bytes that it stands for, for the server's end (`ServerTokens`: what
  `escape_field_to_buffer` writes, octal escapes among them) and for the client's
  (`ClientTokens`: what COPY TO sends). `Lines` are the lines that they spell. The lemmas go
  both ways: `AppendedIsLine` and `ShownIs` say that what is sent is such a line for the
  fields, and `StoredIs` and `ParsedIs` that a loop over one comes out with these fields,
  since each token is read by one round as what it stands for (`Understands`). `CopyInv` then
  says what is under way: what has arrived goes row by row with what was given (`Arrived`),
  and a row that a server of another encoding made of octal codes still has texts of the
  client's encoding (`UnderstoodIs`), to be read like any other; the writer's buffer is the part of a line that a failure left
  (`Buffered`), or empty; and what is still to be read is the lines of the rows that were
  not, in order (`ToCome`).

  The theorem is for client encodings in which the first byte of a character tells how long it is
  and an ASCII byte where a character begins is one (`SelfDelimiting`). That these are all
  but two is a lemma (`DelimitingEncodings`), JOHAB with its wrong test among them. The two
  are `Delimiting`'s exception. In GB18030, as the scanner has it (section 7), the property
  fails: the tab behind a field and the first byte of the next one are a character of two
  bytes, and two fields are read as one. In MULE_INTERNAL a character of four bytes is found
  only if a certain fifth is behind it, so what a text is depends on what follows it.

Only model-checked: the liveness properties (`WindowReturns`, `EachPerformReturns`,
`LoopsReturn`), which are out of the prover's reach, as is `ENABLED`; `TextsAreParsed`, which
is about how texts of nested arrays and composites are parsed; of the conjunction
`DataTypeOK` what it says of `PqArrays`; and, for the states that another call reached after a
`cancel` that threw on its way, `QueueIsSound` with the types in it and `NoneRunsTwice`.
