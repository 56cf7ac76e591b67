# Verification of assignment-network-programming

The repository holds four C programs: an FTP-like server and client
(`ftpserver/`, `ftpclient/`) and an HTTP-like server and client (`httpserver/`,
`httpclient/`). This directory holds TLA+ models of them, model-checked with TLC,
and proofs checked with TLAPS. Paths below are relative to the repository.

## 1. Inventory

### ftpserver (`src/ftpserver/main.c`): modelled

One process, one thread. State: the process's current directory, the string
`WORKING_DIRECTORY`, two listening sockets (8888-style command port and data
port), the one client being served, `is_quit`.

* `main` accepts a client, sets `WORKING_DIRECTORY` with `getcwd()`, and serves
  its requests until `QUIT`. A client that leaves without `QUIT` makes
  `ERROR_LOGGING` end the *server*.
* `PWD CWD MKD RMD NLST LIST DELE` answer at once. `CWD` stores its argument as
  typed; `MKD DELE STOR RETR` and the listings build paths from the string, `CWD` and
  `RMD` hand their argument to the system, which resolves it against the
  process's directory.
* `STOR`/`RETR` send `OK <port>`, accept a connection on the data port, open the
  file, move the bytes, close. No confirmation follows. If the file cannot be opened a
  notice without line end is written and `fclose(NULL)` follows.
* `QUIT` sends `bye` without line end, ends its side, waits for one read, closes.

Hard: the two names of the working directory; blocking in `accept` on a port all
sessions share; a client dying at any point (SIGPIPE, exit, waiting for ever);
replies without line ends; errno values the handlers do not name; directories
where files are expected. Correct means: the string and the process agree; a
reply or a data connection belongs to the request it is taken for; files arrive
whole; a session's end makes room for the next.

### ftpclient (`src/ftpclient/main.c`): modelled

State: where it stands, the command socket, a data socket during a transfer.
Each command read from the user is written as one line and answered by one
`read_line`, whatever it returns; `STOR`/`RETR` continue only on `OK`, dial the data
port, *then* open the local file, and move bytes. Errors are `exit(1)`. After
`bye` it ends its side, reads once, closes.

### util.h, data_structure.h (four identical copies): util.h's sockets modelled, the rest partly

`read_line` is modelled twice: as its loop over `read()` of one byte (`LineIO`), with
signals, shutdown and reset, and as what a caller sees of a call (`LineReader`), which the
loop is shown to implement; the FTP modules use the latter's operators (`Lines`).
`clear_recv_buffer` is the blocking read in `QuitClose`, in httpserver's `Close` and
httpclient's `Linger`. `tokenizing_multi_character_delim` and `find_header_value` are
`Following` and `Value` of `HttpText`, `str_tolower` is `Lowered`. `tostring_response` only prints.
Hard: a signal or a reset in the middle of a line; a line as long as the buffer; a delimiter
that is not there.

### httpserver (`src/httpserver/main.c`): modelled

One process; state is the directory tree below it, the connection being
served, and the never-seeded `rand()`. Each connection: one `recv` taken for the
whole request, parsing, `GET` (file or listing), `POST` (search, create, append,
create under a random name), `PUT` (make directory, create, overwrite), `DELETE`;
response, shutdown, one read, close. Hard: requests split over segments; truncated
requests; `fclose(NULL)`; results of `mkdir -p` and `rm -f` ignored; connections
closed without a request leak a descriptor; a restarted server repeats its random
names; files that cannot be opened. Correct means: the response tells what happened to the
tree; a request is carried out at most once and touches its own place only; a resource
created by one POST is not destroyed by another.

### httpclient (`src/httpclient/main.c`): modelled

Connects (retrying every second), *then* asks the user, writes the request, reads
status line, headers up to an empty line, body to the end of the stream; ends its
side, reads once, closes, begins again. It keeps nothing from round to round. An
unknown command sends nothing and then waits for the server. Correct means:
every request gets a response or the client notices the end of the stream.

### Not to be modelled

`ftpserver/test.py`, `ftpclient/commands`, `httpclient/test.in` (inputs; read for the
request sequences they use), Makefiles, terminal output and text formatting.

## 2. Modules

| module | models | state |
|---|---|---|
| `Sockets` | a connection: two streams and their ends | |
| `Lines` | lines of bytes, as `read_line` takes them | |
| `LineReader` | what a caller of `read_line` may rely on (abstract) | `stream`, `ended`, `out` |
| `LineIO` | `read_line`'s loop; implements `LineReader` | also `rpc`, `numRead`, `errno`, `ch`, `totRead`, `buffer` |
| `FtpProtocol` | requests, replies, the sockets between the programs | `conn`, `data`, `backlog`, `dataBacklog`, `alive` |
| `FtpFiles` | the server's directory tree and the system calls on it | `dirs`, `files`, `cwd` |
| `FtpServer` | `ftpserver/main.c` | `spc`, `cur`, `wd`, `job`, `peer`, `left` |
| `FtpClient` | `ftpclient/main.c` | `cpc`, `last`, `line`, `buf`, `kills` |
| `FtpSystem` | one server and its clients; the properties | all of the above |
| `MCFtp` | values of the constants for TLC | |
| `FtpListing`, `MCListing` | the text that NLST and LIST put together, and its buffer | `op`, `dir`, `at`, `text`, `length`, `lpc` |
| `FtpSystemProofs` | proofs: types, the working directory, the data port | |
| `FtpSessionProofs` | proofs: replies, silence, the server's end; what STOR stores and RETR retrieves is whole | |
| `FtpListingProofs` | proofs: what a listing is, and when its buffer is left | |
| `LineIOProofs` | proofs: `read_line`'s types, that it loses nothing, and that it implements `LineReader` | |
| `HttpProtocol` | requests, responses line by line, the connections | `conn`, `backlog`, `up` |
| `HttpStore` | the tree, `stat`, `fopen`, `mkdir -p`, `rm -f` on it | `dirs`, `files` |
| `HttpServer` | `httpserver/main.c`, killed and restarted | `spc`, `cur`, `todo`, `out`, `draws`, `leaked`, `starts` |
| `HttpClient` | `httpclient/main.c` | `cpc`, `last`, `got`, `kills` |
| `HttpSystem` | one server and the rounds of its clients; the properties | all of the above |
| `ResourceStore` | what httpserver promises of its tree (abstract) | `dirs`, `files`, `phase`, `asked`, `code`, `unsaved` |
| `HttpRefinement` | `HttpSystem` implements `ResourceStore` | |
| `MCHttp` | values of the constants for TLC | |
| `HttpSystemProofs` | proofs: types, forgotten connections, random names | |
| `HttpReplyProofs` | proofs: what a success says is true | |
| `HttpRefinementProofs` | proofs: `HttpSystem` implements `ResourceStore` | |
| `HttpText`, `MCHttpText` | requests as text: built, cut, parsed, turned into a path | `asked`, `length`, `message`, `tpc`, `last`, `request`, `headers` |
| `HttpTextProofs` | proofs: a request is understood, also when it is cut; its path and the buffer | |

The HTTP modules extend one another as the FTP modules do, from `HttpStore` up.
`FtpServer` EXTENDS `FtpFiles` EXTENDS `FtpProtocol`; `FtpClient` EXTENDS
`FtpProtocol`; `FtpSystem` EXTENDS both programs. A server action is what the code does
between two waits for a socket; one such stretch is not observable in parts,
since nobody else touches the server's files or memory. `spc` says where
the server waits: `accept` (main.c:60), `command` (read_line in `handle_socket`),
`dataAccept` (285, 323), `store` (302), `send` (341), `noOpen` (about to `fclose(NULL)`),
`spin` (the `feof` loop on a directory), `quit` (357). A client's `cpc` likewise.

Correspondence worth knowing:

* A **path** is a list of names and whether it is absolute. `.` and `..` are not
  modelled. `cwd` is a *directory*, not a name: removing it leaves it current but
  dead (`live = FALSE`), and making the name again does not revive it.
* A **file** is a sequence of bytes from a small alphabet with a newline. Bytes
  cross the data connection one at a time, the finest way TCP could split them;
  `read_line` takes a line of them as the code does.
* A **reply** is a piece tagged with the number of its request. The tag is not
  on the wire: only properties read it. Pieces that end a line are told from the two that
  do not (`bye`, `fail to open file`).
* **Failure**: a client may be killed anywhere. A write to a peer that is gone
  either succeeds or ends the writer (reset, then SIGPIPE): both are explored.
  `fclose(NULL)` is undefined in C: `FcloseNull` says which of *crash* and *return* are explored.
* **mkdir, rmdir, remove, fopen** are external: their outcome, and errno where the
  code looks at it, is computed from the tree in the order in which Linux tests.

For HTTP:

* A member of **`Client`** is one round of an httpclient's main loop.
* A **response** is a sequence of the lines that `read_response` tells apart. The
  `Location` header of a 201 carries a line end too many, so that to the client the
  headers end there (`Response`).
* One `Recv` takes a **segment**. httpclient writes a request at once, but TCP may
  bring it in two (`Cuts`; three would not differ, since the server looks at the first
  and throws away one more). What a cut request means to the server is worked out byte
  class by byte class in `HttpText` and used in `Heads`: cut in its header it is `Torn`,
  cut behind it, a request with less of a body (a PUT becomes the making of a directory
  when nothing is left, a search a form that is refused) or with the first half of the line end in
  it. `Coming` is the rest on its way; it may catch up with the first part (`Arrive`).
* A file that the server may not open is one of `Unreadable` or `Unwritable`.
* `fopen` and `fclose` are two steps (`Open`, `Written`), between which
  the server can be killed with the file emptied or made but not written; each
  `send` is a step of its own. The server waits at `accept` (main.c:486), `recv`
  (422) and `linger` (444); `write`, `respond` and `refuse` are the stretches between.
* **Killing** the server loses everything but the tree; **starting** it again
  begins `random_string` from its first name. `Random` is that sequence of names: it is
  finite, so it bounds the calls per process.
* A null `FILE` pointer ends the server in `fprintf` (`NullWritten`, `RefuseCrash`); in
  `fclose` (`NullClosed`) it is a choice, as for FTP.
* **`ResourceStore`** knows no sockets and no `fopen`: a request is asked, performed in one
  step, told or lost. The mapping (`HttpRefinement`) places that step where the
  server receives the request, takes a file open for writing for what it is going to hold
  (`unsaved` until `fclose`; a crash may cut it), and reads the outcome off the first line of the
  response, wherever that is.

For `read_line`: `read()` is external (a byte, the end, a reset told once, an interruption).
`LineReader` sees the bytes of a call under way as still unread (`taken \o stream`), and an
error that `read()` has returned as one still to be told.

For the listings: a directory is a set of entries in any order, each with a length and with
the type that `readdir()` tells. A write outside of the buffer ends the behaviour (`over`,
`under`): C says nothing of what follows.

Definitions named `X_mistake` (`Shut_open`, `SessionWd_home`, ...) in the servers are not
part of the specifications: each is `X` with a plausible bug, and shows that a
property notices it.

## 3. Runs

| run | question | bounds | distinct states |
|---|---|---|---|
| `ftp_relative` | the two names of the working directory; silent errors | 2 clients, 4 requests each of 11, no kill | 10 506 |
| `ftp_absolute` | `WORKING_DIRECTORY` stays absolute when directories vanish | 2 clients, 3 requests of 9, 1 kill | 234 297 |
| `ftp_transfer` | transfers: replies, connections, contents, the server's end | 2 clients, 3 requests of 9, 1 kill, both outcomes of `fclose(NULL)` | 685 129 |
| `ftp_live` | progress | 2 clients, 2 requests of 7, 1 kill, both outcomes | 176 116 |
| `http_requests` | do responses tell the truth; `ResourceStore`; random names | 2 rounds, 22 requests, 1 client and 1 server killed, 1 restart, both outcomes | 320 150 |
| `http_cut` | requests in two segments; forgotten connections | 2 rounds, 7 requests, cut anywhere, 1 client and 1 server killed, 1 restart, both outcomes | 478 076 |
| `http_live` | progress of a request | 2 rounds, 5 requests, cut anywhere, 2 descriptors to lose, 1 client killed, 1 restart, both outcomes | 338 761 |
| `http_queue` | progress of the queue and of forgotten connections | 3 rounds, 1 request, cut anywhere, 2 descriptors to lose, 1 client killed, 1 restart, both outcomes | 82 712 |
| `http_refusal` | *violated*: is a POST that must fail refused | 2 rounds, 2 requests | |
| `http_text` | what the server makes of a request's text | 17 requests, all cuts, 3 lengths of url | 7 929 |
| `line_io` | `read_line` byte by byte; `LineReader` | 6 bytes, buffer of 3, 1 signal | 21 118 |
| `ftp_listing` | replies of NLST and LIST | up to 7 entries in every order, buffer of 12 | 124 120 |

* `WdDenotesCwd`: while the string is absolute it names the process's directory, and the handlers that put it
  before their argument (MKD, DELE, STOR, RETR) agree with those that do not (RMD, CWD) on every relative name. On
  an absolute name they never agree: `MKD /x` makes `x` below the string, `RMD /x` removes `/x`, as `test.py` shows. After
  a relative CWD the string is the last part of the directory's name, never anything else, and the two groups differ.
* `AbsoluteWd`: it is absolute in every session if nobody gives `CWD` a relative
  path, also when `getcwd()` fails at accept.
* `StallOnlyOnSilentErrno`: the only way for client and server to wait for each
  other is an errno that the switch in `handle_command_mkd` (ENOENT, ENOTDIR) or
  `handle_command_rmd` (ENOENT, EACCES, EBUSY) leaves without a reply. That this does
  happen is visible in the model: a client that asks to remove a directory that
  does not exist hangs, and the server with it.
* `ReplyIsOwn`: replies carry no tag, yet a client never takes one request's reply
  for another's; at most notices of unopenable files precede it.
* `DataPortMatches`: every connection on the shared data port is the one that the
  request being served asked for.
* `StoredWhole`, `RetrievedWhole`: a finished transfer has moved every byte but
  those `read_line` discards; the reference `Read` says position by position which bytes stay.
* `StoredSoFar`: all the while, and so when the sender is killed between two bytes, the file
  is empty or what `read_line` makes of a first part of the client's file: nothing out of order, and nothing of what was there before.
* `ServerExitBlame`: the server exits only because of the client it was serving, and
  crashes only for a file that could not be opened.
* `QuitCompletes`, `TransferEnds`, `Answered`: progress, with the exceptions the
  code has (RETR or STOR of a directory, a client gone before it dials, silent errors) written out.
* `ReplyIsListing`: a listing has every entry it should, in order, separated, with one line
  end. The cut of the last separator rests on there being one (`UnderrunOnlyWithoutFiles`:
  always for NLST, which lists `.` and `..`; for LIST only if some type is told to be regular),
  and the bound of the buffer on nothing (`OverrunOnlyWhenLong`).
* `ImplementsReader`: whatever the times of bytes, signals, shutdown and reset, a call of
  `read_line` is one step of `LineReader`: it takes a line, tells the end, or tells an error, which takes the
  line begun with it. `Lossless`: lines that fit come out byte for byte. `CallReturns`:
  a call ends once there is a line end or the end of the stream, interrupted or not.

* `SuccessIsTrue`: what a response of 200 or 201 says is so: the tree holds what was
  sent, what was read is complete, what was deleted is gone; and a PUT or POST is told the body it sent, which a POST that
  has created a file finds behind an empty line of the server's (`Repeats`, from main.c:263). Excepted, being wrong in the code, are `mkdir -p` and
  `rm -f` where they must fail (a file in the way, a directory without write
  permission): the server answers 201 and 200 without looking; and a search that meets a
  file it cannot read answers 200 and finds nothing.
* `EchoTells`: when requests may be cut, a 200 or 201 does not mean that all of the body has arrived, but
  the response repeats what has: if that is the whole body (or the request has none) the
  success is true. `SuccessIsTrue` does not hold there. A client cannot tell for a search.
* `ImplementsStore`: every behaviour, with its kills and cuts, is one of `ResourceStore`: a request is performed
  at most once; it changes one file (its own, or one below its directory), or makes
  directories on its own path, or removes its file; a POST only adds to a file; a refusal changes nothing;
  201 means new and 200 means it was there; the code a client reads is that of its
  request; only a file not yet closed can be cut by a crash, and only at its end.
* `WholeIsUnderstood`, `CutIsLessOrCrash`: the parser, which without its delimiter takes all
  the rest, finds the right fields in every whole request, also with line ends in the
  body; a cut one is either a request for less of the same resource, or leaves
  `strstr` a null pointer, which ends the server. A `recv()` that fails is such a cut: -1 is taken for data.
* `OverrunOnlyByDot`: `path[32]` of GET lacks room for the dot in front of the longest url that httpclient's
  own `url[32]` takes; the other paths fit, also with a random name added.
* `ClobberOnlyAfterRestart`: POST to a directory overwrites a file of the same name
  only after a restart. It rests on `random_string` not repeating itself within a
  process and on names that clients cannot reach: one may be typed, as `src/httpclient/test.in:11` does, but
  `str_tolower` turns the url into another before it is sent. `AllRequests` has such a request.
* `LeakedHaveSentNothing`: the connections the server forgets to close are those of
  rounds, alive or killed, in which no request was ever typed, however late the server has come to them
  and whatever part of a request was on its way; they never see an end of stream.
* `PostIsRefused`: violated. The comment at `src/httpserver/main.c:250` describes the
  failure it means to refuse with a 405; `fclose` of the null pointer comes before.
* `Answered` (in `HttpSystem`), `BacklogMoves`, `LingerEnds`: progress, but for a user who has
  connected and not typed, for lost descriptors, and for forgotten rounds, which wait for ever.

**Bounds and why they suffice.** `MaxCmds` bounds a client's requests, `MaxKills` the kills.
Two clients are the smallest number for which a session follows another's
effects, a second client waits in the backlog, and the data port is shared. Four
requests allow: change directory relatively, remove it, make it again, use it. The
requests of each run are listed in `MCFtp` with the case each is there for. With
`MAX_LENGTH = 3` a line of three bytes is already too long, so that
discarding, and the joining of the next line, happen. For HTTP two rounds let one
request find what another has left, including what a killed server has left half done;
`AllRequests` takes every branch of every
handler, `CutRequests` one of each method on a place where the next request sees what the
last has done. Two rounds in `http_live` are one that is served or forgotten and one that waits for it. In `http_queue`, with
`FdLimit = 2` and three rounds, the server goes on after a first leak, may have a second, and then has one more round
waiting for ever. In `line_io` six bytes are two
buffers, so that a line can be cut and followed by another; in `http_text` the sizes are the code's
and the lengths of a url are a short one and the two at the limit; in `ftp_listing` a name
alone can exceed the buffer, or two together. Client symmetry is used in the safety runs only.

**Deadlock** is not checked: the systems stop when every client is done or dead, and HTTP when the server has ended for the last time,
and when a request has been passed over in silence; what may stop it is stated by `StallOnlyOnSilentErrno` and
the liveness properties instead.

**Fairness** is weak, per process: the server and each client's program are
scheduled whenever they can take a step, and TCP delivers what has been sent (`Network`). Nothing is assumed of users (typing,
connecting, killing).

## 4. Proofs

Each theorem holds for all values of the constants that meet the assumptions stated beside
them, and for no bound but those the runs have too. The runs check the same properties on small instances.

**FTP** (`FtpSystemProofs`, `FtpSessionProofs`), for any set of clients,
names, bytes, tree, requests, bounds and outcome of `fclose(NULL)`:
`NoClient` is no client; `MAX_LENGTH >= 2`; requests are of the type typed by a user and
those that need a path have one; local files have contents; the server starts in
a directory of its tree; `FcloseNull` is a nonempty set of outcomes; bounds are naturals.

* `TypeCorrect` (`[]TypeOK`). `IInv` adds `OpenFileExists`: `Store` appends to a file, so
  it must still be there from one line to the next.
* `WdCorrect` (`[]WdDenotesCwd`). Inductive relative to `IInv`: only `Accept` and `Cwd`
  change a name of the directory (`WdStays`), and both set them together; a `getcwd()`
  that fails leaves the string as it was. `LastPart` says what a relative argument is of the directory it leads to.
* `WdAbsolute` (`[]AbsoluteWd`). `AbsoluteInv` adds that no request on its way has a
  relative `CWD`, and that between sessions the string is absolute or `getcwd()` will succeed;
  `UpChanges` says what any step can do to the requests on their way.
* `PortCorrect` (`[]DataPortMatches`). Nothing in the protocol ties a data connection to
  a request. `PortInv` says why it works: a client has at most one request
  unanswered or one reply unread, never both (`OneAtATime`), and an `OK` not yet acted
  upon means that the server is waiting for exactly that client and request
  (`OkMeansExpected`). Each half needs the other.

* `OwnCorrect` (`[]ReplyIsOwn`), `StallCorrect` (`[]StallOnlyOnSilentErrno`), `BlameCorrect`
  (`[]ServerExitBlame`). `ReplyInv` says for each wait of the server what the two directions of the
  session can hold: its parts bound the request queue (`QueueInv`), tie a transfer to its
  client (`TransferInv`), say of a server that has ended why (`ExitInv`), of a session which replies are due
  (`SessionInv`), and of the pieces on their way that all but the last are notices (`OwnInv`).
  It rests on `PortInv`: that a reply is the right one follows from there being one request at a time.
* `SoFarCorrect` (`[]StoredSoFar`), `StoredCorrect` (`Spec => StoredWhole`), `RetrievedCorrect` (`Spec => RetrievedWhole`). A file on its way is
  cut in two at the beginning of a line: the receiver has what `Read` makes of the first part, and the second is in the
  stream or with the sender (`Moved`). `StoreInv` says so of a STOR from its dial on, of all of the client's file
  or, if the client has been killed, of a first part of it (`Sending`, `MovedCut`), and that the stream
  of a living client ends only when all is sent; `GetInv` of a RETR, and that its client cannot get to anything else meanwhile. Both rest on
  `ReplyInv`: data go to the client being served. `MovedLine` says that one `read_line` moves the cut by a line.
  `Read` defines the reference by the rank of each byte that is kept; that a line more appends what `read_line` hands over
  (`ReadGrows`) is a matter of counting: ranks are distinct and have no gap (`RankProperties`, `RankOnto`).

**Listings** (`FtpListingProofs`), for any finite set of entries, lengths, types and size of the buffer, `.` and
`..` being in every directory and no regular files:

* `TypeCorrect`, `ListingCorrect`, `UnderrunCorrect`, `OverrunCorrect`: all four properties of the run. `IInv` says that
  the text is a name and a separator for each entry promised so far (`Laid`) and `length` the bytes they take.
  `Promised` and `Needed` are recursive functions; that there are such functions is `RecursionExists`, and what
  they yield is proved by induction over a set of numbers (`UpTo`, from the library's `WFMin`).

**`read_line`** (`LineIOProofs`), for any bytes, any `MAX_LENGTH >= 2` and any bounds:

* `TypeCorrect` (`[]TypeOK`): `totRead` stays below `MAX_LENGTH`, and the buffer has that
  many bytes. `IInv` adds `CallInv`: the buffer holds what is to be handed over of the bytes
  read, none of which but the latest ends the line; an end or a reset is told of an empty stream.
* `ReaderCorrect` (`Spec => ImplementsReader`): under that invariant each step maps to a
  step of `LineReader` or to none (`NextReader`). `HandedNext` says that a byte is handed
  over exactly while the buffer has room, `TakenOff` what a line leaves in the stream.
* `LosslessCorrect` (`[]Lossless`): `Kept` says of the bytes behind a line that they begin the next one.

**HTTP** (`HttpSystemProofs`, `HttpReplyProofs`, `HttpRefinementProofs`), for any rounds, tree, requests, names,
permissions, kills, restarts and cuts. Assumed: `NoClient` is no client; a request has a place and a text,
and lowering gives names; a place of the initial tree is a directory or a file, and its root a directory; a file that may not be
opened lies in a directory where it cannot be removed; `Random` is a sequence of names; `FcloseNull`
is a nonempty set of outcomes.

* `TypeCorrect` (`[]TypeOK`), `LeakedCorrect` (`[]LeakedHaveSentNothing`, by `SilentInv`: a round still to be served with nothing
  in its stream has typed nothing). `IInv` says which of the
  server's variables are in use at each wait (`ProcessInv`), that a round is in one place of the backlog at most
  (`QueueInv`), and what the connection of the round being served can hold (`SessionInv`).
* `NamesCorrect` (`DrawnIsNew => (Spec => ClobberOnlyAfterRestart)`): `DrawnIsNew` says that the sequence of names is
  without repetition, that no file of the initial tree has one of them and that nobody can reach one (names are
  drawn with capitals, and clients lower what is typed). `random_string` promises none of it: with 62 characters in 8 places it is
  likely for the few files that a process makes. The invariant says that no file's name is among those still to be drawn.
* `SuccessCorrect` (`~ Cuts => (Spec => []SuccessIsTrue)`) and `EchoCorrect` (`[]EchoTells`). Without
  cuts the server serves the request that was typed (`AskingInv`, `ServingInv`); `ReplyInv`
  says that a success on its way, or not yet sent, was true of the tree when decided. Nobody changes the
  tree in between. With cuts the lines of the response are compared to what was typed.
* `StoreCorrect` (`Spec => ImplementsStore`). `RefInv` adds to the invariants above that a
  file open for writing can be written (`WriteInv`), that files and directories are apart (`TreeInv`), and what a connection holds in each
  phase of its request (`StreamInv`). The server's steps, a crash, and the clients' steps are three lemmas (`ServerRefines`,
  `CrashStep`, `ClientRefines`); most steps leave the view of `ResourceStore` as it is (`SameView`).

**The text of requests** (`HttpTextProofs`), for any requests, their bodies being any sequences of words (line ends and
`q=` among them), any lengths of the url, every cut, and any sizes that leave room for the longest url in `process_request_get`'s
`path`, and for a dot, a name and the zero behind it in the other handlers' (`SizeAssumption`; `url[32]`, `path[32]` and
`path[64]` in the code, and names of 8):

* `TypeCorrect`, `UnderstoodCorrect` (`[]WholeIsUnderstood`), `CutCorrect` (`[]CutIsLessOrCrash`), `OverrunCorrect`
  (`[]OverrunOnlyByDot`): all four properties of the run. `IInv` says of everything that the parser has taken
  off which part `SubSeq` of the written text it is, and that it has met a null pointer only if the cut is in the header.
  What stands at each place of a text is `Shape`, built up line by line as the client does (`LineBehind`, `LineAdded`);
  where a delimiter stands for the first time (`Delimits`) is where `strstr()` stops, or, behind the cut, why it returns null (`Cut`).

**Model-checked only**: the liveness properties (`QuitCompletes`, `TransferEnds`, both `Answered`, `BacklogMoves`,
`LingerEnds`, `CallReturns`), which are out of the prover's reach, and `PostIsRefused`, which is violated. The library's
induction theorems cannot be used with these provers; where induction was needed it is done over sets of numbers
(`UpTo` in `FtpListingProofs`, `Least` in `HttpTextProofs`).

## 5. Abstractions

* Only ftpclient talks to the server: unknown verbs, missing arguments and
  pipelined requests do not occur.
* Clients' own files do not change: a RETR is assumed not to overwrite a file that a
  later STOR sends. What a RETR received is `buf`.
* In the FTP system listings are reduced to whether `opendir()` succeeds; their text,
  with the writes outside of its buffer, is in `FtpListing`.
* Nobody but the server changes its tree. Sockets, `fopen` of existing files and memory do not
  run out.
* httpserver: special files and clients other than httpclient do not occur; a request is
  shorter than the buffer of its `recv`. A listing is the set of names in it, without
  `.` and `..`. A file that may not be opened is in a directory where it cannot be removed,
  and stays so. The pipe that a failing search leaves open is not counted.
* Lengths are modelled for lines, listings and paths only; the other fixed buffers (bodies, responses,
  command words) are taken to be large enough.
* `FtpListing` and `HttpText` are checked on their own and connected to the systems by their results:
  `ListReply` is one line, `Heads` and `Torn` are what `CutIsLessOrCrash` allows.
* `connect` refused is a step that changes nothing.
* End of input on the client's stdin (it repeats its last command) is not
  modelled beyond users being free to repeat themselves.

## 6. Plan

1. *Done*: the FTP programs, their safety and progress; types, working directory and data
   port proved. The HTTP programs, their safety and progress. `read_line` and its abstract
   reader, with the refinement proved; listings; the text of requests, requests in two segments; `ResourceStore`.
2. *Done*: proofs about replies, silence and the server's end of FTP; `Lossless`; types, descriptors, names and successes of HTTP;
   `HttpSystem` implements `ResourceStore`.
3. *Done*: proofs: `StoredWhole`, `StoredSoFar`, `RetrievedWhole`; the text of listings and of requests. Every invariant, action property
   and refinement that a passing run checks is now a theorem.

## 7. Not modelled

* A store with atomic STOR for the FTP programs: whether a transfer will be whole is decided
  by a client that may be killed after the file has been emptied, so that no function of the
  state says when it takes effect; `StoredWhole` says what can be said of the end of a transfer.
* The end of the input of ftpclient: `scanf` then leaves the last command in place for ever. Requests
  carry a number in the model, which bounds their repetition.
* Requests that ftpclient does not send (a missing argument, an unknown verb): only ftpclient talks to ftpserver.
* `read_line` returning -1 to STOR and RETR: their data connections are never reset, since
  neither side closes one with bytes unread that the other waits for.
* What is only printed (`pretty_print`, `tostring_response`), argument parsing, socket options.
