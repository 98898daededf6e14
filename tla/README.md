# Verification of the chat server with database authentication

This directory models the program in `src/` (a Winsock chat server, its room
registry, its connection framing, the MySQL helper and the password hash behind
`/create` and `/auth`, and the client it serves) in TLA+, checks it with TLC on small instances, and proves the facts
the rest stands on with TLAPS for every value of the constants.

## 1. The system

| Component | Source | State it keeps | Operations |
|---|---|---|---|
| Main loop and client table | `ChatServer/server_main.cpp` | `ClientArray`, `TotalClients`, `ReadSet`, one `ChatClientInfo` per connection | select, accept, the receive loop, `AddClient`, `RemoveCient`, sends, broadcasts, one handler per command |
| Room registry | `ChatServer/ChatProgram.cpp` | `m_ChatRooms`: name to vector of client pointers | `JoinRoom`, `LeaveRoom`, `GetClientsInRoom`; rooms are created by the first join |
| Framing | the recv branch of `server_main.cpp`, the reset in `ParseMessageFromClient`, `ParseAndSendMessage` in the client | a 512-byte buffer, `bytesRECV`, `packetLength` | collect bytes, parse when the count equals the length |
| Database helper | `ChatServer/DBHelper.cpp`, `authenticationservice.sql`, `queries.sql` | `m_IsConnected`; tables `web_auth` and `user` with one AUTO_INCREMENT counter each | `CreateAccount`, `AuthenticateAccount`, `GetAccountCreationDate`, `Connect` |
| Start-up | `main` in `server_main.cpp:311-431`, `DBHelper::Connect` | what was taken from the system | seven calls, each with a handler that gives back what was taken |
| Chat client | `ChatClient/client_main.cpp` | its socket, one line of input, a receive buffer | connect to the first address that answers, then one recv and one key per turn; disconnect |
| Byte buffer | `Buffer.cpp` (one copy in each program) | bytes, a read and a write index | little-endian integers, strings, growth |
| Password hashing | `bcrypt.cpp`, `blowfish.cpp`, the salt in `DBHelper.cpp:69-85` | a context of subkeys and S-boxes; columns `salt` and `hashed_password` | hash, check, base64; encipher and decipher blocks, ecb and cbc |
| Connector headers | `dev/` | none | vendored |

The server is one thread.  It interacts with the clients over TCP only, calls
the registry and the helper synchronously from `ParseMessageFromClient`, and
shares with the registry the `ChatClientInfo` pointers of its clients.  What
makes it hard is around the thread, not in it: connections open, send, close
and break between any two of its steps; TCP cuts and joins frames; the
operating system reuses SOCKET values; every statement of the helper is its
own transaction and may fail, or take effect with its answer lost; and the
table of clients is changed by the loop that walks over it.

What makes each component correct:

* *client table*: every slot holds a client whose socket is open and its own;
  nothing open is forgotten; every client is watched, served and removed.
* *registry*: nobody is twice in a room; the order of joining is kept.
* *rooms as the users see them*: what is said goes to exactly the members.
* *framing*: the commands executed are the commands sent, whole and in order,
  and all of them, and no byte lands outside the buffer.
* *start-up*: whichever call fails, what was taken is given back, and a loop is
  entered only with everything it needs.
* *client*: it prints what the server sent, whole and in order, sends what the
  user meant in frames the server finds the end of, and ends when its user or a
  reset of its connection tells it to.
* *hashing*: the password of an account is accepted, another only if bcrypt
  cannot tell them apart; what is enciphered can be deciphered.
* *accounts*: an account is added once and keeps its password; answers are
  true; a login reads and writes the rows of its own account.

`PROJECT.json` lists the hazards line by line with the properties that cover
them.

## 2. The modules

| Module | Models | Lives in |
|---|---|---|
| `ChatProgram` | the registry; a component with its own `Spec`, instantiated by `ChatServer` as `g_ChatProgram` | `ChatProgram.cpp` |
| `FrameSession` | `bytesRECV` and `packetLength` of one connection; used by the next two | `server_main.cpp:503-530, 306-307` |
| `StreamFraming` | one connection byte by byte, with the buffer | the same, and `client_main.cpp:256-315` |
| `ChatServer` | the main loop with its clients, sockets and commands | `server_main.cpp` |
| `RoomService` | abstract: users in rooms, messages delivered in one step | |
| `AccountStore` | the helper, one SQL statement per step, and the two tables | `DBHelper.cpp`, the `.sql` files |
| `AccountRegistry` | abstract: accounts added once, truthful answers | |
| `WireBuffer` | `Buffer` as functions of a record | `Buffer.cpp` (both) |
| `WireProtocol` | from a typed line to a frame and from a frame to the arguments of a handler; the same for replies | `client_main.cpp:205-315`, `server_main.cpp:78-95, 172-304` |
| `ServerStartup` | the server's calls before its loop | `server_main.cpp:311-431`, `DBHelper.cpp:285-309` |
| `ChatClient` | the client: `Initialize`, its loop, `Disconnect` | `client_main.cpp` |
| `ChatSession` | composes the two with a connection between them | |
| `Blowfish` | the cipher and its key schedule as functions | `blowfish.cpp` |
| `Bcrypt` | base64, the hash and its check over `Blowfish` | `bcrypt.cpp` |
| `PasswordHash` | one account: its salt, its hash and an attempt to log in | `DBHelper.cpp:67-94, 209-216` |
| `BlockCipher` | a buffer enciphered and deciphered in place | the functions of `blf.h` |
| `MCChatServer`, `MCAccountStore`, `MCChatSession`, `MCHashing` | sets of commands and lines, the symmetry, the database dump, small tables and salts for TLC | |
| `SequenceLemmas` | lemmas the proofs share: rosters without repetitions, functions defined by iteration | |
| `ChatProgramProofs`, `ChatServerProofs`, `ChatRoomProofs`, `StreamFramingProofs`, `AccountStoreProofs` | proofs about the module of the same name; `ChatRoomProofs` about rooms as `ChatServer` uses them | |
| `ChatSessionProofs` | proofs about `ChatSession`, and about the `WireBuffer` and the `WireProtocol` it is built on | |
| `HashingProofs` | proofs about `Blowfish`, `BlockCipher`, `Bcrypt` and `PasswordHash` | |

### ChatServer

`pc` is the place in the loop: `select` (lines 442-463), `accept` (465-489),
`recv` (491-539, at index `i`), `exited` after main returned or an exception
left it, and `undefined` after a write behind `ClientArray`.  One step is one
system call with all that follows from it up to the next one: `RecvFrame`
receives, parses, changes the rooms and sends every message of the command.
`out` holds the messages of the last step in the order of sending; each is
addressed to the connection that owns the SOCKET value *at that moment*, which
is how the model sees a message sent to a stale value.

* `Watched` is the fd_set after the FD_SET calls: the listening socket first,
  then clients until the set is full.
* `AddClient` writes at `TotalClients` without a bounds check; `RemoveCient`
  closes, shifts and decrements, reading one slot too far when the array is
  full (`Stray`), and leaves the `ChatClientInfo` in its rooms.
* After `RemoveCient` the loop goes on at `i + 1`, so the client that moved into
  the slot is skipped for this round.
* `Readable`, `FreeHandles`, `LostSets` and `Break` are the operating system,
  modelled from how the code uses it.
* All commands have the same length here; lengths and bytes are `StreamFraming`.
  The account commands only choose the text of one reply; their effects are
  `AccountStore`.
* `taken` is how many bytes of a connection's commands were received, the
  session's `bytesRECV` how many the server counts.  They part when `recv` fails
  with `WSAEWOULDBLOCK` (`RecvNothing`: -1 is added and the connection goes on).
  From then on (`Displaced`) bytes are in the wrong place: the length may be read
  as any number, the frame may be executed as any command, and if the count is
  -1, the next byte is written in front of the buffer (`RecvOutside`, which ends
  the model in `undefined`).

### StreamFraming

A byte is a pair of a command's number and an offset, so that a byte that is
stale or of another frame can be told apart.  `Recv(n)` takes any number of
bytes, writes them at `bytesRECV`, and parses if `FrameComplete` holds.  The
length field read from bytes of different origin may have any value
(`Headers`), and bytes outside the buffer end the behaviour (`defined`).  A
frame's bytes are compared, never computed: endianness and field layout are
abstracted.

`send` may take fewer bytes than it is given, and `recv` may find nothing at
any time, also in the middle of a frame whose rest is in flight, in which case
-1 is added to the count; `trouble` records that one of the two happened.  From
there on a byte is missing or in the wrong place for good, commands are neither
executed nor read right, and no property but `TypeOK` claims they are.

`Pipeline` is how many commands the client may send without waiting for the one
before.  The client of this program never waits; what is claimed only until a
command is sent behind one that is not executed (`Ahead`) holds for users who are
slower than the connection.  That is `BufferHoldsPrefix` and `WaitingClientServed`.
`CommandsIntact` is claimed for any number of commands under way: a connection
may stop executing commands, it does not misread them.  `InBounds` says what it
takes for a byte to be received behind the buffer: a second command behind one
not executed, a frame longer than the buffer, or trouble.

### AccountStore

Each statement is a step: `select`, `max`, `insertAuth` and `insertUser` of
`CreateAccount`; `email`, `hash`, `salt`, `id` and `update` of
`AuthenticateAccount`; `idAgain` and `date` of `GetAccountCreationDate`.  The
faults are: a statement refused; a statement executed and its answer lost; the
connection broken (it is never made again by the process, and `m_IsConnected`
stays true); a crash and a restart; and the statements of `queries.sql` run by
hand.  Statements inside a handler return an error (`StatementFails`), those
outside every handler end the server (`CallThrows`; in `max` these are
`createStatement` before the handler and `next` and `getInt` behind it).  A password
stands for the bytes bcrypt distinguishes, and a salt with its hash for the
passwords they validate (`Opens`): that of the account, or, after an unlucky draw
of the salt, every password, none, or another one (see `PasswordHash`); dates are replaced by the account
whose insert or login set them (`owner`, `last_login`), which is what the
properties are about.

### WireBuffer and WireProtocol

A `Buffer` is a record of its members and of `inBounds`, which becomes false
when a write passes the end of the vector.  The arithmetic is that of the code:
four bytes, lowest first, a capacity that is doubled once.  A line is a
sequence of symbols (space, command word, character); every symbol is one
byte on the wire, also a command word, which is never sent as text.
The assumptions on the constants: a buffer is longer than a header and its size
is an `int`, as in the code, and a reply's frame is no longer than the server's
buffer after one doubling.  The last is a restriction: a reply repeats the name
of the room, which nothing bounds, and a longer one would be written past the
end of the server's buffer, of which nothing can be said.  A reply may be longer
than the client's receive buffer; it is then cut.

### ServerStartup, ChatClient and ChatSession

`serverAt` and `clientAt` name the next system call; `serverHolds` and
`clientHolds` are what the program has taken and not given back.  Every call
may fail, and the handlers release what the code's handlers release.  The
client's `getaddrinfo` result is still held when it gives up, as in the code.
In the loop the client alternates between `receive` (one `recv`) and `keyboard`
(at most one key).  A `recv` returns any number of the bytes in flight, written
at the start of `g_Buffer`, because `bytesRECV` is never changed there; what is
in the buffer is then taken for one message.  `arrival` is history: whether
messages came apart (`separate`), several in one recv (`joined`), or in
pieces (`cut`).  A `recv` may also find nothing while bytes are in flight
(`ReceiveNothing`), and the end of the stream is treated like that, so that a
client whose server is gone polls on.  `popped` and `overrun` are the ends without defined behaviour:
`pop_back` of an empty line, and a field outside its buffer, which
`StaysInBounds` allows in two cases only: after a message was cut, whose length is
then misread, and for a line whose frame is longer than a buffer doubled once.

### Blowfish, Bcrypt, PasswordHash and BlockCipher

A word is the tuple of its four bytes, so that the same definitions run on bytes
of any size: `Radix` is the number of values of two bits (4 in the code), `Xor`
the exclusive or of two bytes, and the tables that hold the digits of Pi in the
code are parameters.  Everything else is the code's: sixteen rounds, eighteen
subkeys, four S-boxes, the order in which the key schedule overwrites the tables
it uses, 64 encipherments, 72 bytes of key.  The overwriting is written as an
iteration over the contexts in between (`expandstate`).  `PasswordHash` draws every salt that
`alphanum[rand() % sizeof(alphanum) - 1]` may draw, the byte before the alphabet
included, and stores it in a CHAR column, which drops spaces at the end.  If that
byte is a NUL it ends bcrypt's key before the password: `OnlySignificantAccepted`
names that salt as its exception, and `AcceptedIsCorrect`, without the exception,
is what the run `null_salt` violates.

## 3. What TLC checks

Passing runs:

| Run | Instance | Shows |
|---|---|---|
| `rooms` | 3 connections, 1 room, all room commands | `RosterUnique`, `OrderStable`, `OnlyMembersHear`, `NoDoubleDelivery`, and that the server implements `RoomService` |
| `table` | 4 connections, 3 slots, reused SOCKET values, resets | `TableOwnsSockets`, `NoSocketLeak` up to and including the full table |
| `liveness` | 2 connections, resets, ioctlsocket, select and send failing, receives without bytes, database exceptions | `CommandsServed`, `ClientsReaped`, `TableOwnsSockets` |
| `framing` | two commands under way, one after the other or at once, frames of different lengths, one longer than the buffer, every way of cutting them, short sends and `WSAEWOULDBLOCK` at any byte | `CommandsIntact`, `BufferHoldsPrefix` and `WaitingClientServed` until trouble, the last two for a client that waits; `InBounds` up to the cases it names, each of which the run reaches |
| `session` | 4 lines, one growing by a symbol beyond what a buffer doubled once holds, 2 messages, one of them longer than the client's buffer, 2 addresses, every call failing, connections ended and reset | `StartupGivesBack`, `LoopsAreReady`; `PrintedInOrder`, `NothingLost`, `MessagesShown` for the arrivals they hold for; `StaysInBounds`: a line that long and a message that was cut lead to an overrun, and nothing else does; `CommandsUnderstood`, `ResetEnds`, `ClientSettles`, `ClientEnds` |
| `hashing` | 5 passwords, 5 keys, 2 bcrypt salts, every salt of 2 bytes | `OwnPasswordAccepted`, `OnlySignificantAccepted`, `SaltSurvives`, `RestoredByItsKey`, `HiddenFromOthers` |
| `accounts` | 3 emails, 2 passwords, all a salt may do, up to 2 faults of any kind | `IdsStayInStep`, `LoginOnOwnRow`, `DateOfOwnRow`, `CommandAnswered`, and that the helper implements `AccountRegistry` |

Runs that end in a violation, each of something the repository says:

| Run | Says | What the code does |
|---|---|---|
| `table_limit` | "Set read notification for each socket." (`server_main.cpp:450`) | the listening socket takes a place in the set, so client number FD_SETSIZE is not watched |
| `stale_socket` | "We also need to cleanup the ClientInfo data" (`server_main.cpp:74`) | a removed client's pointer stays in its rooms; once its SOCKET value is reused, a stranger hears the room |
| `framing_coalesced` | "if the client sends the server ... the server will attempt to add the account" (`README.txt:10-12`) | two frames in one recv: the count passes the length, and the connection is never heard again |
| `null_salt` | "That is the correct password!" (`server_main.cpp:278`) | with a NUL in front of the alphabet, a salt may be drawn that lets every password in |
| `accounts_date` | "Account was created on: " (`server_main.cpp:278`) | after one refused insert the two counters differ, and later logins quote another account's row |

Further disagreements are visible in the models without a run of their own.
`PrintedInOrder` allows gaps and `MessagesShown` asks for messages that arrive
`separate`, because the client drops whatever one `recv` returns behind the
first message; the `trouble` of `StreamFraming` and the space in
`OwnPasswordAccepted` are of this kind, too: each names the case in which the
property would be false.  Another is `WSAEWOULDBLOCK`: the comment at
`server_main.cpp:510` says "We can ignore this, it isn't an actual error.", but -1
was already added to `bytesRECV` (line 504), so that the frame under way is never
complete; `trouble` and `Displaced` except it.  And `AccountRegistry!Reply` has to
allow an internal error that *did* add the account, although the reply says that the server "was unable to add the
account!" (`server_main.cpp:224`).

Bounds.  *Connections*: a broadcast needs a speaker, a member and a bystander
(3); shifting the table needs a removed, a moved and a skipped client, and the
write behind it one more than its slots (4 for 3).  *Rooms*: one, which may
be empty; that rooms are kept apart, and that resets and failing sends change
nothing about who hears them, is what `MembersOnly` proves for any number.  *FrameBytes* is 2 in
`liveness` so that frames arrive in parts, and 1 elsewhere, where parts only
delay.  *Pipeline* is one command in flight, except in
`framing` and `framing_coalesced`; with more, commands are lost as the latter
shows.  In `StreamFraming` the length field is 2 bytes so that it can
be cut itself, and the capacity is one less than the longest frame, so that
both that frame and a byte too many of two others are out of bounds.  *MaxFaults* 2 allows
two faults in a row, of one kind or of two (a restart is no fault); *MaxUsers* 4
is every email once and one row inserted by hand.
In `session` *BufferSize* is 19: the 12 bytes of a header and a short text fit,
and a command with two fields passes the end, so that the vector grows; it
stands for the 512 bytes of a `Buffer` and of DEFAULT_BUFLEN.  *MaxText* 1 (256
in the code) is shorter than a typed text.  Two messages can be joined, and one
of them cut; after a cut, `Receive` takes all that is in flight, because nothing
but types and ends is claimed from there on.  `CommandsUnderstood` is asked of
frames that fit the server's buffer.
In `hashing` a byte has 4 bits (*Radix* 2) and one logarithm of rounds; a salt
of the helper has 2 bytes and one of bcrypt 4, whose characters end inside a
group as the 16 of the code do.  Passwords and keys lie on both sides of the 72
bytes the subkeys take, and some are repetitions of others.  That wrong keys do
not decipher is a fact about the tables used, as it is in the code.
Connections are opened once and not reused; a client that returns is another
connection.  `Symmetry` permutes connections and SOCKET values, in runs without
liveness.  `CHECK_DEADLOCK FALSE` stands where everything may end: all
connections used up, the server gone, the client ended, or a password tried and
a buffer deciphered.

Fairness.  `WF_vars(Server)` in `ChatServer`: the thread waits for nothing but
select, which times out after two seconds.  `WF_vars(Server)` in
`StreamFraming`: select marks a socket while bytes or the end of the stream
wait on it, and the loop receives from every marked socket.  `WF_vars(Helper)`
in `AccountStore`: the thread does nothing else until the command is executed.
`WF_vars(Client)` in `ChatSession`: every call of the client returns (its socket
is non-blocking in the loop, and `connect` succeeds or fails), so its thread
always comes to the next one.  `SF_vars(Arrive)` in `ChatSession`: TCP delivers what is in flight, so a client that calls `recv` in every turn of its
loop is not told each time that there is nothing; weak fairness is not enough
because a turn with a key lies between any two calls.  Users, faults, servers and
the administrator are never assumed to do anything: a client whose user presses
no key goes on by `NoKey`.

## 4. What is proved

`ChatProgramProofs` proves `TypeCorrect` and `RostersUnique` for any set of
clients and rooms.  The registry's invariant is inductive by itself; the work is
in `SequenceLemmas`, which shows that erasing the first occurrence of an element
from a sequence without duplicates leaves one without that element, and that
appending a new element keeps such a sequence.  `OrderIsStable` adds that those
who stay in a room keep their order: of the elements that are left, erasing one
changes no two (`RemoveFirstKeepsOrder`).

`ChatServerProofs` proves, for any connections, slots, commands and faults,
`TypeCorrect` and `TableIsSound` (`TableOwnsSockets`).  Neither is inductive.
The invariant `IInv` adds

* `BacklogFresh`: what waits to be accepted is there once and has no SOCKET
  value yet; otherwise accepting it could put a client twice in the table;
* `RostersSocketed`: whoever is in a room has a SOCKET value, so that every
  send of a broadcast is addressed to one;
* `TableOwnsSockets` itself, which the removal of a client needs: that no
  other slot holds its socket is what makes closing it harmless.

There is one lemma per action, and `StepKeeps` puts them together.  The hardest
is `RecvEndKeeps`: the slots after the removal are the slots before without
index `i`, also when the array is full and the last copy reads behind it.  The
assumptions are those of the module on its constants: the SOCKET values, the
null pointer and the stray pointer are no clients.

`SocketsDoNotLeak` (`NoSocketLeak`: every open socket is a client's in the table)
is proved under `"ioctl" \notin Faults`: when ioctlsocket fails the code keeps the
socket and no client, so the hypothesis is needed.  It takes two more facts:
`OwnersKnow`, that an open socket is the one in the `ChatClientInfo` of its
connection, and `OpenIsLive`, that the owner of such a socket is in the table.
Accepting into a full table ends their scope (`pc` is `undefined`), and a removal
closes a socket with the slot it takes out.

`ChatRoomProofs` proves `RosterIsUnique` (`RosterUnique` of the server, from the
registry's lemmas, without any assumption on sockets), and `MembersOnly` (`OnlyMembersHear`) and `DeliveredOnce`
(`NoDoubleDelivery`), the last two under `~ReuseHandles`: the system does not hand out
a closed SOCKET value again.  Without that assumption `MembersOnly` is false, as the
run `stale_socket` shows, so it is a hypothesis of the theorems and not of the
module.  `OrderIsStable` (`OrderStable` of the server) needs no hypothesis.  A room keeps the clients who are gone, and a broadcast still sends to
their SOCKET values; the invariant `RInv` adds to `IInv` that such a value
stands for its own connection or for none (`OwnSocket`), and that no one is in a
room twice, which comes from the registry's lemmas through the instance
`RoomProofs`.  A departure is the step with most to show: the message to the
leaver and the broadcast to the others go out together, and nobody hears both
because `LeaverIsGone`.

`ServesRooms` is the refinement: under `~ReuseHandles` and `"send" \notin Faults`
the server implements `RoomService`, in which a command and all messages it
causes are one step.  A closed SOCKET value handed out again lets a stranger hear
a room, and a `send` into a full buffer loses a message that the service
delivers, so both hypotheses are needed.  The mapping forgets the clients who are
gone; that the others are those with an open socket is `OpenIsLive` again.  One
lemma per action shows its step of the service or a stutter.

`StreamFramingProofs` proves `TypeCorrect`, and then `StreamIntact`
(`CommandsIntact`) and `StreamInBounds` (`InBounds`) without any hypothesis on the
client, the frames or the faults.  The invariant `Framed` follows the bytes while
there is no trouble: those counted and those in the stream, read as one line of
bytes (`UnderWay`), are the frames not yet executed, one behind the other
(`InLine`).  A connection whose count has passed the length stops for good, which
is the run `framing_coalesced`, but it never executes anything that was not sent;
and what is under way is more than the buffer only if there are two commands or
a frame is too long (`Overfull`).  `WaitingPrefix` (`BufferHoldsPrefix`) is the
case in which only one frame is in that line (`AlonePrefix`).  Once a byte is missing, a frame may be read
from the middle of another, and nothing is proved of that.

`AccountStoreProofs` needs no hypothesis beyond those of the module on its
constants (the accounts of the dump differ, and no null value is a real one).
Its invariant says of the tables that emails and ids identify rows and counters
are ahead of ids (`TableInv`), and of the command under way what it has learnt:
the account it found exists still, the hash and the id it read are those of the
account, and past the check of the password, the password is the account's
(`CommandInv`).  That is what makes statements that are not in one transaction
safe here: nothing is deleted, the columns read do not change, and the server is
the only one to add accounts.  From it follow `TypeCorrect`, `LoginsOnOwnRow`,
`DatesOfOwnRow` and `IdsRemainInStep` (the properties `LoginOnOwnRow`,
`DateOfOwnRow` and `IdsStayInStep`), and `ServesAccounts`, that the helper
implements `AccountRegistry`: one lemma per statement and fault, whether the
answer arrives or not.

`ChatSessionProofs` proves all the safety properties of `ChatSession`, for any
lines, messages and addresses and any sizes the module assumes.

* `StartupIsClean` and `LoopsBeginReady` (`StartupGivesBack`, `LoopsAreReady`):
  `ServerOwes` and `ClientOwes` say what each side holds at each of its calls.
* `NumberSurvives` and `StringSurvives` are about `Buffer` alone: for all numbers
  below 2^32 and all byte strings, at any index and whether the vector grows or
  not, what is written is what is read there, and what was written before is
  untouched (`WriteStores`), as long as the write stays in the vector.  The last
  is a hypothesis because one doubling may be too little.  The reading back of
  whole frames field by field stands on them (`WholeMessageRead` for a reply,
  `CommandRead` for a command).
* `TypeCorrect` (`TypeOK`), with the size of the receive buffer and its indices,
  which every later step relies on, whatever was received into it.
* `ConsoleInOrder` and `ConsoleIsComplete` (`PrintedInOrder`, `NothingLost`).  Neither
  is inductive, because what is printed depends on the bytes in flight.  The
  invariant `Conveyed` adds where they are: of every frame sent, the bytes not
  taken yet are in `toClient`, each in its place (`InFlight`, also after a cut); as
  long as nothing was cut, a number of messages was taken whole (`WholeTaken`); and the messages
  printed are among those taken (`PrintedBefore`), or all of those
  (`AllPrinted`).
* `OnlyLongLinesOverrun` (`StaysInBounds`), for any lines and texts: the client
  comes to an overrun only by a message that was cut, or by a line whose frame
  is longer than twice the first size of a buffer, which `CheckBufferCapacity`
  doubles only once.  `Conveyed` is what bounds the client's reading: as long as
  nothing was cut, the length it believes is one the server wrote.
* `LinesAreUnderstood` (`CommandsUnderstood`): whatever line is typed, if its frame
  fits into the server's buffer, the server's parser finds in it the type, the
  room or email and the rest that the user meant, cut to `MaxText`, and the frame's
  length in front.  It is an action property of the step that presses Enter; the
  invariant `Handed` says of a frame not yet handed to `send` that the line is
  empty again and the length is its own, so that no other step can be that one.

`HashingProofs` proves what must hold of the hashing whatever its tables are:
for any size of a byte, any `Xor` on bytes with `Xor(Xor(a, b), b) = a` and any
contents of the tables.  That covers the code's 256 values of a byte and its
tables, which no run of TLC reaches.

* `DecipherUndoesEncipher` and `DecUndoesEnc`: `Blowfish_decipher` gives back the
  block that `Blowfish_encipher` was given, and `blf_dec` what `blf_enc` was given.  A
  round changes one half of a block by a value that depends on the other half
  alone, so the same round undoes it (`RoundUndone`), whatever `F` computes, as
  long as that is a word (`SumType`, `FType`).  Deciphering runs the rounds
  backwards on swapped halves, which `RoundsUndone` states for two rounds; the
  theorem applies it eight times.
* `CbcDecryptUndoesEncrypt` is the same for a chain of any length, in which every
  block is mixed with the one before while that is still enciphered, and
  `CipherRestores` (`RestoredByItsKey`) puts the modes and the key schedule
  together: keys that give the same 72 bytes give the same words and so the same
  tables (`SameBytesSameWords`, `SameWordsSameTables`).
* `Base64Survives`: what `encode_base64` wrote is what `decode_base64` reads, for any
  number of bytes, also where the last group is cut short.  A group of three
  bytes and one of four characters are the same number in two bases
  (`GroupRestored`).
* `SaltIsKept` (`SaltSurvives`) and `OwnPasswordLogsIn` (`OwnPasswordAccepted`), from the
  invariant `RowOfAccount`, that the row holds what was made of the account's
  password and salts.  The hash is never the answer for a failure, because
  the cost was clamped and a salt just encoded can be decoded (`GeneratedHash`),
  and the check recomputes it from
  the salt it reads back (`OwnHashValidates`).

Two arguments recur.  A recursive function (`expandstate`, the chain of blocks,
`Schedule`, `BytesOf`) has the values its definition says only because there is a
function with those values, and its values have a type only step by step.  Both
are inductions, and the library's induction theorems take an operator as a
parameter, which the provers cannot instantiate.  `SequenceLemmas` therefore
states them with sets, from the least number that would be left out
(`LeastNatural`, `UpTo`): `IterationExists` and `IterationType`.  And a chosen value
that no other alternative contradicts must be shown to be the only one: this
is why `ArrivalOf` chooses with IF and not with a CASE whose guards overlap.

Only model-checked:

* All liveness (`CommandsServed`, `ClientsReaped`, `WaitingClientServed`,
  `CommandAnswered`, `MessagesShown`, `ResetEnds`, `ClientSettles`, `ClientEnds`),
  because the prover does not reach fairness and ENABLED.
* `OnlySignificantAccepted` and `HiddenFromOthers`, because they are not true for
  all tables: that two keys or two passwords do not lead to the same tables or
  the same hash is a fact about the digits of Pi (and, over all passwords, no
  certain one: a hash is shorter than what it is made of).  TLC checks them with
  some fixed tables.

## 5. What is not modelled

* The connector's headers in `src/dev/include`: 17,000 of the repository's 22,500
  lines are vendored declarations (X DevAPI and JDBC) without behaviour of this
  program; `DBHelper.cpp` uses a dozen of their functions, which `AccountStore`
  models from that use.  No faithful model can therefore cover a large share of
  the repository's lines; the program's own sources are covered almost entirely.
* The code behind the server's loop (`server_main.cpp:543-556`), which is never
  reached: the loop has no exit but `return`.
* bcrypt's minor version a, parsing of malformed hashes, and buffers whose length
  is no multiple of 8: the program makes no such hash and no such call.  The
  digits of Pi and the quality of `rand` are data, not behaviour.
* Fields whose lengths do not fit the frame they are in, which the client never
  sends; the server's handling of frames made by other programs.
* What follows a write or a read outside a buffer or the table: the models reach
  it (`undefined`, `defined`, `overrun`) and end there.
* Replies longer than the server's buffer doubled once (`ClientAssumption`).
* Memory: `ChatClientInfo`, statements and result sets are never freed.

## 6. What is left

1. Liveness is checked on small instances only.
2. Frames that the client does not make (lengths that pass the end of the frame,
   text without end) would need a parser modelled over arbitrary bytes, and a
   memory behind the vectors for what it then reads.
3. `ChatServer` counts a frame in `FrameBytes` of one length, `StreamFraming` follows
   the bytes of one connection, and `ChatSession` joins the client with its
   connection, but not with the server's loop.  That the three fit together is
   seen from what they share (`FrameSession` the first two, the server's parser in
   `WireProtocol` the last), and is not a theorem.
