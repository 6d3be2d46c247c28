-------------------------------- MODULE Irc --------------------------------
(***************************************************************************)
(* The irc client (pus/app/irc/irc.cpp): the application's thread connects *)
(* and waits for two threads of its own, one that reads the server and one *)
(* that reads the console, and then shuts down and deletes the object all  *)
(* three share.  /quit shuts down too, from the console's thread.          *)
(*                                                                         *)
(* lock_ protects what is written and sock_, except that the reader takes  *)
(* sock_ without it.  The TCP stack refuses a null socket; a read of one   *)
(* that has been closed delivers what had arrived and then fails.          *)
(***************************************************************************)
EXTENDS Naturals

CONSTANTS
    LineSize,       \* sizeof(line) in read_loop (1024)
    ConsoleSize,    \* sizeof(line) in console_thread_worker (256)
    MaxChars        \* bound: characters the server sends

ASSUME SizesAssumption == LineSize \in Nat \ {0} /\ ConsoleSize \in Nat \ {0}
ASSUME MaxCharsAssumption == MaxChars \in Nat

Free == "free"

VARIABLES
    app,        \* where irc_app_entry is
    console,    \* where console_thread_worker is
    reader,     \* where read_loop is
    lock,       \* lock_: Free, or the thread that holds it across steps
    sock,       \* sock_: is it set?
    conn,       \* the connection: "none", "open", "dropped" by the server, "closed"
    state,      \* state_
    consolePos, \* characters on the console's line
    pos,        \* characters on the reader's line
    chars,      \* characters the server has sent
    quit,       \* history: has QUIT been sent?
    late,       \* history: has anything been sent after QUIT?
    deleted,    \* has the object been deleted?
    overrun     \* has read_loop written past its line?

line == <<pos, chars, overrun>>
wire == <<quit, late>>
vars == <<app, console, reader, lock, sock, conn, state, consolePos, line, wire, deleted>>

Init ==
    /\ app = "connect"
    /\ console = "none"
    /\ reader = "none"
    /\ lock = Free
    /\ sock = FALSE
    /\ conn = "none"
    /\ state = "INITIAL"
    /\ consolePos = 0
    /\ pos = 0
    /\ chars = 0
    /\ quit = FALSE
    /\ late = FALSE
    /\ deleted = FALSE
    /\ overrun = FALSE

\* Would tcp_write take what it is given?
Writable == sock /\ conn = "open"

\* tcp_write of anything but QUIT
Write == late' = (late \/ (Writable /\ quit)) /\ UNCHANGED quit

-----------------------------------------------------------------------------
(* irc_app_entry.                                                          *)

Connect ==
    /\ app = "connect"
    /\ sock' = TRUE
    /\ conn' = "open"
    /\ state' = "CONNECTED"
    /\ app' = "handshake"
    /\ UNCHANGED <<console, reader, lock, consolePos, line, wire, deleted>>

ConnectFails ==
    /\ app = "connect"
    /\ app' = "shutdown"
    /\ UNCHANGED <<console, reader, lock, sock, conn, state, consolePos, line, wire, deleted>>

\* USER, NICK and JOIN are sent
Handshake ==
    /\ app = "handshake"
    /\ conn = "open"
    /\ state' = "HANDSHOOK"
    /\ app' = "startConsole"
    /\ UNCHANGED <<console, reader, lock, sock, conn, consolePos, line, wire, deleted>>

HandshakeFails ==
    /\ app = "handshake"
    /\ app' = "shutdown"
    /\ UNCHANGED <<console, reader, lock, sock, conn, state, consolePos, line, wire, deleted>>

StartConsole ==
    /\ app = "startConsole"
    /\ console' = "getchar"
    /\ app' = "startReader"
    /\ UNCHANGED <<reader, lock, sock, conn, state, consolePos, line, wire, deleted>>

StartReader ==
    /\ app = "startReader"
    /\ reader' = "read"
    /\ app' = "joinReader"
    /\ UNCHANGED <<console, lock, sock, conn, state, consolePos, line, wire, deleted>>

\* Mistake: only one of the two threads is waited for.
JoinReaderOnly ==
    /\ app = "joinReader"
    /\ reader = "done"
    /\ app' = "shutdown"
    /\ UNCHANGED <<console, reader, lock, sock, conn, state, consolePos, line, wire, deleted>>

JoinReader ==
    /\ app = "joinReader"
    /\ reader = "done"
    /\ app' = "joinConsole"
    /\ UNCHANGED <<console, reader, lock, sock, conn, state, consolePos, line, wire, deleted>>

JoinConsole ==
    /\ app = "joinConsole"
    /\ console = "done"
    /\ app' = "shutdown"
    /\ UNCHANGED <<console, reader, lock, sock, conn, state, consolePos, line, wire, deleted>>

\* cleanup, after its shutdown
Delete ==
    /\ app = "delete"
    /\ deleted' = TRUE
    /\ app' = "ended"
    /\ UNCHANGED <<console, reader, lock, sock, conn, state, consolePos, line, wire>>

-----------------------------------------------------------------------------
(* shutdown(), called by the application's and the console's thread.       *)

At(t, l) == IF t = "app" THEN app = l ELSE console = l

\* The caller goes to label l.
Goto(t, l) ==
    /\ app' = IF t = "app" THEN l ELSE app
    /\ console' = IF t = "console" THEN l ELSE console

\* Where the caller is when shutdown has returned.
Returned(t) == IF t = "app" THEN "delete" ELSE "done"

\* The lock is taken and there is no socket.
ShutdownNothing(t) ==
    /\ At(t, "shutdown") /\ lock = Free
    /\ ~sock
    /\ Goto(t, Returned(t))
    /\ UNCHANGED <<reader, lock, sock, conn, state, consolePos, line, wire, deleted>>

\* Mistake: the lock is not held while the socket is flushed.
ShutdownQuitUnlocked(t) ==
    /\ At(t, "shutdown") /\ lock = Free
    /\ sock /\ state = "HANDSHOOK"
    /\ quit' = (quit \/ Writable)
    /\ late' = (late \/ (Writable /\ quit))
    /\ Goto(t, "flush")
    /\ UNCHANGED <<reader, lock, sock, conn, state, consolePos, line, deleted>>

\* The lock is taken and QUIT sent; the thread sleeps a second.
ShutdownQuit(t) ==
    /\ At(t, "shutdown") /\ lock = Free
    /\ sock /\ state = "HANDSHOOK"
    /\ lock' = t
    /\ quit' = (quit \/ Writable)
    /\ late' = (late \/ (Writable /\ quit))
    /\ Goto(t, "flush")
    /\ UNCHANGED <<reader, sock, conn, state, consolePos, line, deleted>>

\* The lock is taken; there was no handshake and there is nobody to tell.
ShutdownSilent(t) ==
    /\ At(t, "shutdown") /\ lock = Free
    /\ sock /\ state # "HANDSHOOK"
    /\ lock' = t
    /\ Goto(t, "flush")
    /\ UNCHANGED <<reader, sock, conn, state, consolePos, line, wire, deleted>>

\* tcp_close(sock_)
ShutdownClose(t) ==
    /\ At(t, "flush")
    /\ conn' = "closed"
    /\ Goto(t, "forget")
    /\ UNCHANGED <<reader, lock, sock, state, consolePos, line, wire, deleted>>

\* Mistake: the socket is closed and not forgotten.
ShutdownRemembers(t) ==
    /\ At(t, "forget")
    /\ lock' = Free
    /\ Goto(t, Returned(t))
    /\ UNCHANGED <<reader, sock, conn, state, consolePos, line, wire, deleted>>

\* sock_ = nullptr, and the lock is released.
ShutdownForget(t) ==
    /\ At(t, "forget")
    /\ sock' = FALSE
    /\ lock' = Free
    /\ Goto(t, Returned(t))
    /\ UNCHANGED <<reader, conn, state, consolePos, line, wire, deleted>>

Shutdown(t) ==
    \/ ShutdownNothing(t) \/ ShutdownQuit(t) \/ ShutdownSilent(t)
    \/ ShutdownClose(t) \/ ShutdownForget(t)

-----------------------------------------------------------------------------
(* read_loop.                                                              *)

ReaderUnchanged == UNCHANGED <<app, console, lock, sock, conn, state, consolePos, deleted>>

\* tcp_read of a socket, which blocks, or of the null pointer, which fails
ReadBegin ==
    /\ reader = "read"
    /\ reader' = IF sock THEN "blocked" ELSE "done"
    /\ UNCHANGED <<line, wire>> /\ ReaderUnchanged

\* Mistake: the reader stays blocked on a socket this side has closed.
ReadMissesClose ==
    /\ reader = "blocked"
    /\ conn = "dropped"
    /\ reader' = "done"
    /\ UNCHANGED <<line, wire>> /\ ReaderUnchanged

\* tcp_read fails or returns nothing: the connection has ended on either side.
ReadFails ==
    /\ reader = "blocked"
    /\ conn # "open"
    /\ reader' = "done"
    /\ UNCHANGED <<line, wire>> /\ ReaderUnchanged

\* A carriage return, which is dropped.
ReadReturn ==
    /\ reader = "blocked"
    /\ chars < MaxChars
    /\ chars' = chars + 1
    /\ reader' = "read"
    /\ UNCHANGED <<pos, overrun, wire>> /\ ReaderUnchanged

\* Any other character but the newline is stored.
ReadChar ==
    /\ reader = "blocked"
    /\ chars < MaxChars
    /\ chars' = chars + 1
    /\ overrun' = (pos >= LineSize)
    /\ pos' = pos + 1
    /\ reader' = "read"
    /\ UNCHANGED wire /\ ReaderUnchanged

\* The newline and the zero behind it are stored: a line is complete.
ReadNewline ==
    /\ reader = "blocked"
    /\ chars < MaxChars
    /\ chars' = chars + 1
    /\ overrun' = (pos + 1 >= LineSize)
    /\ pos' = 0
    /\ reader' \in {"ping", "print"}
    /\ UNCHANGED wire /\ ReaderUnchanged

\* Under the lock a PING is answered, whether or not there still is a socket.
Pong ==
    /\ reader = "ping" /\ lock = Free
    /\ Write
    /\ reader' = "read"
    /\ UNCHANGED line /\ ReaderUnchanged

\* Under the lock any other line is printed.
PrintLine ==
    /\ reader = "print" /\ lock = Free
    /\ reader' = "read"
    /\ UNCHANGED <<line, wire>> /\ ReaderUnchanged

Reader ==
    \/ ReadBegin \/ ReadFails \/ ReadReturn \/ ReadChar \/ ReadNewline \/ Pong \/ PrintLine

-----------------------------------------------------------------------------
(* console_thread_worker.                                                  *)

ConsoleUnchanged == UNCHANGED <<app, reader, lock, sock, conn, state, line, deleted>>

\* A full line is discarded before the next character is looked at.
Kept == IF consolePos = ConsoleSize THEN 0 ELSE consolePos

Type ==
    /\ console = "getchar"
    /\ consolePos' = Kept + 1
    /\ UNCHANGED <<console, wire>> /\ ConsoleUnchanged

Backspace ==
    /\ console = "getchar"
    /\ consolePos' = IF Kept > 0 THEN Kept - 1 ELSE 0
    /\ UNCHANGED <<console, wire>> /\ ConsoleUnchanged

\* Return: an empty line and a bad command are ignored; /quit shuts down;
\* anything else is to be sent.
Enter ==
    /\ console = "getchar"
    /\ console' \in IF Kept > 0 THEN {"getchar", "shutdown", "say"} ELSE {"getchar"}
    /\ consolePos' = 0
    /\ UNCHANGED wire /\ ConsoleUnchanged

\* Under the lock the line is sent.
Say ==
    /\ console = "say" /\ lock = Free
    /\ Writable
    /\ Write
    /\ console' = "getchar"
    /\ UNCHANGED consolePos /\ ConsoleUnchanged

\* tcp_write refuses the line and the thread ends.
SayFails ==
    /\ console = "say" /\ lock = Free
    /\ ~Writable
    /\ console' = "done"
    /\ UNCHANGED <<consolePos, wire>> /\ ConsoleUnchanged

\* getchar has nothing more to give.
ConsoleEnds ==
    /\ console = "getchar"
    /\ console' = "done"
    /\ UNCHANGED <<consolePos, wire>> /\ ConsoleUnchanged

-----------------------------------------------------------------------------

\* The server ends the connection.
Drop ==
    /\ conn = "open"
    /\ conn' = "dropped"
    /\ UNCHANGED <<app, console, reader, lock, sock, state, consolePos, line, wire, deleted>>

AppStep ==
    \/ Connect \/ ConnectFails \/ Handshake \/ HandshakeFails \/ StartConsole
    \/ StartReader \/ JoinReader \/ JoinConsole \/ Delete \/ Shutdown("app")

ConsoleStep == Say \/ SayFails \/ Shutdown("console")

Next ==
    /\ ~overrun
    /\ \/ AppStep
       \/ ConsoleStep
       \/ Type \/ Backspace \/ Enter \/ ConsoleEnds
       \/ Reader
       \/ Drop

(* Every thread that can go on does; what the user types and what the server *)
(* sends is up to them.                                                      *)
Fairness ==
    /\ WF_vars(~overrun /\ AppStep)
    /\ WF_vars(~overrun /\ ConsoleStep)
    /\ WF_vars(~overrun /\ (ReadBegin \/ ReadFails \/ Pong \/ PrintLine))

Spec == Init /\ [][Next]_vars /\ Fairness

-----------------------------------------------------------------------------
(* Properties.                                                             *)

Shutting == {"shutdown", "flush", "forget"}

\* Every variable has its type, and the console's line is never written past.
TypeOK ==
    /\ app \in {"connect", "handshake", "startConsole", "startReader", "joinReader",
                "joinConsole", "delete", "ended"} \cup Shutting
    /\ console \in {"none", "getchar", "say", "done"} \cup Shutting
    /\ reader \in {"none", "read", "blocked", "ping", "print", "done"}
    /\ lock \in {Free, "app", "console"}
    /\ sock \in BOOLEAN
    /\ conn \in {"none", "open", "dropped", "closed"}
    /\ state \in {"INITIAL", "CONNECTED", "HANDSHOOK"}
    /\ consolePos \in 0 .. ConsoleSize
    /\ pos \in Nat
    /\ chars \in Nat
    /\ quit \in BOOLEAN
    /\ late \in BOOLEAN
    /\ deleted \in BOOLEAN
    /\ overrun \in BOOLEAN

(***************************************************************************)
(* QUIT is the last thing the server hears, and it hears it once: no PONG  *)
(* and no line typed gets in between QUIT and the closing of the socket,   *)
(* although a second passes, and the second shutdown finds nothing to do.  *)
(***************************************************************************)
QuitIsLast == ~late

(***************************************************************************)
(* Whoever gets the lock finds in sock_ the null pointer or a socket that  *)
(* this side has not closed.                                               *)
(***************************************************************************)
SockIsLive == lock = Free /\ sock => conn \in {"open", "dropped"}

(***************************************************************************)
(* The object is deleted last: nobody is inside it or can still enter it,  *)
(* and the connection is not left open behind it, on whichever path the    *)
(* application got there.                                                  *)
(***************************************************************************)
DeletedLast ==
    deleted => /\ console \in {"none", "done"}
               /\ reader \in {"none", "done"}
               /\ lock = Free
               /\ ~sock /\ conn \in {"none", "closed"}

(***************************************************************************)
(* /quit ends the application, and so does the server's hanging up, once   *)
(* the console too has come to its end: the reader does not stay blocked   *)
(* on a connection that is gone, and it and shutdown do not wait for each  *)
(* other.                                                                  *)
(***************************************************************************)
Ends ==
    (console = "shutdown" \/ (conn = "dropped" /\ console = "done"))
        ~> (app = "ended" \/ overrun)

-----------------------------------------------------------------------------
(* The inductive invariant behind QuitIsLast, SockIsLive and DeletedLast.  *)

Callers == {"app", "console"}

\* Inside shutdown, behind the lock.
Holding(t) == At(t, "flush") \/ At(t, "forget")

\* The lock is held across steps by the thread inside shutdown, and only there.
LockHeld == \A t \in Callers : lock = t <=> Holding(t)

\* The application's two threads live between their creation and their joins.
ThreadsInPlace ==
    /\ app \in {"connect", "handshake", "startConsole"} => console = "none"
    /\ app \in {"connect", "handshake", "startConsole", "startReader"} => reader = "none"
    /\ app \in {"joinConsole", "delete", "ended"} \cup Shutting => reader \in {"none", "done"}
    /\ app \in {"delete", "ended"} \cup Shutting => console \in {"none", "done"}

\* sock_ and the connection go together, except between tcp_close and the
\* assignment behind it.
SockInStep ==
    /\ app = "connect" => ~sock
    /\ app \in {"delete", "ended"} => ~sock
    /\ sock = FALSE => conn \in {"none", "closed"}
    /\ \A t \in Callers : At(t, "flush") => sock /\ conn \in {"open", "dropped"}
    /\ \A t \in Callers : At(t, "forget") => conn = "closed"
    /\ sock /\ conn \notin {"open", "dropped"} => \E t \in Callers : At(t, "forget")

\* Behind QUIT there is the one who sent it, with the lock, and then no socket.
QuitHolds ==
    /\ quit => lock # Free \/ ~sock
    /\ app = "connect" => ~quit

DeletedAtEnd == deleted => app = "ended"

IndInv ==
    TypeOK /\ LockHeld /\ ThreadsInPlace /\ SockInStep /\ QuitHolds /\ QuitIsLast /\ DeletedAtEnd
=============================================================================
