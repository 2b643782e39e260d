----------------------------- MODULE Downloads ------------------------------
(***************************************************************************)
(* Downloads and previews, and the passwords in front of them, while the    *)
(* files of FileStorage are trashed, purged and migrated.                   *)
(*                                                                         *)
(* A download asks for the password's session (two SELECTs), reads the row   *)
(* of the file, and opens the object where the row said it is.  The object  *)
(* may have moved on by then.  An object that has been opened is read to    *)
(* its end, whatever becomes of it.  The gallery has a password as well.    *)
(***************************************************************************)
EXTENDS FileStorage

CONSTANTS
  StreamingProfiles,  \* the profiles of telegram-bot-api-file-streaming
  Pages,              \* pages behind a password: the gallery
  Passwords,
  Sessions,           \* rows of sessions with kind = 'guest' (a bound)
  Calls,              \* HTTP calls in progress
  MaxSize,            \* the size of the largest file (a bound)
  TextLimit,          \* the largest text that is previewed: 2 MiB in the code
  DocxLimit           \* the largest DOCX that is previewed: 32 MiB in the code

VARIABLES
  size,     \* files.size
  secret,   \* file_secrets, and the settings guest.<scope>.password_hash
  session,  \* sessions of guests: their scope, and (history) what they showed
  call,     \* every HTTP call: program counter, arguments, local variables
  answer    \* the answer that the last step gave, or NoAnswer

readVars == <<size, secret, session, call, answer>>

Gates == Files \cup Pages

IdleCall == [pc |-> "idle", of |-> None, session |-> None, with |-> None, asked |-> None,
             at |-> None]

NoSession == [scope |-> None, with |-> None, asked |-> None]

NoHeader == [kind |-> "none", start |-> 0, end |-> None]

NoAnswer == [kind |-> "none", of |-> None, session |-> None, asked |-> None, at |-> None,
             header |-> NoHeader, content |-> None, bytes |-> {}, length |-> 0,
             partial |-> FALSE]

DownloadsInit ==
  /\ Init
  /\ size \in [Files -> 0..MaxSize]
  /\ secret = [g \in Gates |-> None]
  /\ session = [s \in Sessions |-> NoSession]
  /\ call = [c \in Calls |-> IdleCall]
  /\ answer = NoAnswer

Goto(c, label) == call' = [call EXCEPT ![c].pc = label]

Ends(c) == call' = [call EXCEPT ![c] = IdleCall]

\* A step of a call that gives no answer yet and leaves the files alone.
Quiet == answer' = NoAnswer /\ UNCHANGED <<vars, size>>

----------------------------------------------------------------------------
(* Passwords.                                                              *)

\* PUT and DELETE of a file's password look at the file first.
StartSet(c, f, password) ==
  /\ call[c].pc = "idle"
  /\ row[f].state = "active"
  /\ call' = [call EXCEPT ![c] = [IdleCall EXCEPT !.pc = "setting", !.of = f, !.with = password]]
  /\ UNCHANGED <<secret, session>> /\ Quiet

StartSetPage(c, page, password) ==
  /\ call[c].pc = "idle"
  /\ call' = [call EXCEPT ![c] =
                [IdleCall EXCEPT !.pc = "setting", !.of = page, !.with = password]]
  /\ UNCHANGED <<secret, session>> /\ Quiet

\* The password is replaced, or deleted when there is no new one.
SetPassword(c) ==
  /\ call[c].pc = "setting"
  /\ secret' = [secret EXCEPT ![call[c].of] = call[c].with]
  /\ Ends(c)
  /\ UNCHANGED session /\ Quiet

\* Verify and Login: the password is read and compared; without one, nothing
\* is asked.
Login(c, g, password) ==
  /\ call[c].pc = "idle"
  /\ secret[g] \in {None, password}
  /\ call' = [call EXCEPT ![c] = [IdleCall EXCEPT !.pc = "opening_session", !.of = g,
                                                  !.with = password, !.asked = secret[g]]]
  /\ UNCHANGED <<secret, session>> /\ Quiet

\* newSession, whatever has become of the password.
OpenSession(c, s) ==
  /\ call[c].pc = "opening_session"
  /\ session[s].scope = None
  /\ session' = [session EXCEPT ![s] =
                   [scope |-> call[c].of, with |-> call[c].with, asked |-> call[c].asked]]
  /\ Ends(c)
  /\ UNCHANGED secret /\ Quiet

\* After a day.
SessionExpires(s) ==
  /\ session[s].scope # None
  /\ session' = [session EXCEPT ![s] = NoSession]
  /\ UNCHANGED <<secret, call>> /\ Quiet

----------------------------------------------------------------------------
(* AuthorizeRequest and scopeActor.                                        *)

\* The administrator is let through at once.
StartAsAdmin(c, f) ==
  /\ call[c].pc = "idle"
  /\ call' = [call EXCEPT ![c] = [IdleCall EXCEPT !.pc = "getting", !.of = f]]
  /\ UNCHANGED <<secret, session>> /\ Quiet

\* SELECT COUNT(*) FROM file_secrets.
StartDownload(c, f) ==
  /\ call[c].pc = "idle"
  /\ call' = [call EXCEPT ![c] =
                [IdleCall EXCEPT !.pc = IF secret[f] = None THEN "getting" ELSE "checking",
                                 !.of = f, !.asked = secret[f]]]
  /\ UNCHANGED <<secret, session>> /\ Quiet

\* A page asks for a session also when it has no password.
StartPage(c, page) ==
  /\ call[c].pc = "idle"
  /\ call' = [call EXCEPT ![c] = [IdleCall EXCEPT !.pc = "checking", !.of = page,
                                                  !.asked = secret[page]]]
  /\ UNCHANGED <<secret, session>> /\ Quiet

\* A bug for TLC to find: any session of a guest will do.
CheckSession_AnyScope(c, s) ==
  /\ call[c].pc = "checking"
  /\ session[s].scope # None
  /\ IF call[c].of \in Pages
       THEN /\ Ends(c)
            /\ answer' = [NoAnswer EXCEPT !.kind = "page", !.of = call[c].of,
                                          !.asked = call[c].asked, !.session = session[s]]
       ELSE /\ call' = [call EXCEPT ![c].pc = "getting", ![c].session = session[s]]
            /\ answer' = NoAnswer
  /\ UNCHANGED <<secret, session, vars, size>>

\* The session of the cookie; the gallery answers, a file has still to be read.
CheckSession(c, s) ==
  /\ call[c].pc = "checking"
  /\ session[s].scope = call[c].of
  /\ IF call[c].of \in Pages
       THEN /\ Ends(c)
            /\ answer' = [NoAnswer EXCEPT !.kind = "page", !.of = call[c].of,
                                          !.asked = call[c].asked, !.session = session[s]]
       ELSE /\ call' = [call EXCEPT ![c].pc = "getting", ![c].session = session[s]]
            /\ answer' = NoAnswer
  /\ UNCHANGED <<secret, session, vars, size>>

\* FileService.Get: what is in the trash or purged is gone.
GetFile(c) ==
  LET f == call[c].of
  IN  /\ call[c].pc = "getting"
      /\ IF row[f].state = "active"
           THEN call' = [call EXCEPT ![c].pc = "opening", ![c].at = At(f)]
           ELSE Ends(c)
      /\ UNCHANGED <<secret, session>> /\ Quiet

\* An error of any kind, or the client hangs up.
CallStops(c) ==
  /\ call[c].pc # "idle"
  /\ Ends(c)
  /\ UNCHANGED <<secret, session>> /\ Quiet

----------------------------------------------------------------------------
(* Serve and Open.                                                         *)

Headers == {NoHeader}
             \cup [kind : {"malformed"}, start : {0}, end : {None}]
             \cup [kind : {"range"}, start : 0..MaxSize, end : (0..MaxSize) \cup {None}]

\* parseRange: one range with a start, within the file.
Parsed(h, n) ==
  CASE h.kind = "none" -> [ok |-> TRUE, whole |-> TRUE, start |-> 0, end |-> 0]
    [] h.kind = "range" /\ h.start < n /\ (h.end = None \/ h.end \in h.start..(n - 1)) ->
         [ok |-> TRUE, whole |-> FALSE, start |-> h.start,
          end |-> IF h.end = None THEN n - 1 ELSE h.end]
    [] OTHER -> [ok |-> FALSE, whole |-> TRUE, start |-> 0, end |-> 0]

Ranged(p) == p \notin StreamingProfiles

\* What can be read when an object of n bytes is opened.
WholeObject(n) == [bytes |-> 0..(n - 1), length |-> n, partial |-> FALSE]

\* A bug for TLC to find: the end of a range is not a part of it.
OpenLocal_EndExcluded(r, n) ==
  IF r.whole THEN WholeObject(n)
  ELSE [bytes |-> r.start..(r.end - 1), length |-> r.end - r.start, partial |-> TRUE]

\* Seek, and a reader of end - start + 1 bytes.
OpenLocal(r, n) ==
  IF r.whole THEN WholeObject(n)
  ELSE LET length == r.end - r.start + 1
       IN  [bytes |-> r.start..(r.start + length - 1), length |-> length, partial |-> TRUE]

\* The Bot API answers 206 with the range that it was asked for; other answers
\* to a range are refused.  The streaming server knows no ranges.
OpenTelegram(r, n) ==
  IF r.whole THEN WholeObject(n)
  ELSE [bytes |-> r.start..r.end, length |-> Cardinality(r.start..r.end), partial |-> TRUE]

Opened(p, r, n) == IF p \in LocalProfiles THEN OpenLocal(r, n) ELSE OpenTelegram(r, n)

Reply(c, kind, h) ==
  [NoAnswer EXCEPT !.kind = kind, !.of = call[c].of, !.session = call[c].session,
                   !.asked = call[c].asked, !.at = call[c].at, !.header = h]

\* The object where the row was when it was read, as the answer to kind.
Served(c, kind, h, r) ==
  LET found == {o \in objects : o.at = call[c].at}
      body == Opened(call[c].at.profile, r, size[call[c].of])
  IN  IF found = {}
        THEN answer' = Reply(c, "missing", h)
        ELSE \E o \in found :
               answer' = [Reply(c, kind, h) EXCEPT
                            !.content = o.content, !.bytes = body.bytes,
                            !.length = body.length, !.partial = body.partial]

\* GET and HEAD of /f/<file>; HEAD is refused where ranges are.
Download(c, head, h) ==
  LET n == size[call[c].of]
      p == call[c].at.profile
  IN  /\ call[c].pc = "opening"
      /\ IF ~ Ranged(p) /\ (head \/ h.kind # "none")
           THEN answer' = Reply(c, "unsupported", h)
           ELSE IF Parsed(h, n).ok
                  THEN Served(c, "served", h, Parsed(h, n))
                  ELSE answer' = Reply(c, "unsatisfiable", h)
      /\ Ends(c)
      /\ UNCHANGED <<secret, session, vars, size>>

\* GET of /p/<file> but of a DOCX: the whole object; a text is read into memory.
Preview(c, text) ==
  /\ call[c].pc = "opening"
  /\ IF text /\ size[call[c].of] > TextLimit
       THEN answer' = Reply(c, "too_large", NoHeader)
       ELSE Served(c, "served", NoHeader, Parsed(NoHeader, size[call[c].of]))
  /\ Ends(c)
  /\ UNCHANGED <<secret, session, vars, size>>

\* GET of /p/<file>, a DOCX: the bytes up to DocxLimit and one more are read, a
\* longer document is refused, and so is what is no archive with a document in it.
\* The answer is the text of the bytes that were read; its length is not modelled.
PreviewDocx(c) ==
  LET found == {o \in objects : o.at = call[c].at}
      read == {i \in 0..(size[call[c].of] - 1) : i <= DocxLimit}
  IN  /\ call[c].pc = "opening"
      /\ \/ /\ found = {}
            /\ answer' = Reply(c, "missing", NoHeader)
         \/ /\ found # {}
            /\ answer' = Reply(c, "no_text", NoHeader)
         \/ /\ DocxLimit \notin read
            /\ \E o \in found :
                 answer' = [Reply(c, "extracted", NoHeader) EXCEPT
                              !.content = o.content, !.bytes = read]
      /\ Ends(c)
      /\ UNCHANGED <<secret, session, vars, size>>

----------------------------------------------------------------------------

\* The steps of FileStorage; the last one of a purge takes the password too.
StorageStep ==
  /\ \/ \E u \in Requests :
          PurgeMark(u) /\ secret' = [secret EXCEPT ![purger[u].file] = None]
     \/ /\ \/ \E f \in Files : DeleteFile(f) \/ RestoreFile(f)
           \/ \E f \in Files, p \in Profiles : Start(f, p)
           \/ \E u \in Requests :
                \/ \E f \in Files : PurgeRead(u, f)
                \/ PurgeDelete(u) \/ PurgeDeleteFails(u) \/ PurgeAbandoned(u)
           \/ Running
        /\ UNCHANGED secret
  /\ answer' = NoAnswer
  /\ UNCHANGED <<size, session, call>>

DownloadsNext ==
  \/ StorageStep
  \/ \E c \in Calls :
       \/ \E f \in Files :
            \/ StartAsAdmin(c, f) \/ StartDownload(c, f)
            \/ \E p \in Passwords \cup {None} : StartSet(c, f, p)
       \/ \E page \in Pages :
            \/ StartPage(c, page)
            \/ \E p \in Passwords \cup {None} : StartSetPage(c, page, p)
       \/ \E g \in Gates, p \in Passwords : Login(c, g, p)
       \/ \E s \in Sessions : OpenSession(c, s) \/ CheckSession(c, s)
       \/ SetPassword(c) \/ GetFile(c) \/ CallStops(c)
       \/ \E head \in BOOLEAN, h \in Headers : Download(c, head, h)
       \/ \E text \in BOOLEAN : Preview(c, text)
       \/ PreviewDocx(c)
  \/ \E s \in Sessions : SessionExpires(s)

DownloadsSpec == DownloadsInit /\ [][DownloadsNext]_<<vars, readVars>>

----------------------------------------------------------------------------
(* Properties.                                                             *)

\* What is served is the asked file's own bytes, exactly those that the header
\* names, and their announced number, also from an object that has been
\* abandoned since the row was read.  The preview of a DOCX is the text of all of
\* the file's own bytes, never of a part of them.
ServedIsExact ==
  LET h == answer.header
      own == 0..(size[answer.of] - 1)
      named == {i \in own : h.kind = "range" => i >= h.start /\ (h.end = None \/ i <= h.end)}
  IN  /\ answer.kind \in {"served", "extracted"} => answer.content = answer.of
      /\ answer.kind = "served" => /\ answer.bytes = named
                                   /\ answer.length = Cardinality(named)
                                   /\ answer.partial <=> h.kind = "range"
      /\ answer.kind = "extracted" => answer.bytes = own

\* A reader that finds no object has read the row before a migration switched
\* it, or a purge has asked for the bytes: nobody else makes readers lose.
MissingIsExplained ==
  answer.kind = "missing" =>
    answer.at # At(answer.of) \/ answer.of \in purgeAsked

\* Who passes a password without being the administrator has a session of that
\* very gate, and opened it with the password that was set then, if one was.
GuestsKnewThePassword ==
  answer.kind \in {"served", "extracted", "page"} /\ answer.asked # None =>
    /\ answer.session # None
    /\ answer.session.scope = answer.of
    /\ answer.session.asked \in {None, answer.session.with}

\* Secrets, sessions and calls have their shape.
DownloadsTypeOK ==
  /\ size \in [Files -> 0..MaxSize]
  /\ secret \in [Gates -> Passwords \cup {None}]
  /\ session \in [Sessions -> [scope : Gates \cup {None}, with : Passwords \cup {None},
                               asked : Passwords \cup {None}]]
  /\ \A c \in Calls :
       /\ call[c].pc \in {"idle", "setting", "opening_session", "checking", "getting", "opening"}
       /\ call[c].of \in Gates \cup {None}
       /\ call[c].pc = "opening" <=> call[c].at # None

=============================================================================
