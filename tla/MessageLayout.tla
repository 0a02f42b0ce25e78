--------------------------- MODULE MessageLayout ---------------------------
(***************************************************************************)
(* common/message.h, of which client and server have a copy each: the      *)
(* sizes of the packed structures, and what a fixed field, the byte order  *)
(* and UTF-8 do to what is put into them.                                  *)
(*                                                                         *)
(* A text is taken apart where the field it is meant for ends: its head    *)
(* fits in any case, its tail says what comes then. The same record stands *)
(* for a QString, for its UTF-8 bytes and for the contents of a field.     *)
(***************************************************************************)
EXTENDS Naturals, Sequences

\* Bytes of the fields, and of the structures made of them.
IdSize == 32
NickSize == 64
FileIdSize == 37
UserInfoSize == IdSize + NickSize
FileDataHeaderSize == FileIdSize + 8 + 4

\* The bodies that have one length; a user list and file data have not.
SizeOf ==
  [login           |-> IdSize + NickSize,
   loginResponse   |-> 4 + 128,
   chat            |-> 1 + IdSize + NickSize + IdSize + 8 + 256,
   userListRequest |-> 0,
   logout          |-> 0,
   offer           |-> FileIdSize + IdSize + NickSize + IdSize + 8 + 256,
   offerResponse   |-> FileIdSize + 4 + 64]

MaxBodyLength == 1024 * 1024

----------------------------------------------------------------------------
(* Texts. *)

\* Characters of several bytes, by the first of them: full-width forms share it with U+FFFD.
Wide == {"han", "fullwidth", "U+FFFD"}
firstByte(char) == IF char = "han" THEN "E5" ELSE "EF"

\* What follows the head: nothing; one blank, or a blank and more; a character that does not fit
\* and whatever follows it; more, from the first byte behind the field on; and, in a field only,
\* the first bytes of a character.
Tails == {"end", "blank", "blank and more", "more", "E5", "EF"} \cup Wide

\* strncpy of all but the last byte of a field, into zeros.
strncpy(s) ==
  [s EXCEPT !.tail = CASE @ = "more"           -> "end"
                       [] @ = "blank and more" -> "blank"
                       [] @ \in Wide           -> firstByte(@)
                       [] OTHER                -> @]

\* QString::fromUtf8 shows what is no character as U+FFFD; toStdString loses nothing.
fromUtf8(s) == [s EXCEPT !.tail = IF @ \in {"E5", "EF"} THEN "U+FFFD" ELSE @]

\* QString::trimmed of a text whose head begins and ends with something else than a blank.
trimmed(s) == [s EXCEPT !.tail = IF @ = "blank" THEN "end" ELSE @]

\* The text comes out of its field as it went in.
fits(s) == strncpy(s) = s

\* A file id, a UUID of 36 characters, in a field of so many bytes; Lost when its end is cut off.
Lost == "lost"
fileIdIn(size, fileId) == IF 36 < size THEN fileId ELSE Lost

----------------------------------------------------------------------------
(* Numbers, as the sequence of their bytes; four and two stand for eight and four. *)

htonl(v) == <<v[2], v[1]>>
swap64(v) == htonl(<<v[3], v[4]>>) \o htonl(<<v[1], v[2]>>)

=============================================================================
