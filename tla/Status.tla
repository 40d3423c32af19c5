------------------------------- MODULE Status -------------------------------
(***************************************************************************)
(* util/status.h and filesystem/io_error.cpp.                              *)
(*                                                                         *)
(* A Status is its code_ and its msg_, a string it owns, or NoMsg where    *)
(* that pointer is null.  A message stands for the errno that strerror()   *)
(* spells out in it; the context in front of that is left out.             *)
(***************************************************************************)

NoMsg == ""

(* The default constructor, also Status::OK().                             *)
OK == [code |-> "kOK", msg |-> NoMsg]

(* The constructor from a code and a string, and the factories over it.    *)
StatusOf(code, msg) == [code |-> code, msg |-> msg]

NotFound(msg)     == StatusOf("kNotFound", msg)
AlreadyExist(msg) == StatusOf("kAlreadyExist", msg)
IOError(msg)      == StatusOf("kIOError", msg)

Ok(status)         == status.code = "kOK"
IsNotFound(status) == status.code = "kNotFound"

(* The copy constructor makes a message of its own.                        *)
CopyOf(status) == status

(* The copy assignment replaces the message only if the source has one.    *)
CopyAssigned(to, from) ==
  [code |-> from.code, msg |-> IF from.msg = NoMsg THEN to.msg ELSE from.msg]

(* Mutant: the move assignment keeps the old message in the same way.      *)
MovedOver(to, from) == CopyAssigned(to, from)

(* Moving, by constructor or assignment, takes code and message, whatever  *)
(* was there; the source keeps its code and loses its message.             *)
MoveAssigned(to, from) == from
MovedFrom(from)        == [from EXCEPT !.msg = NoMsg]

(* Mutant: the case of ENOENT is missing.                                  *)
IoErrorOfAll(errno) ==
  CASE errno = "0"      -> OK
    [] errno = "EEXIST" -> AlreadyExist(errno)
    [] OTHER            -> IOError(errno)

(* ioError(): errno "0" is no error.                                       *)
IoError(errno) ==
  CASE errno = "0"      -> OK
    [] errno = "ENOENT" -> NotFound(errno)
    [] errno = "EEXIST" -> AlreadyExist(errno)
    [] OTHER            -> IOError(errno)
=============================================================================
