-------------------------- MODULE SocketOwnership --------------------------
(***************************************************************************)
(* class Socket of src/socket.cpp: an object that owns at most one         *)
(* descriptor.  Each operation is given by what it does to the two things  *)
(* that a caller can tell apart: the descriptors that it closes, and the   *)
(* descriptor that the object holds afterwards.                            *)
(***************************************************************************)
EXTENDS Integers

NoFd == 0     \* invalid_fd

valid(fd) == fd # NoFd

\* reset(new_fd) closes what the object held, unless that is new_fd itself.
ClosedByReset(fd, new_fd) == {f \in {fd} : valid(f) /\ f # new_fd}

\* ~Socket() is reset().
ClosedByDestructor(fd) == ClosedByReset(fd, NoFd)

\* A moved-from Socket is empty: its destructor closes nothing.
KeepsItsFd(fd) == fd
MovedFrom(fd)  == NoFd

\* Move assignment: reset(), and then the other's descriptor is taken over.
ClosedByAssignment(fd) == ClosedByReset(fd, NoFd)
=============================================================================
