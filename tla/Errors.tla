------------------------------- MODULE Errors -------------------------------
(***************************************************************************)
(* The errors of src/src/errors.ts.  An error is named for its class.      *)
(* What gRPC reports is a status code and a message; castGrpcError makes   *)
(* it one of these, and fault handling goes by isRecoverableError.         *)
(***************************************************************************)
EXTENDS Naturals

\* The messages of etcd that have a class of their own, by their subject.
grpcMessageToError ==
    [ roleExists       |-> "EtcdRoleExistsError",
      userExists       |-> "EtcdUserExistsError",
      roleNotGranted   |-> "EtcdRoleNotGrantedError",
      roleNotFound     |-> "EtcdRoleNotFoundError",
      userNotFound     |-> "EtcdUserNotFoundError",
      authFailed       |-> "EtcdAuthenticationFailedError",
      permissionDenied |-> "EtcdPermissionDeniedError",
      invalidAuthToken |-> "EtcdInvalidAuthTokenError",
      leaseNotFound    |-> "EtcdLeaseInvalidError" ]

\* The classes of gRPC's status codes, from 1.
grpcCodeToError ==
    << "GRPCCancelledError", "GRPCUnknownError", "GRPCInvalidArgumentError",
       "GRPCDeadlineExceededError", "GRPCNotFoundError", "GRPCAlreadyExistsError",
       "EtcdPermissionDeniedError", "GRPCResourceExhastedError",
       "GRPCFailedPreconditionError", "GRPCAbortedError", "GRPCOutOfRangeError",
       "GRPCNotImplementedError", "GRPCInternalError", "GRPCUnavailableError",
       "GRPCDataLossError", "GRPCUnauthenticatedError" >>

\* The classes with a RecoverableError symbol.
Recoverable ==
    { "GRPCInternalError", "GRPCCancelledError", "GRPCUnknownError",
      "GRPCDeadlineExceededError", "GRPCResourceExhastedError", "GRPCAbortedError",
      "GRPCUnavailableError" }

isRecoverableError(e) == e \in Recoverable

\* Seeded bug: the status code, if it has a class, goes before the message.
castByCode(err) ==
    IF err.code \in DOMAIN grpcCodeToError THEN grpcCodeToError[err.code]
    ELSE IF err.text \in DOMAIN grpcMessageToError THEN grpcMessageToError[err.text]
    ELSE IF err.text = "etcdserver" THEN "EtcdError" ELSE "GRPCGenericError"

\* An untyped error gets its class from its message, or else from its code.
\* err.text is the subject of a message listed above, "etcdserver" for another
\* message of etcd, "" for one that is not etcd's.
castGrpcError(err) ==
    IF err.text \in DOMAIN grpcMessageToError THEN grpcMessageToError[err.text]
    ELSE IF err.code \in DOMAIN grpcCodeToError THEN grpcCodeToError[err.code]
    ELSE IF err.text = "etcdserver" THEN "EtcdError" ELSE "GRPCGenericError"
=============================================================================
