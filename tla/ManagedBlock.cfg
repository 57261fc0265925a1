SPECIFICATION Spec
CONSTANTS
    RawKey <- MCRawKey
    Algorithm = {"ssh-ed25519"}
    UserLine = {"u1", "u2"}
    Edit = {"insert", "delete", "append", "delete_marker"}
    MaxLines = 9
    MaxKeys = 2
    MaxEdits = 3
INVARIANTS
    TypeOK
    KeysPresent
    Idempotent
PROPERTIES
    UpdateKeepsOwnerLines
    BlockIsApplied
