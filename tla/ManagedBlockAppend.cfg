SPECIFICATION Spec
CONSTANTS
    RawKey <- MCRawKey
    Algorithm = {"ssh-ed25519"}
    UserLine = {"u1", "u2"}
    Edit = {"append"}
    MaxLines = 8
    MaxKeys = 2
    MaxEdits = 3
INVARIANT OwnerLinesKept
