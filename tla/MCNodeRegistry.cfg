\* Registry: three names, two kinds, every order of register calls.
CONSTANTS
    Name = {alice, bob, comment1}
    Kind = {User, Comment}
    NoId = NoId
SPECIFICATION RSpec
INVARIANT RegistryTypeOK
INVARIANT RegistryBijective
PROPERTY RegisterReturnsStoredId
PROPERTY KindStable
