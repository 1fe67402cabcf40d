\* Two threads that take the crate in any order, a device that may fail.
CONSTANTS
    Threads = {t1, t2}
    Descriptors <- MCDescriptors
    Functions <- MCFunctions
SPECIFICATION Spec
SYMMETRY Symmetry
INVARIANTS
    OneDescriptor
    SuccessIsReal
    LeakBounded
