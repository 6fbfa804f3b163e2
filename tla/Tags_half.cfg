SPECIFICATION TagsSpec
CONSTANT TagDocs <- MCTagDocs
CHECK_DEADLOCK FALSE
INVARIANT ValuesAreNotErased
