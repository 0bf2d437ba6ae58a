SPECIFICATION Spec
CONSTANTS
    Second = 10
    MoscowOffset = 30
    NsMin <- FirstInstant
    NsMax = 100
    Requests <- AllRequests
    Spelled <- SpelledKey
    InferPandasBelow <- InferPandasRec
    InferArrowBelow <- InferArrowRec
    RenderedBelow <- RenderedRec
    FlattenCellsBelow <- FlattenCellsRec
    ConformedBelow <- ConformedRec
    NamedBelow <- NamedRec
    BuildableBelow <- BuildableRec
    CellOfBelow <- CellOfRec
    RaisesBelow <- RaisesRec
    ConvertibleBelow <- ConvertibleRec
    ArrowTypeBelow <- ArrowTypeRec
    FormatPathsOfTypeBelow <- FormatPathsOfTypeRec
    FixFieldBelow <- FixFieldRec
    BuildArrayBelow <- BuildArrayRec
    EnrichTypeDefBelow <- EnrichTypeDefRec
    IdsOfBelow <- IdsOfRec
    ReturnedBelow <- ReturnedRec
    WholeBelow <- WholeRec
    FitsBelow <- FitsRec
    NamesApartBelow <- NamesApartRec
    CarriesBelow <- CarriesRec
    ExpectedTypeBelow <- ExpectedTypeRec
INVARIANT TypeOK
INVARIANT RoundTrip
INVARIANT FramesComeBack
INVARIANT SampledFits
INVARIANT TypesKept
INVARIANT RecordsLoaded
INVARIANT FormatsApplied
INVARIANT IdsInOrder
