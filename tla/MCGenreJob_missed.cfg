SPECIFICATION Spec
CONSTANTS
    drama = drama
    comedy = comedy
    NoOutput = NoOutput
    MaxGenres = 2
    Genre <- MCGenre
    Directories <- MCDirectories
INVARIANT DoneMeansEveryFileCounted
